-------------------------- MODULE BrasRobot_proofs ---------------------------
(***************************************************************************)
(* The arm, when the command gives one order at a time: a place is read    *)
(* and written with the arm lowered over it, and when DeplacerPiece is     *)
(* over the gripper is empty and the arm up.  Two facts carry the proof:   *)
(* what is under way on a channel is for the one who waits there, and the  *)
(* steps of a DeplacerPiece, counted from its end, tell where the arm is   *)
(* asked to be.                                                            *)
(***************************************************************************)
EXTENDS CommandeRobot_proofs

(* The head of the stack after a step that goes on.                        *)
Suivante == appels'[1]

LEMMA TeteRemplacee ==
    ASSUME InvTypes, appels # <<>>, NEW f \in EtapeType, Remplace(<<f>>)
    PROVE  Suivante = f
<1>1. appels \in Seq(EtapeType) /\ appels' = <<f>> \o Tail(appels)
  BY DEF InvTypes, TypesFiles, Remplace
<1>2. QED  BY <1>1, PileChangee DEF Suivante

LEMMA TeteChangee ==
    ASSUME InvTypes, appels # <<>>, NEW c \in Canaux \cup {""}, NEW o \in Ops,
           NEW a \in 0..(10 + NB_CUBE), NEW l \in LuesType
    PROVE  LET e == Courant
           IN  /\ Remplace(<<[e EXCEPT !.attend = c]>>) =>
                    Fiche(Suivante, e.op, e.pos, e.arg, e.objet, e.lues, c)
               /\ Remplace(<<[e EXCEPT !.op = o, !.attend = c]>>) =>
                    Fiche(Suivante, o, e.pos, e.arg, e.objet, e.lues, c)
               /\ Remplace(<<[e EXCEPT !.op = o, !.arg = a, !.attend = c]>>) =>
                    Fiche(Suivante, o, e.pos, a, e.objet, e.lues, c)
               /\ Remplace(<<[e EXCEPT !.lues = l, !.attend = c]>>) =>
                    Fiche(Suivante, e.op, e.pos, e.arg, e.objet, l, c)
<1> DEFINE e == Courant
<1>1. e \in EtapeType
  BY Tete DEF InvTypes
<1> HIDE DEF e
<1>2. /\ Fiche([e EXCEPT !.attend = c], e.op, e.pos, e.arg, e.objet, e.lues, c)
      /\ Fiche([e EXCEPT !.op = o, !.attend = c], o, e.pos, e.arg, e.objet, e.lues, c)
      /\ Fiche([e EXCEPT !.op = o, !.arg = a, !.attend = c], o, e.pos, a, e.objet, e.lues, c)
      /\ Fiche([e EXCEPT !.lues = l, !.attend = c], e.op, e.pos, e.arg, e.objet, l, c)
  BY <1>1, Changee
<1>3. \A f \in EtapeType : Remplace(<<f>>) => Suivante = f
  BY TeteRemplacee
<1>4. /\ [e EXCEPT !.attend = c] \in EtapeType
      /\ [e EXCEPT !.op = o, !.attend = c] \in EtapeType
      /\ [e EXCEPT !.op = o, !.arg = a, !.attend = c] \in EtapeType
      /\ [e EXCEPT !.lues = l, !.attend = c] \in EtapeType
  BY <1>2 DEF Fiche
<1>5. QED  BY <1>2, <1>3, <1>4, Zenon DEF e

LEMMA TeteLecture ==
    ASSUME InvTypes, appels # <<>>, NEW op \in Lectures, NEW b \in Objets,
           Remplace(<<Lire(op, Courant.pos, b)>>)
    PROVE  Fiche(Suivante, op, Courant.pos, 0, b, <<>>, "")
<1>1. Courant.pos \in 0..4 /\ op \in Ops /\ 0 \in 0..10
  <2>1. Courant.pos \in 0..4
    BY Tete DEF InvTypes
  <2>2. op \in Ops
    BY DEF Ops
  <2>3. QED  BY <2>1, <2>2
<1>2. \A x \in Objets : Fiche([Etape(op, Courant.pos, 0) EXCEPT !.objet = x],
                              op, Courant.pos, 0, x, <<>>, "")
  BY ONLY <1>1, Nouvelle
<1>3. Fiche(Lire(op, Courant.pos, b), op, Courant.pos, 0, b, <<>>, "")
  BY <1>2 DEF Lire
<1>4. Lire(op, Courant.pos, b) \in EtapeType
  BY <1>3 DEF Fiche
<1>5. Suivante = Lire(op, Courant.pos, b)
  BY <1>4, TeteRemplacee
<1>6. QED  BY <1>3, <1>5

-----------------------------------------------------------------------------
(* What each step that goes on makes of the step at the head.              *)
LEMMA EffetsRpos ==
    ASSUME InvTypes, EnvoyerRobot \/ EnvoyerJoints \/ DescendreBras \/ MonterBras
    PROVE  /\ appels # <<>> /\ Courant.attend = "" /\ rep' = rep
           /\ Suivante.op = "consigne" /\ Suivante.attend = "setJointState"
           /\ \E q \in RequeteType :
                /\ q.pose = Rpos'
                /\ requetes' = [requetes EXCEPT !["setJointState"] = Append(@, q)]
           /\ \/ Courant.op = "envoyer" /\ Rpos' = Pose(Courant.pos, 0)
              \/ Courant.op = "joints"
              \/ Courant.op = "descendre" /\ Rpos' = [Rpos EXCEPT !.bas = @ + 1]
              \/ Courant.op = "monter" /\ Rpos' = [Rpos EXCEPT !.bas = @ - 1]
           /\ UNCHANGED <<entree, valeur, couleur_transportee, evacues>>
<1>1. ASSUME NEW o, Libre(o), NEW cible \in PoseType, NEW code \in {2, 4, 5},
             NouveauRpos(cible, code)
      PROVE  /\ appels # <<>> /\ Courant.op = o /\ Courant.attend = "" /\ rep' = rep
             /\ Suivante.op = "consigne" /\ Suivante.attend = "setJointState"
             /\ Rpos' = cible
             /\ \E q \in RequeteType :
                  /\ q.pose = Rpos'
                  /\ requetes' = [requetes EXCEPT !["setJointState"] = Append(@, q)]
             /\ UNCHANGED <<entree, valeur, couleur_transportee, evacues>>
  <2> DEFINE f == [Etape("consigne", cible.pos, code) EXCEPT !.attend = "setJointState"]
             q == Requete("", 0, SansCube, cible)
  <2>1. appels # <<>> /\ Courant.op = o /\ Courant.attend = ""
    BY <1>1 DEF Libre, Actif, Courant
  <2>2. /\ Rpos' = cible /\ Demande("setJointState", q) /\ Remplace(<<f>>)
        /\ UNCHANGED <<entree, rep, valeur, couleur_transportee, evacues>>
    BY <1>1 DEF NouveauRpos
  <2>3. Fiche(f, "consigne", cible.pos, code, "", <<>>, "setJointState")
    <3>1. cible.pos \in 0..4 /\ code \in 0..10
      BY <1>1 DEF PoseType
    <3>2. "consigne" \in Ops /\ "setJointState" \in Canaux
      BY DEF Ops, Canaux
    <3>3. QED  BY <3>1, <3>2, Nouvelle
  <2>4. q \in RequeteType /\ q.pose = cible
    <3>1. SansCube \in Cubes /\ 0 \in 0..NB_CUBE /\ "" \in Objets \cup {""}
      BY Constantes
    <3>2. q \in RequeteType
      BY <1>1, <3>1, RequeteFaite
    <3>3. QED  BY <3>2 DEF Requete
  <2> HIDE DEF f, q
  <2>5. Suivante = f
    BY <2>1, <2>2, <2>3, TeteRemplacee DEF Fiche
  <2>6. requetes' = [requetes EXCEPT !["setJointState"] = Append(@, q)]
    BY <2>2 DEF Demande
  <2>7. QED  BY <2>1, <2>2, <2>3, <2>4, <2>5, <2>6 DEF Fiche
<1>2. CASE EnvoyerRobot
  <2>1. Libre("envoyer") /\ NouveauRpos(Pose(Courant.pos, 0), 2)
    BY <1>2 DEF EnvoyerRobot
  <2>2. Pose(Courant.pos, 0) \in PoseType
    BY <2>1, Tete, Constantes DEF InvTypes, Libre, Actif
  <2>3. QED  BY <1>1, <2>1, <2>2
<1>3. CASE EnvoyerJoints
  <2>1. Pose(0, 0) \in PoseType
    BY Constantes
  <2>2. QED  BY <1>1, <1>3, <2>1 DEF EnvoyerJoints
<1>4. CASE DescendreBras
  <2>1. [Rpos EXCEPT !.bas = @ + 1] \in PoseType
    BY DEF InvTypes, TypesMemoire, PoseType
  <2>2. QED  BY <1>1, <1>4, <2>1 DEF DescendreBras
<1>5. CASE MonterBras
  <2>1. [Rpos EXCEPT !.bas = @ - 1] \in PoseType
    BY DEF InvTypes, TypesMemoire, PoseType
  <2>2. QED  BY <1>1, <1>5, <2>1 DEF MonterBras
<1>6. QED  BY <1>2, <1>3, <1>4, <1>5

(* A step that goes on without asking for another pose. *)
Garde == UNCHANGED <<Rpos, couleur_transportee, entree, valeur, lot>>

Fiche1(e, o, c) == e.op = o /\ e.attend = c
Vers(o, c, q, d) == Fiche1(Courant, o, c) /\ Fiche1(Suivante, q, d)
Pareil == Suivante.pos = Courant.pos /\ Suivante.arg = Courant.arg
          /\ Suivante.objet = Courant.objet /\ Suivante.lues = Courant.lues

LEMMA EffetsMouvement ==
    ASSUME InvTypes
    PROVE  /\ ConsigneRecue => /\ Garde /\ Pareil /\ rep["setJointState"]
                               /\ Vers("consigne", "setJointState", "sonder", "getJointState")
           /\ PositionNonAtteinte =>
                /\ Garde /\ Suivante = Courant /\ appels' = appels
                /\ Fiche1(Courant, "sonder", "getJointState")
           /\ PinceCommande => Garde /\ Pareil /\ Vers("pince", "", "pince", "getTime")
           /\ PinceAttend =>
                /\ Garde /\ Pareil
                /\ Vers("pince", "getTime", "serrage", "getTime")
                   \/ Vers("serrage", "getTime", "serrage", "getTime")
           /\ InitDemande => Garde /\ Pareil /\ Vers("init", "", "init", "getObjectHandle")
<1> DEFINE e == Courant
<1>1. /\ {"setJointState", "getJointState", "getTime", "getObjectHandle"} \subseteq Canaux
      /\ {"consigne", "sonder", "serrage"} \subseteq Ops
  BY DEF Canaux, Ops
<1>2. ASSUME ConsigneRecue
      PROVE  /\ Garde /\ Pareil /\ rep["setJointState"]
             /\ Vers("consigne", "setJointState", "sonder", "getJointState")
  <2>1. /\ appels # <<>> /\ Fiche1(e, "consigne", "setJointState") /\ rep["setJointState"]
        /\ Remplace(<<[e EXCEPT !.op = "sonder", !.attend = "getJointState"]>>)
    BY <1>2 DEF ConsigneRecue, Recu, Actif, Courant, Fiche1
  <2>2. Fiche(Suivante, "sonder", e.pos, e.arg, e.objet, e.lues, "getJointState")
    BY <1>1, <2>1, TeteChangee, Tete DEF InvTypes
  <2>3. QED
    BY <1>2, <2>1, <2>2 DEF ConsigneRecue, Garde, varsMemoire, Vers, Fiche1, Fiche, Pareil
<1>3. ASSUME PositionNonAtteinte
      PROVE  /\ Garde /\ Suivante = Courant /\ appels' = appels
             /\ Fiche1(Courant, "sonder", "getJointState")
  <2>1. appels # <<>> /\ Fiche1(e, "sonder", "getJointState") /\ appels' = appels /\ Garde
    BY <1>3 DEF PositionNonAtteinte, Recu, Actif, Courant, Fiche1, Garde, varsMemoire
  <2>2. Courant = appels[1]
    BY <2>1, Tete DEF InvTypes
  <2>3. QED  BY <2>1, <2>2 DEF Suivante
<1>4. ASSUME PinceCommande
      PROVE  Garde /\ Pareil /\ Vers("pince", "", "pince", "getTime")
  <2>1. /\ appels # <<>> /\ Fiche1(e, "pince", "") /\ Garde
        /\ Remplace(<<[e EXCEPT !.attend = "getTime"]>>)
    BY <1>4 DEF PinceCommande, Libre, Actif, Courant, Fiche1, Garde, varsMemoire
  <2>2. Fiche(Suivante, e.op, e.pos, e.arg, e.objet, e.lues, "getTime")
    BY <1>1, <2>1, TeteChangee, Tete DEF InvTypes
  <2>3. QED  BY <2>1, <2>2 DEF Vers, Fiche1, Fiche, Pareil
<1>5. ASSUME PinceAttend
      PROVE  /\ Garde /\ Pareil
             /\ Vers("pince", "getTime", "serrage", "getTime")
                   \/ Vers("serrage", "getTime", "serrage", "getTime")
  <2>1. /\ appels # <<>>
        /\ Fiche1(e, "pince", "getTime") \/ Fiche1(e, "serrage", "getTime")
        /\ Garde /\ Remplace(<<[e EXCEPT !.op = "serrage"]>>)
    BY <1>5 DEF PinceAttend, Recu, Actif, Courant, Fiche1, Garde, varsMemoire
  <2>2. Fiche(Suivante, "serrage", e.pos, e.arg, e.objet, e.lues, e.attend)
    <3>1. e \in EtapeType
      BY <2>1, Tete DEF InvTypes
    <3>2. Fiche([e EXCEPT !.op = "serrage"], "serrage", e.pos, e.arg, e.objet, e.lues, e.attend)
      BY <1>1, <3>1, SuitesDeLues DEF Fiche
    <3>3. QED  BY <2>1, <3>2, TeteRemplacee DEF Fiche
  <2>3. QED  BY <2>1, <2>2 DEF Vers, Fiche1, Fiche, Pareil
<1>6. ASSUME InitDemande
      PROVE  Garde /\ Pareil /\ Vers("init", "", "init", "getObjectHandle")
  <2>1. /\ appels # <<>> /\ Fiche1(e, "init", "") /\ Garde
        /\ Remplace(<<[e EXCEPT !.attend = "getObjectHandle"]>>)
    BY <1>6 DEF InitDemande, Libre, Actif, Courant, Fiche1, Garde, varsMemoire
  <2>2. Fiche(Suivante, e.op, e.pos, e.arg, e.objet, e.lues, "getObjectHandle")
    BY <1>1, <2>1, TeteChangee, Tete DEF InvTypes
  <2>3. QED  BY <2>1, <2>2 DEF Vers, Fiche1, Fiche, Pareil
<1>7. QED  BY <1>2, <1>3, <1>4, <1>5, <1>6, Zenon

(* The readings and the writings. *)
Peinture(o, q, contenu) ==
    /\ Garde /\ Fiche1(Courant, o, "") /\ Lu(Courant)
    /\ Suivante.op = q /\ Suivante.pos = Courant.pos /\ Suivante.objet = Courant.objet
    /\ Suivante.lues = Courant.lues /\ Suivante.attend = CanalPeinture(Courant.objet)
    /\ \E r \in RequeteType :
         /\ r.objet = Courant.objet /\ r.cubes = contenu
         /\ requetes' = [requetes EXCEPT ![Suivante.attend] = Append(@, r)]

Debute(op, objet) ==
    /\ Garde /\ requetes' = requetes
    /\ Suivante.op = op /\ Suivante.attend = "" /\ Suivante.pos = Courant.pos
    /\ Suivante.objet = objet /\ Suivante.lues = <<>>

LEMMA EffetPeindre ==
    ASSUME InvTypes, NEW o \in Lectures, Libre(o), Lu(Courant), Garde,
           NEW q \in Ops, NEW rang \in 0..NB_CUBE, NEW contenu \in Cubes,
           Peindre(q, rang, contenu)
    PROVE  Peinture(o, q, contenu) /\ Suivante.arg = rang
<1> DEFINE e == Courant
           c == CanalPeinture(e.objet)
           r == Requete(e.objet, 0, contenu, Pose(0, 0))
<1>1. appels # <<>> /\ Fiche1(e, o, "")
  BY DEF Libre, Actif, Courant, Fiche1
<1>2. /\ e.objet \in Objets /\ e.lues \in LuesType
  BY <1>1, Tete DEF InvTypes, EtapeJuste, OpsObjet, Fiche1
<1>3. c \in Canaux
  BY DEF CanalPeinture, Canaux
<1>4. rang \in 0..(10 + NB_CUBE)
  BY Constantes
<1>5. r \in RequeteType /\ r.objet = e.objet /\ r.cubes = contenu
  BY <1>2, Constantes DEF Requete, RequeteType
<1>6. /\ Remplace(<<[e EXCEPT !.op = q, !.arg = rang, !.attend = c]>>)
      /\ requetes' = [requetes EXCEPT ![c] = Append(@, r)]
  BY DEF Peindre, Demande
<1> HIDE DEF r
<1>7. Fiche(Suivante, q, e.pos, rang, e.objet, e.lues, c)
  BY <1>1, <1>2, <1>3, <1>4, <1>6, TeteChangee
<1>8. QED  BY <1>1, <1>5, <1>6, <1>7 DEF Peinture, Fiche

LEMMA EffetsPeintures ==
    ASSUME InvTypes
    PROVE  /\ ColorerPeint =>
                \/ Peinture("lirePrise", "peindrePrise", couleur_transportee)
                \/ Peinture("lirePose", "peindrePose", couleur_transportee)
           /\ TacheColore =>
                /\ ~PosteVide(Courant.lues) /\ ~PostePlein(Courant.lues)
                /\ Peinture("lireDebut", "peindreDebut",
                            [Complete(Courant.lues) EXCEPT
                               ![Len(Courant.lues)] = CouleurEnCours(Courant.pos)])
           /\ FinTask =>
                /\ Suivante.arg = DernierCube(Courant.lues)
                /\ Peinture("lireFin", "peindreFin",
                            [i \in 1..NB_CUBE |-> IF i = DernierCube(Courant.lues)
                                                  THEN CouleurTache(Courant.pos)
                                                  ELSE Complete(Courant.lues)[i]])
           /\ EvacuerEfface =>
                /\ evacues' = evacues \cup {Courant.lues[1]}
                /\ Peinture("lireEvac", "peindreEvac", SansCube)
<1>1. /\ {"lirePrise", "lirePose", "lireDebut", "lireFin", "lireEvac"} \subseteq Lectures
      /\ {"peindrePrise", "peindrePose", "peindreDebut", "peindreFin", "peindreEvac"}
           \subseteq Ops
      /\ 0 \in 0..NB_CUBE /\ SansCube \in Cubes
  BY Constantes DEF Lectures, Ops
<1>2. ASSUME NEW o \in Lectures, Libre(o)
      PROVE  Courant.lues \in LuesType /\ (o \in OpsPoste => Courant.pos \in PositionsPoste)
  <2>1. appels # <<>> /\ Courant.op = o
    BY <1>2 DEF Libre, Actif, Courant
  <2>2. QED  BY <2>1, Tete DEF InvTypes, EtapeJuste
<1>3. ASSUME ColorerPeint
      PROVE  \/ Peinture("lirePrise", "peindrePrise", couleur_transportee)
             \/ Peinture("lirePose", "peindrePose", couleur_transportee)
  <2>1. couleur_transportee \in Cubes
    BY DEF InvTypes, TypesMemoire
  <2>2. Garde
    BY <1>3 DEF ColorerPeint, VarsSansFile, varsMemoire, Garde
  <2>3. CASE Libre("lirePrise") /\ Lu(Courant) /\ Peindre("peindrePrise", 0, couleur_transportee)
    BY <1>1, <2>1, <2>2, <2>3, EffetPeindre
  <2>4. CASE Libre("lirePose") /\ Lu(Courant) /\ Peindre("peindrePose", 0, couleur_transportee)
    BY <1>1, <2>1, <2>2, <2>4, EffetPeindre
  <2>5. QED  BY <1>3, <2>3, <2>4 DEF ColorerPeint
<1>4. ASSUME TacheColore
      PROVE  /\ ~PosteVide(Courant.lues) /\ ~PostePlein(Courant.lues)
             /\ Peinture("lireDebut", "peindreDebut",
                         [Complete(Courant.lues) EXCEPT
                            ![Len(Courant.lues)] = CouleurEnCours(Courant.pos)])
  <2> DEFINE x == [Complete(Courant.lues) EXCEPT
                     ![Len(Courant.lues)] = CouleurEnCours(Courant.pos)]
  <2>1. /\ Libre("lireDebut") /\ Lu(Courant) /\ Peindre("peindreDebut", 0, x)
        /\ ~PosteVide(Courant.lues) /\ ~PostePlein(Courant.lues) /\ Garde
    BY <1>4 DEF TacheColore, VarsSansFile, varsMemoire, Garde
  <2>2. Courant.lues \in LuesType /\ Courant.pos \in PositionsPoste
    BY <1>1, <1>2, <2>1 DEF OpsPoste
  <2>3. x \in Cubes
    BY <2>2, Constantes, Empilements
  <2> HIDE DEF x
  <2>4. Peinture("lireDebut", "peindreDebut", x)
    BY <1>1, <2>1, <2>3, EffetPeindre
  <2>5. QED  BY <2>1, <2>4 DEF x
<1>5. ASSUME FinTask
      PROVE  /\ Suivante.arg = DernierCube(Courant.lues)
             /\ Peinture("lireFin", "peindreFin",
                         [i \in 1..NB_CUBE |-> IF i = DernierCube(Courant.lues)
                                               THEN CouleurTache(Courant.pos)
                                               ELSE Complete(Courant.lues)[i]])
  <2> DEFINE n == DernierCube(Courant.lues)
             x == [i \in 1..NB_CUBE |-> IF i = n THEN CouleurTache(Courant.pos)
                                        ELSE Complete(Courant.lues)[i]]
  <2>1. /\ Libre("lireFin") /\ Lu(Courant) /\ Peindre("peindreFin", n, x) /\ Garde
    BY <1>5 DEF FinTask, VarsSansFile, varsMemoire, Garde
  <2>2. Courant.lues \in LuesType /\ Courant.pos \in PositionsPoste
    BY <1>1, <1>2, <2>1 DEF OpsPoste
  <2>3. x \in Cubes
    BY <2>2, Constantes, Empilements
  <2>4. n \in 0..NB_CUBE
    <3>1. Courant.lues \in Seq(Couleurs) /\ Len(Courant.lues) <= NB_CUBE
      BY <2>2, SuitesDeLues
    <3>2. Len(Courant.lues) >= 1
      BY <2>1, <3>1, Constantes DEF Lu
    <3>3. QED  BY <3>1, <3>2, Constantes DEF DernierCube
  <2> HIDE DEF n, x
  <2>5. Peinture("lireFin", "peindreFin", x) /\ Suivante.arg = n
    BY <1>1, <2>1, <2>3, <2>4, EffetPeindre
  <2>6. QED  BY <2>5 DEF n, x
<1>6. ASSUME EvacuerEfface
      PROVE  /\ evacues' = evacues \cup {Courant.lues[1]}
             /\ Peinture("lireEvac", "peindreEvac", SansCube)
  <2>1. /\ Libre("lireEvac") /\ Lu(Courant) /\ Peindre("peindreEvac", 0, SansCube) /\ Garde
        /\ evacues' = evacues \cup {Courant.lues[1]}
    BY <1>6 DEF EvacuerEfface, VarsSansFile, Garde
  <2>2. QED  BY <1>1, <2>1, EffetPeindre
<1>7. QED  BY <1>3, <1>4, <1>5, <1>6, Zenon

LEMMA EffetsLectures ==
    ASSUME InvTypes
    PROVE  /\ LireCouleur =>
                /\ Garde /\ Pareil /\ ~Lu(Courant) /\ Courant.op \in Lectures
                /\ Vers(Courant.op, "", Courant.op, "getColor")
           /\ CouleurRecue =>
                /\ Garde /\ Courant.op \in Lectures /\ rep["getColor"] /\ requetes' = requetes
                /\ Vers(Courant.op, "getColor", Courant.op, "")
                /\ Suivante.pos = Courant.pos /\ Suivante.objet = Courant.objet
                /\ Suivante.lues = Append(Courant.lues, valeur.couleur)
           /\ ColorerNavette =>
                /\ Courant.op \in {"prise", "pose"} /\ Courant.attend = ""
                /\ Courant.pos \in PositionsNavette /\ navette[Courant.pos] \in Navettes
                /\ Debute(LectureDe(Courant.op), navette[Courant.pos])
           /\ ColorerPoste =>
                /\ Courant.op \in {"prise", "pose"} /\ Courant.attend = ""
                /\ Courant.pos \in PositionsPoste
                /\ Debute(LectureDe(Courant.op), NomPoste(Courant.pos))
           /\ TacheHeure => /\ Fiche1(Courant, "tache", "getTime")
                            /\ Debute("lireDebut", NomPoste(Courant.pos))
           /\ TacheEchue => /\ Fiche1(Courant, "verifier", "")
                            /\ Debute("lireFin", NomPoste(Courant.pos))
           /\ Evacuer => /\ Fiche1(Courant, "evacuer", "")
                         /\ Debute("lireEvac", NomPoste(Courant.pos))
<1> DEFINE e == Courant
<1>1. /\ {"lirePrise", "lirePose", "lireDebut", "lireFin", "lireEvac"} \subseteq Lectures
      /\ "getColor" \in Canaux /\ \A p : NomPoste(p) \in Objets
      /\ \A o \in {"prise", "pose"} : LectureDe(o) \in Lectures
  BY DEF Lectures, Canaux, NomPoste, Objets, LectureDe
<1>2. ASSUME NEW o, Libre(o)
      PROVE  appels # <<>> /\ Fiche1(e, o, "")
  BY <1>2 DEF Libre, Actif, Courant, Fiche1
<1>3. ASSUME NEW op \in Lectures, NEW b \in Objets, appels # <<>>,
             Remplace(<<Lire(op, e.pos, b)>>), Garde, requetes' = requetes
      PROVE  Debute(op, b)
  BY <1>3, TeteLecture DEF Fiche, Debute
<1>4. ASSUME LireCouleur
      PROVE  /\ Garde /\ Pareil /\ ~Lu(Courant) /\ Courant.op \in Lectures
             /\ Vers(Courant.op, "", Courant.op, "getColor")
  <2>1. /\ appels # <<>> /\ e.op \in Lectures /\ e.attend = "" /\ ~Lu(e) /\ Garde
        /\ Remplace(<<[e EXCEPT !.attend = "getColor"]>>)
    BY <1>4 DEF LireCouleur, LectureLibre, VarsSansFile, varsMemoire, Garde
  <2>2. Fiche(Suivante, e.op, e.pos, e.arg, e.objet, e.lues, "getColor")
    BY <1>1, <2>1, TeteChangee, Tete DEF InvTypes
  <2>3. QED  BY <2>1, <2>2 DEF Vers, Fiche1, Fiche, Pareil
<1>5. ASSUME CouleurRecue
      PROVE  /\ Garde /\ Courant.op \in Lectures /\ rep["getColor"] /\ requetes' = requetes
             /\ Vers(Courant.op, "getColor", Courant.op, "")
             /\ Suivante.pos = Courant.pos /\ Suivante.objet = Courant.objet
             /\ Suivante.lues = Append(Courant.lues, valeur.couleur)
  <2> DEFINE l == Append(e.lues, valeur.couleur)
  <2>1. /\ appels # <<>> /\ e.op \in Lectures /\ e.attend = "getColor" /\ rep["getColor"]
        /\ Garde /\ requetes' = requetes /\ Remplace(<<[e EXCEPT !.lues = l, !.attend = ""]>>)
    BY <1>5 DEF CouleurRecue, Recu, Actif, Courant, varsTopics, varsMemoire, Garde
  <2>2. /\ Len(e.lues) < NB_CUBE /\ valeur.couleur \in Couleurs /\ NB_CUBE \in Nat
        /\ e.lues \in Seq(Couleurs)
    BY <2>1, Tete, SuitesDeLues, Constantes DEF InvTypes, EtapeJuste, TypesMemoire, ValeurType
  <2>3. l \in Seq(Couleurs) /\ Len(l) = Len(e.lues) + 1 /\ Len(e.lues) \in Nat
    BY <2>2
  <2> HIDE DEF l
  <2>4. l \in LuesType
    <3>1. Len(l) <= NB_CUBE
      BY <2>2, <2>3
    <3>2. QED  BY <2>3, <3>1, SuitesDeLues
  <2>5. e.op \in Ops /\ 0 \in 0..(10 + NB_CUBE)
    <3>1. e.op \in Ops
      BY <2>1, Tete DEF InvTypes
    <3>2. QED  BY <2>2, <3>1
  <2>6. Fiche(Suivante, e.op, e.pos, e.arg, e.objet, l, "")
    <3>1. "" \in Canaux \cup {""}
      OBVIOUS
    <3>2. QED  BY <2>1, <2>4, <2>5, <3>1, TeteChangee
  <2>7. QED  BY <2>1, <2>6 DEF Vers, Fiche1, Fiche, l
<1>6. ASSUME ColorerNavette
      PROVE  /\ Courant.op \in {"prise", "pose"} /\ Courant.attend = ""
             /\ Courant.pos \in PositionsNavette /\ navette[Courant.pos] \in Navettes
             /\ Debute(LectureDe(Courant.op), navette[Courant.pos])
  <2>1. PICK op \in {"prise", "pose"} :
          /\ Libre(op) /\ e.pos \in PositionsNavette /\ navette[e.pos] # AucuneNavette
          /\ Remplace(<<Lire(LectureDe(op), e.pos, navette[e.pos])>>)
          /\ Garde /\ requetes' = requetes
    BY <1>6 DEF ColorerNavette, Colorer, varsTopics, varsMemoire, Garde
  <2>2. navette[e.pos] \in Navettes /\ navette[e.pos] \in Objets
    BY <2>1, Constantes DEF InvTypes, TypesScene
  <2>3. appels # <<>> /\ Fiche1(e, op, "")
    BY <1>2, <2>1
  <2>4. Debute(LectureDe(op), navette[e.pos])
    BY <1>1, <1>3, <2>1, <2>2, <2>3
  <2>5. QED  BY <2>1, <2>2, <2>3, <2>4 DEF Fiche1
<1>7. ASSUME ColorerPoste
      PROVE  /\ Courant.op \in {"prise", "pose"} /\ Courant.attend = ""
             /\ Courant.pos \in PositionsPoste
             /\ Debute(LectureDe(Courant.op), NomPoste(Courant.pos))
  <2>1. PICK op \in {"prise", "pose"} :
          /\ Libre(op) /\ e.pos \in PositionsPoste
          /\ Remplace(<<Lire(LectureDe(op), e.pos, NomPoste(e.pos))>>)
          /\ Garde /\ requetes' = requetes
    BY <1>7 DEF ColorerPoste, Colorer, Garde
  <2>2. appels # <<>> /\ Fiche1(e, op, "")
    BY <1>2, <2>1
  <2>3. Debute(LectureDe(op), NomPoste(e.pos))
    BY <1>1, <1>3, <2>1, <2>2
  <2>4. QED  BY <2>1, <2>2, <2>3 DEF Fiche1
<1>8. ASSUME TacheHeure
      PROVE  Fiche1(e, "tache", "getTime") /\ Debute("lireDebut", NomPoste(e.pos))
  <2>1. /\ appels # <<>> /\ Fiche1(e, "tache", "getTime")
        /\ Remplace(<<Lire("lireDebut", e.pos, NomPoste(e.pos))>>)
        /\ Garde /\ requetes' = requetes
    BY <1>8 DEF TacheHeure, Recu, Actif, Courant, Fiche1, varsTopics, varsMemoire, Garde
  <2>2. QED  BY <1>1, <1>3, <2>1
<1>9. ASSUME TacheEchue
      PROVE  Fiche1(e, "verifier", "") /\ Debute("lireFin", NomPoste(e.pos))
  <2>1. /\ appels # <<>> /\ Fiche1(e, "verifier", "")
        /\ Remplace(<<Lire("lireFin", e.pos, NomPoste(e.pos))>>)
        /\ Garde /\ requetes' = requetes
    BY <1>9, <1>2 DEF TacheEchue, varsTopics, Garde
  <2>2. QED  BY <1>1, <1>3, <2>1
<1>10. ASSUME Evacuer
       PROVE  Fiche1(e, "evacuer", "") /\ Debute("lireEvac", NomPoste(e.pos))
  <2>1. /\ appels # <<>> /\ Fiche1(e, "evacuer", "")
        /\ Remplace(<<Lire("lireEvac", e.pos, NomPoste(e.pos))>>)
        /\ Garde /\ requetes' = requetes
    BY <1>10, <1>2 DEF Evacuer, varsTopics, varsMemoire, Garde
  <2>2. QED  BY <1>1, <1>3, <2>1
<1>11. QED  BY <1>4, <1>5, <1>6, <1>7, <1>8, <1>9, <1>10, Zenon

LEMMA EffetsTaches ==
    ASSUME InvTypes
    PROVE  /\ FaireTache => Garde /\ Pareil /\ Vers("tache", "", "tache", "getTime")
           /\ FinTaskPeint =>
                /\ Garde /\ Pareil /\ requetes' = requetes
                /\ Courant.attend \in {"changeColor", "changeShuttleColor"}
                /\ rep[Courant.attend]
                /\ Vers("peindreFin", Courant.attend, "confirmer", "")
           /\ Confirmer => Garde /\ Pareil /\ Vers("confirmer", "", "confirmer", "getColor")
           /\ PasEncoreCouleur =>
                Garde /\ Pareil /\ Vers("confirmer", "getColor", "confirmer", "")
<1> DEFINE e == Courant
<1>1. "getTime" \in Canaux /\ "getColor" \in Canaux /\ "confirmer" \in Ops
      /\ "" \in Canaux \cup {""}
  BY DEF Canaux, Ops
<1>2. ASSUME NEW o, Libre(o)
      PROVE  appels # <<>> /\ Fiche1(e, o, "")
  BY <1>2 DEF Libre, Actif, Courant, Fiche1
<1>3. ASSUME FaireTache
      PROVE  Garde /\ Pareil /\ Vers("tache", "", "tache", "getTime")
  <2>1. /\ appels # <<>> /\ Fiche1(e, "tache", "") /\ Garde
        /\ Remplace(<<[e EXCEPT !.attend = "getTime"]>>)
    BY <1>2, <1>3 DEF FaireTache, VarsSansFile, varsMemoire, Garde
  <2>2. Fiche(Suivante, e.op, e.pos, e.arg, e.objet, e.lues, "getTime")
    BY <1>1, <2>1, TeteChangee, Tete DEF InvTypes
  <2>3. QED  BY <2>1, <2>2 DEF Vers, Fiche1, Fiche, Pareil
<1>4. ASSUME FinTaskPeint
      PROVE  /\ Garde /\ Pareil /\ requetes' = requetes
             /\ Courant.attend \in {"changeColor", "changeShuttleColor"} /\ rep[Courant.attend]
             /\ Vers("peindreFin", Courant.attend, "confirmer", "")
  <2>1. /\ appels # <<>> /\ e.op = "peindreFin"
        /\ e.attend \in {"changeColor", "changeShuttleColor"} /\ rep[e.attend]
        /\ Garde /\ requetes' = requetes
        /\ Remplace(<<[e EXCEPT !.op = "confirmer", !.attend = ""]>>)
    BY <1>4 DEF FinTaskPeint, Peint, Recu, Actif, Courant, varsTopics, varsMemoire, Garde
  <2>2. Fiche(Suivante, "confirmer", e.pos, e.arg, e.objet, e.lues, "")
    BY <1>1, <2>1, TeteChangee, Tete DEF InvTypes
  <2>3. QED  BY <2>1, <2>2 DEF Vers, Fiche1, Fiche, Pareil
<1>5. ASSUME Confirmer
      PROVE  Garde /\ Pareil /\ Vers("confirmer", "", "confirmer", "getColor")
  <2>1. /\ appels # <<>> /\ Fiche1(e, "confirmer", "") /\ Garde
        /\ Remplace(<<[e EXCEPT !.attend = "getColor"]>>)
    BY <1>2, <1>5 DEF Confirmer, VarsSansFile, varsMemoire, Garde
  <2>2. Fiche(Suivante, e.op, e.pos, e.arg, e.objet, e.lues, "getColor")
    BY <1>1, <2>1, TeteChangee, Tete DEF InvTypes
  <2>3. QED  BY <2>1, <2>2 DEF Vers, Fiche1, Fiche, Pareil
<1>6. ASSUME PasEncoreCouleur
      PROVE  Garde /\ Pareil /\ Vers("confirmer", "getColor", "confirmer", "")
  <2>1. /\ appels # <<>> /\ Fiche1(e, "confirmer", "getColor") /\ Garde
        /\ Remplace(<<[e EXCEPT !.attend = ""]>>)
    BY <1>6 DEF PasEncoreCouleur, Recu, Actif, Courant, Fiche1, varsTopics, varsMemoire, Garde
  <2>2. Fiche(Suivante, e.op, e.pos, e.arg, e.objet, e.lues, "")
    BY <1>1, <2>1, TeteChangee, Tete DEF InvTypes
  <2>3. QED  BY <2>1, <2>2 DEF Vers, Fiche1, Fiche, Pareil
<1>7. QED  BY <1>3, <1>4, <1>5, <1>6, Zenon

-----------------------------------------------------------------------------
(* Which step waits on which channel. *)
Peintures == {"peindrePrise", "peindrePose", "peindreDebut", "peindreFin", "peindreEvac"}
Mobile(e) == e.op \in {"consigne", "sonder"}
AttenteJuste(e) ==
    /\ e.op = "consigne" <=> e.attend = "setJointState"
    /\ e.op = "sonder" <=> e.attend = "getJointState"
    /\ e.op \in Peintures <=> e.attend \in {"changeColor", "changeShuttleColor"}
    /\ e.op \in Peintures => e.attend = CanalPeinture(e.objet)
InvAttentes == \A i \in 1..Len(appels) : AttenteJuste(appels[i])

Departs == {"envoyer", "joints", "descendre", "monter"}
AutreSuite ==
    \/ ConsigneRecue \/ PositionNonAtteinte \/ PinceCommande \/ PinceAttend \/ InitDemande
    \/ LireCouleur \/ CouleurRecue \/ ColorerNavette \/ ColorerPeint \/ FaireTache
    \/ TacheHeure \/ TacheColore \/ FinTask \/ FinTaskPeint \/ Confirmer
    \/ PasEncoreCouleur \/ Evacuer \/ EvacuerEfface \/ ColorerPoste \/ TacheEchue
Fin ==
    \/ PositionAtteinte \/ PinceDejaFaite \/ PinceFin \/ ColorerSansNavette \/ FinPrise
    \/ FinPose \/ EvacuerFin \/ TacheContinue \/ InitFin \/ RetourFin \/ TacheImpossible
    \/ TacheTerminee \/ StopTache \/ DebutTask

(* A step that goes on without asking for a pose: the same step, or the    *)
(* next one of the same callback at the same place.                        *)
LEMMA Suites ==
    ASSUME InvTypes, AttenteJuste(Courant), AutreSuite
    PROVE  /\ Garde /\ AttenteJuste(Suivante) /\ Suivante.pos = Courant.pos
           /\ \/ Courant.op = "verifier"
              \/ Courant.op \notin Departs /\ Mene(Courant.op, Suivante.op)
           /\ ConsigneRecue \/ (Mobile(Courant) => Suivante = Courant)
           /\ Suivante.op # "consigne"
<1> DEFINE e == Courant
           f == Suivante
           But == /\ Garde /\ AttenteJuste(f) /\ f.pos = e.pos
                  /\ \/ e.op = "verifier"
                     \/ e.op \notin Departs /\ Mene(e.op, f.op)
                  /\ ConsigneRecue \/ (Mobile(e) => f = e)
                  /\ f.op # "consigne"
<1>1. CASE \/ ConsigneRecue \/ PositionNonAtteinte \/ PinceCommande \/ PinceAttend
           \/ InitDemande
  <2>1. CASE ConsigneRecue
    <3>1. Garde /\ Pareil /\ Vers("consigne", "setJointState", "sonder", "getJointState")
      BY <2>1, EffetsMouvement
    <3>2. QED  BY <2>1, <3>1
                  DEF AttenteJuste, Pareil, Vers, Fiche1, Mene, Departs, Peintures
  <2>2. CASE PositionNonAtteinte
    <3>1. Garde /\ f = e /\ Fiche1(e, "sonder", "getJointState")
      BY <2>2, EffetsMouvement
    <3>2. QED  BY <3>1 DEF AttenteJuste, Fiche1, Mene, Departs, Peintures
  <2>3. CASE PinceCommande \/ PinceAttend
    <3>1. /\ Garde /\ Pareil
          /\ \/ Vers("pince", "", "pince", "getTime")
             \/ Vers("pince", "getTime", "serrage", "getTime")
             \/ Vers("serrage", "getTime", "serrage", "getTime")
      BY <2>3, EffetsMouvement
    <3>2. QED  BY <3>1 DEF AttenteJuste, Pareil, Vers, Fiche1, Mene, Departs, Peintures, Mobile
  <2>4. CASE InitDemande
    <3>1. Garde /\ Pareil /\ Vers("init", "", "init", "getObjectHandle")
      BY <2>4, EffetsMouvement
    <3>2. QED  BY <3>1 DEF AttenteJuste, Pareil, Vers, Fiche1, Mene, Departs, Peintures, Mobile
  <2>5. QED  BY <1>1, <2>1, <2>2, <2>3, <2>4
<1>2. CASE LireCouleur \/ CouleurRecue
  <2>1. /\ Garde /\ e.op \in Lectures /\ f.op = e.op /\ f.pos = e.pos
        /\ f.attend \in {"getColor", ""}
    BY <1>2, EffetsLectures DEF Vers, Fiche1, Pareil
  <2>2. QED  BY <2>1 DEF AttenteJuste, Lectures, Mene, Departs, Peintures, Mobile
<1>3. CASE ColorerNavette \/ ColorerPoste
  <2>1. /\ Garde /\ e.op \in {"prise", "pose"} /\ f.op = LectureDe(e.op) /\ f.pos = e.pos
        /\ f.attend = ""
    BY <1>3, EffetsLectures DEF Debute
  <2>2. QED  BY <2>1 DEF AttenteJuste, LectureDe, Mene, Departs, Peintures, Mobile
<1>4. CASE TacheHeure \/ TacheEchue \/ Evacuer
  <2>1. /\ Garde /\ f.pos = e.pos /\ f.attend = ""
        /\ \/ e.op = "tache" /\ f.op = "lireDebut"
           \/ e.op = "verifier" /\ f.op = "lireFin"
           \/ e.op = "evacuer" /\ f.op = "lireEvac"
    BY <1>4, EffetsLectures DEF Debute, Fiche1
  <2>2. QED  BY <2>1 DEF AttenteJuste, Mene, Departs, Peintures, Mobile
<1>5. CASE ColorerPeint \/ TacheColore \/ FinTask \/ EvacuerEfface
  <2>1. /\ Garde /\ f.pos = e.pos /\ f.objet = e.objet /\ f.attend = CanalPeinture(f.objet)
        /\ \/ e.op = "lirePrise" /\ f.op = "peindrePrise"
           \/ e.op = "lirePose" /\ f.op = "peindrePose"
           \/ e.op = "lireDebut" /\ f.op = "peindreDebut"
           \/ e.op = "lireFin" /\ f.op = "peindreFin"
           \/ e.op = "lireEvac" /\ f.op = "peindreEvac"
    BY <1>5, EffetsPeintures DEF Peinture, Fiche1
  <2>2. QED  BY <2>1 DEF AttenteJuste, CanalPeinture, Mene, Departs, Peintures, Mobile
<1>6. CASE FaireTache \/ FinTaskPeint \/ Confirmer \/ PasEncoreCouleur
  <2>1. /\ Garde /\ Pareil
        /\ \/ Vers("tache", "", "tache", "getTime")
           \/ e.op = "peindreFin" /\ Fiche1(f, "confirmer", "")
           \/ Vers("confirmer", "", "confirmer", "getColor")
           \/ Vers("confirmer", "getColor", "confirmer", "")
    BY <1>6, EffetsTaches DEF Vers, Fiche1
  <2>2. QED  BY <2>1 DEF AttenteJuste, Vers, Pareil, Fiche1, Mene, Departs, Peintures, Mobile
<1>7. QED  BY <1>1, <1>2, <1>3, <1>4, <1>5, <1>6 DEF AutreSuite

(* A callback ends: the arm is asked nothing new, it is where it was asked *)
(* to be, and what the gripper holds changes only with a prise or a pose.  *)
LEMMA Fins ==
    ASSUME InvTypes, Fin
    PROVE  /\ Termine /\ UNCHANGED <<Rpos, valeur, lot>>
           /\ Courant.op \notin Departs \cup {"consigne"}
           /\ Courant.op = "sonder" => rep["getJointState"] /\ valeur.pose = Rpos
           /\ Courant.op \in {"pose", "lirePose", "peindrePose"} =>
                couleur_transportee' = SansCube
           /\ \/ couleur_transportee' \in {couleur_transportee, SansCube}
              \/ /\ FinPrise /\ Courant.op = "peindrePrise"
                 /\ couleur_transportee' = Complete(Courant.lues)
<1>1. Termine
  <2>1. CASE FinDuRobot
    BY <2>1, FinsDuRobot DEF FinMuette, FinCode
  <2>2. CASE \/ InitFin \/ RetourFin \/ TacheImpossible \/ TacheTerminee \/ StopTache
             \/ DebutTask
    BY <2>2, FinsDOrdre, StopDeTache, DebutDeTache DEF InvTypes, FinCode
  <2>3. QED  BY <2>1, <2>2 DEF Fin, FinDuRobot
<1>2. CASE PositionAtteinte
  BY <1>1, <1>2 DEF PositionAtteinte, Recu, Actif, Courant, Departs
<1>3. CASE PinceDejaFaite \/ RetourFin
  BY <1>1, <1>3 DEF PinceDejaFaite, RetourFin, Libre, Actif, Courant, Departs, varsMemoire
<1>4. CASE PinceFin \/ InitFin
  BY <1>1, <1>4 DEF PinceFin, InitFin, Recu, Actif, Courant, Departs
<1>5. CASE ColorerSansNavette
  BY <1>1, <1>5 DEF ColorerSansNavette, Colorer, Libre, Actif, Courant, Departs
<1>6. CASE FinPrise
  BY <1>1, <1>6 DEF FinPrise, Peint, Recu, Actif, Courant, Departs
<1>7. CASE FinPose
  BY <1>1, <1>7 DEF FinPose, Peint, Recu, Actif, Courant, Departs
<1>8. CASE EvacuerFin \/ DebutTask
  BY <1>1, <1>8 DEF EvacuerFin, DebutTask, Peint, Recu, Actif, Courant, Departs, varsMemoire
<1>9. CASE TacheContinue \/ StopTache \/ TacheImpossible
  BY <1>1, <1>9 DEF TacheContinue, StopTache, TacheImpossible, Libre, Actif, Courant, Departs,
                    varsMemoire
<1>10. CASE TacheTerminee
  BY <1>1, <1>10 DEF TacheTerminee, Recu, Actif, Courant, Departs
<1>11. QED
  BY <1>2, <1>3, <1>4, <1>5, <1>6, <1>7, <1>8, <1>9, <1>10 DEF Fin

(* Every step of the node is one of these, or moves the messages.          *)
LEMMA SortesDePas ==
    ASSUME RobotNext
    PROVE  \/ EnvoyerRobot \/ EnvoyerJoints \/ DescendreBras \/ MonterBras
           \/ AutreSuite \/ Fin
           \/ Update \/ UpdateHeure
           \/ SpinPrincipal \/ SpinOnce \/ CallbackReponse \/ CallbackOrdre \/ FinLot
BY DEF RobotNext, Appels, Mouvement, Pieces, AutreSuite, Fin

LEMMA SuitePoursuit ==
    ASSUME InvTypes, InvTravail,
           \/ EnvoyerRobot \/ EnvoyerJoints \/ DescendreBras \/ MonterBras \/ AutreSuite
    PROVE  Poursuit(Suivante)
<1>1. \E f \in EtapeType : Poursuit(f)
  <2>1. CASE TacheEchue
    BY <2>1, TacheQuiFinit DEF InvTypes
  <2>2. CASE SuiteDuRobot
    BY <2>2, SuitesDuRobot DEF MemeSuite
  <2>3. QED  BY <2>1, <2>2 DEF AutreSuite, SuiteDuRobot
<1>2. PICK f \in EtapeType : Poursuit(f)
  BY <1>1
<1>3. Suivante = f
  BY <1>2, PilePoursuit DEF InvTypes, Suivante
<1>4. QED  BY <1>2, <1>3
-----------------------------------------------------------------------------
(* What is under way on a channel is for the one who waits there, and      *)
(* there is one such message at most.  The channel of update is left out:  *)
(* its flag may be up from the start.                                      *)
Calmes == Canaux \ {"getTimeUpdate"}
Attendu(c) == \E i \in 1..Len(appels) : appels[i].attend = c
Unique(c) ==
    /\ requetes[c] # <<>> => Len(requetes[c]) = 1 /\ ~Repondue(c) /\ ~rep[c]
    /\ \A i \in 1..Len(entree) : entree[i].type = "reponse" /\ entree[i].canal = c =>
         /\ ~rep[c]
         /\ \A j \in 1..Len(entree) :
              entree[j].type = "reponse" /\ entree[j].canal = c => i = j
Vol(c) == Unique(c) /\ (EnVol(c) => Attendu(c))
InvVols == \A c \in Calmes : Vol(c)

(* Nothing was added, and the one who waits still does. *)
LEMMA VolGarde ==
    ASSUME InvTypes, NEW c, Vol(c), requetes'[c] = requetes[c], rep'[c] => rep[c],
           Attendu(c) => Attendu(c)', NEW d \in Int,
           \A i \in 1..Len(entree') : entree'[i].type = "reponse" /\ entree'[i].canal = c =>
               i + d \in 1..Len(entree) /\ entree'[i] = entree[i + d]
    PROVE  Vol(c)'
<1>1. Repondue(c)' => Repondue(c)
  BY DEF Repondue
<1>2. EnVol(c)' => EnVol(c)
  BY <1>1 DEF EnVol
<1>3. requetes'[c] # <<>> => Len(requetes'[c]) = 1 /\ ~Repondue(c)' /\ ~rep'[c]
  BY <1>1 DEF Vol, Unique
<1>4. ASSUME NEW i \in 1..Len(entree'), entree'[i].type = "reponse", entree'[i].canal = c
      PROVE  /\ ~rep'[c]
             /\ \A j \in 1..Len(entree') :
                  entree'[j].type = "reponse" /\ entree'[j].canal = c => i = j
  <2>1. i + d \in 1..Len(entree) /\ entree'[i] = entree[i + d]
    BY <1>4
  <2>2. ~rep'[c]
    BY <1>4, <2>1 DEF Vol, Unique
  <2>3. ASSUME NEW j \in 1..Len(entree'), entree'[j].type = "reponse", entree'[j].canal = c
        PROVE  i = j
    <3>1. j + d \in 1..Len(entree) /\ entree'[j] = entree[j + d]
      BY <2>3
    <3>2. i + d = j + d
      BY <1>4, <2>1, <2>3, <3>1 DEF Vol, Unique
    <3>3. QED  BY ONLY <3>2, d \in Int, i \in 1..Len(entree'), j \in 1..Len(entree')
  <2>4. QED  BY <2>2, <2>3
<1>5. Unique(c)'
  BY <1>3, <1>4 DEF Unique
<1>6. QED  BY <1>2, <1>5 DEF Vol

LEMMA VolVide ==
    ASSUME NEW c, requetes'[c] = <<>>, ~Repondue(c)', ~rep'[c]
    PROVE  Vol(c)'
BY DEF Vol, Unique, EnVol, Repondue

(* The step that goes on has taken its answer. *)
LEMMA VolConsomme ==
    ASSUME InvTypes, InvQuestions, NEW c \in Calmes, Vol(c), appels # <<>>, Courant.op # "lot",
           Consomme
    PROVE  requetes[c] = <<>> /\ ~Repondue(c) /\ ~rep'[c]
<1>1. /\ Courant = appels[1] /\ 1 \in 1..Len(appels) /\ Courant.attend \in Canaux \cup {""}
      /\ c \in Canaux /\ rep \in [Canaux -> BOOLEAN]
  BY Tete DEF InvTypes, TypesMemoire, Calmes
<1>2. CASE Courant.attend = c
  <2>1. c # ""
    BY DEF Calmes, Canaux
  <2>2. rep[c] /\ rep' = [rep EXCEPT ![c] = FALSE]
    BY <1>2, <2>1 DEF Consomme
  <2>3. requetes[c] = <<>> /\ ~Repondue(c)
    BY <2>2 DEF Vol, Unique, Repondue
  <2>4. QED  BY <1>1, <2>2, <2>3
<1>3. CASE Courant.attend # c
  <2>1. \A i \in 1..Len(appels) : appels[i].attend # c
    <3>1. \A i \in 1..Len(appels) : appels[i].attend # "" => i = 1
      BY <1>1 DEF InvQuestions, UneAttente
    <3>2. c # ""
      BY DEF Calmes, Canaux
    <3>3. QED  BY <1>1, <1>3, <3>1, <3>2
  <2>2. ~EnVol(c)
    BY <2>1 DEF Vol, Attendu
  <2>3. rep'[c] <=> rep[c]
    <3>1. CASE Courant.attend = ""
      BY <3>1 DEF Consomme
    <3>2. CASE Courant.attend # ""
      <4>1. rep' = [rep EXCEPT ![Courant.attend] = FALSE]
        BY <3>2 DEF Consomme
      <4>2. QED  BY <1>1, <1>3, <4>1
    <3>3. QED  BY <3>1, <3>2
  <2>4. QED  BY <2>2, <2>3 DEF EnVol
<1>4. QED  BY <1>2, <1>3

(* It asks the only question of its channel. *)
LEMMA UneDemande ==
    ASSUME InvTypes, NEW c \in Canaux, requetes[c] = <<>>, NEW q \in RequeteType,
           requetes' = [requetes EXCEPT ![c] = Append(@, q)]
    PROVE  requetes'[c] # <<>> /\ Len(requetes'[c]) = 1 /\ requetes'[c][1] = q
<1> DEFINE s == requetes[c]
           t == requetes'[c]
<1>1. requetes \in [Canaux -> Seq(RequeteType)]
  BY DEF InvTypes, TypesFiles
<1>2. s \in Seq(RequeteType) /\ t = Append(s, q) /\ s = <<>>
  BY <1>1
<1> HIDE DEF s, t
<1>3. Len(s) = 0
  BY ONLY <1>2
<1>4. Len(t) = 1 /\ t[1] = q
  BY <1>2, <1>3
<1>5. t # <<>>
  BY <1>4
<1>6. QED  BY <1>4, <1>5 DEF t

LEMMA VolPoursuit ==
    ASSUME InvTypes, InvQuestions, NEW c \in Calmes, Vol(c), Poursuit(Suivante)
    PROVE  /\ Vol(c)'
           /\ requetes[c] = <<>> /\ ~Repondue(c) /\ ~Repondue(c)' /\ ~rep'[c]
           /\ Suivante.attend # c => requetes'[c] = <<>>
<1>1. requetes[c] = <<>> /\ ~Repondue(c) /\ ~rep'[c] /\ c \in Canaux
  BY VolConsomme DEF Poursuit, Calmes
<1>2. entree' = entree /\ Interroge(Suivante)
  BY DEF Poursuit
<1>3. ~Repondue(c)'
  BY <1>1, <1>2 DEF Repondue
<1>4. requetes \in [Canaux -> Seq(RequeteType)]
  BY DEF InvTypes, TypesFiles
<1>5. CASE Suivante.attend # c
  <2>1. requetes'[c] = <<>>
    BY <1>1, <1>2, <1>4, <1>5 DEF Interroge
  <2>2. QED  BY <1>1, <1>3, <2>1, VolVide
<1>6. CASE Suivante.attend = c
  <2>1. PICK q \in RequeteType : requetes' = [requetes EXCEPT ![c] = Append(@, q)]
    BY <1>1, <1>2, <1>6 DEF Interroge, Canaux
  <2>2. requetes'[c] # <<>> /\ Len(requetes'[c]) = 1
    BY <1>1, <2>1, UneDemande
  <2>3. 1 \in 1..Len(appels')
    BY PilePoursuit DEF InvTypes
  <2>4. Attendu(c)'
    BY <1>6, <2>3 DEF Attendu, Suivante
  <2>5. Unique(c)'
    BY <1>1, <1>3, <2>2 DEF Unique, Repondue
  <2>6. QED  BY <1>1, <1>3, <1>6, <2>4, <2>5 DEF Vol
<1>7. QED  BY <1>5, <1>6

LEMMA VolTermine ==
    ASSUME InvTypes, InvQuestions, NEW c \in Calmes, Vol(c), Termine
    PROVE  /\ Vol(c)'
           /\ requetes[c] = <<>> /\ ~Repondue(c) /\ ~rep'[c]
<1>1. requetes[c] = <<>> /\ ~Repondue(c) /\ ~rep'[c]
  BY VolConsomme DEF Termine
<1>2. requetes' = requetes /\ entree' = entree
  BY DEF Termine
<1>3. ~Repondue(c)'
  BY <1>1, <1>2 DEF Repondue
<1>4. QED  BY <1>1, <1>2, <1>3, VolVide

LEMMA VolHeure ==
    ASSUME InvTypes, InvQuestions, NEW c \in Calmes, Vol(c), UpdateHeure
    PROVE  Vol(c)' /\ requetes[c] = <<>> /\ ~Repondue(c) /\ ~rep'[c]
<1>1. /\ appels # <<>> /\ Courant.op = "update" /\ Consomme /\ UNCHANGED varsTopics
  BY UpdateHeureSuite DEF InvTypes
<1>2. requetes[c] = <<>> /\ ~Repondue(c) /\ ~rep'[c]
  BY <1>1, VolConsomme
<1>3. requetes' = requetes /\ ~Repondue(c)'
  BY <1>1, <1>2 DEF varsTopics, Repondue
<1>4. QED  BY <1>2, <1>3, VolVide

LEMMA VolLots ==
    ASSUME InvTypes, InvTypes', InvEtapes, NEW c \in Calmes, Vol(c), PrendLot \/ FinLot
    PROVE  Vol(c)'
<1>1. requetes' = requetes /\ entree' = entree /\ rep' = rep
  BY DEF PrendLot, FinLot, varsTopics
<1>2. Attendu(c) => Attendu(c)'
  <2> SUFFICES ASSUME NEW i \in 1..Len(appels), appels[i].attend = c
               PROVE  \E k \in 1..Len(appels') : appels'[k].attend = c
    BY DEF Attendu
  <2>1. CASE PrendLot
    <3>1. /\ Len(appels) \in Nat /\ Len(appels') = Len(appels) + 1
          /\ appels'[i + 1] = appels[i]
      BY <2>1, LotPose
    <3>2. i + 1 \in 1..Len(appels')
      BY <3>1
    <3>3. QED  BY <3>1, <3>2
  <2>2. CASE FinLot
    <3>1. /\ appels # <<>> /\ appels[1].op = "lot"
          /\ Len(appels') = Len(appels) - 1 /\ Len(appels) \in Nat
          /\ \A k \in 1..Len(appels') : appels'[k] = appels[k + 1]
      BY <2>2, FinLotSuite DEF InvTypes
    <3>2. appels[1].attend = "" /\ c # ""
      BY <3>1, Tete DEF InvTypes, EtapeJuste, Calmes, Canaux
    <3>3. i # 1
      BY <3>2
    <3>4. i - 1 \in 1..Len(appels') /\ (i - 1) + 1 = i
      BY <3>1, <3>3
    <3>5. appels'[i - 1] = appels[i]
      BY <3>1, <3>4
    <3>6. QED  BY <3>4, <3>5
  <2>3. QED  BY <2>1, <2>2
<1>3. \A i \in 1..Len(entree') : i + 0 \in 1..Len(entree) /\ entree'[i] = entree[i + 0]
  BY <1>1
<1>4. QED  BY <1>1, <1>2, <1>3, VolGarde, 0 \in Int

LEMMA VolReponse ==
    ASSUME InvTypes, NEW c \in Calmes, Vol(c), CallbackReponse
    PROVE  Vol(c)'
<1> DEFINE m == Head(entree)
<1>1. /\ appels' = appels /\ lot > 0 /\ m.type = "reponse" /\ m \in ReponseType
      /\ rep' = [rep EXCEPT ![m.canal] = TRUE]
      /\ entree' = Tail(entree) /\ requetes' = requetes
  BY CallbackReponseSuite DEF InvTypes
<1>2. /\ m = entree[1] /\ 1 \in 1..Len(entree) /\ Len(entree) \in Nat
      /\ \A i \in 1..Len(entree') : i + 1 \in 1..Len(entree) /\ entree'[i] = entree[i + 1]
  BY <1>1, EntreeLue DEF InvTypes
<1> HIDE DEF m
<1>3. m.canal \in Canaux /\ rep \in [Canaux -> BOOLEAN] /\ c \in Canaux
  BY <1>1 DEF ReponseType, InvTypes, TypesMemoire, Calmes
<1>4. Attendu(c) => Attendu(c)'
  BY <1>1 DEF Attendu
<1>5. CASE m.canal # c
  <2>1. rep'[c] => rep[c]
    BY <1>1, <1>3, <1>5
  <2>2. QED  BY <1>1, <1>2, <1>4, <2>1, VolGarde, 1 \in Int
<1>6. CASE m.canal = c
  <2>1. /\ requetes[c] = <<>> /\ EnVol(c)
        /\ \A j \in 1..Len(entree) :
             entree[j].type = "reponse" /\ entree[j].canal = c => 1 = j
    BY <1>1, <1>2, <1>6 DEF Vol, Unique, EnVol, Repondue
  <2>2. \A i \in 1..Len(entree') : i + 1 # 1
    OBVIOUS
  <2>3. \A i \in 1..Len(entree') : ~(entree'[i].type = "reponse" /\ entree'[i].canal = c)
    BY <1>2, <2>1, <2>2
  <2>4. Unique(c)'
    BY <1>1, <2>1, <2>3 DEF Unique
  <2>5. QED  BY <1>4, <2>1, <2>4 DEF Vol
<1>7. QED  BY <1>5, <1>6

LEMMA VolOrdre ==
    ASSUME InvTypes, NEW c \in Calmes, Vol(c), CallbackOrdre
    PROVE  Vol(c)'
<1> DEFINE s == Callback(Head(entree))
<1>1. /\ lot > 0 /\ entree' = Tail(entree) /\ requetes' = requetes /\ rep' = rep
      /\ appels' = s \o appels /\ s \in Seq(EtapeType)
  BY CallbackOrdreSuite DEF InvTypes, EtapesDOrdre
<1> HIDE DEF s
<1>2. \A i \in 1..Len(entree') : i + 1 \in 1..Len(entree) /\ entree'[i] = entree[i + 1]
  BY <1>1, EntreeLue DEF InvTypes
<1>3. Attendu(c) => Attendu(c)'
  <2> SUFFICES ASSUME NEW i \in 1..Len(appels), appels[i].attend = c
               PROVE  \E k \in 1..Len(appels') : appels'[k].attend = c
    BY DEF Attendu
  <2>1. appels \in Seq(EtapeType)
    BY DEF InvTypes, TypesFiles
  <2>2. s \in Seq(EtapeType) /\ appels' = s \o appels
    BY <1>1
  <2>3. /\ Len(appels') = Len(s) + Len(appels) /\ Len(appels) \in Nat /\ Len(s) \in Nat
        /\ appels'[i + Len(s)] = appels[i]
    BY ONLY <2>1, <2>2, PileChargee, i \in 1..Len(appels), SMTT(20)
  <2>4. i + Len(s) \in 1..Len(appels')
    BY <2>3
  <2>5. QED  BY <2>3, <2>4
<1>4. QED  BY <1>1, <1>2, <1>3, VolGarde, 1 \in Int

LEMMA VolUpdate ==
    ASSUME InvTypes, NEW c \in Calmes, Vol(c), Update
    PROVE  Vol(c)' /\ requetes'[c] = requetes[c]
<1>1. /\ appels = <<>> /\ appels'[1].attend = "getTimeUpdate" /\ Interroge(appels'[1])
      /\ UNCHANGED <<entree, rep>>
  BY UpdateSuite DEF InvTypes
<1>2. c # "getTimeUpdate" /\ c \in Canaux /\ requetes \in [Canaux -> Seq(RequeteType)]
  BY DEF Calmes, InvTypes, TypesFiles
<1>3. requetes'[c] = requetes[c]
  BY <1>1, <1>2 DEF Interroge
<1>4. ~Attendu(c)
  <2>1. Len(appels) = 0
    <3>1. appels = <<>>
      BY <1>1
    <3>2. QED  BY ONLY <3>1
  <2>2. QED  BY <2>1 DEF Attendu
<1>5. \A i \in 1..Len(entree') : i + 0 \in 1..Len(entree) /\ entree'[i] = entree[i + 0]
  BY <1>1
<1>6. QED  BY <1>1, <1>3, <1>4, <1>5, VolGarde, 0 \in Int

(* The other side of the topics. *)
LEMMA VolScene ==
    ASSUME InvTypes, NEW c \in Calmes, Vol(c), NEW d \in Canaux, Scene(d)
    PROVE  /\ Vol(c)'
           /\ d # c => requetes'[c] = requetes[c]
           /\ d = c => requetes'[c] = <<>> /\ ~Repondue(c) /\ ~rep[c]
<1> DEFINE r == Reponse(d, requetes[d][1])
<1>1. /\ requetes[d] # <<>> /\ requetes[d] \in Seq(RequeteType) /\ r.canal = d
      /\ entree' = Append(entree, r)
      /\ requetes' = [requetes EXCEPT ![d] = Tail(@)]
      /\ UNCHANGED varsRobot
  BY TypesReponse
<1> HIDE DEF r
<1>2. rep' = rep /\ (Attendu(c) => Attendu(c)')
  BY <1>1 DEF varsRobot, Attendu
<1>3. /\ entree'[Len(entree) + 1] = r
      /\ \A i \in 1..Len(entree) : i \in 1..Len(entree') /\ entree'[i] = entree[i]
      /\ \A i \in 1..Len(entree') : i \in 1..Len(entree) \/ i = Len(entree) + 1
  BY <1>1, EntreeAjoutee
<1>4. c \in Canaux /\ requetes \in [Canaux -> Seq(RequeteType)]
  BY DEF Calmes, InvTypes, TypesFiles
<1>5. CASE d # c
  <2>1. requetes'[c] = requetes[c]
    BY <1>1, <1>4, <1>5
  <2>2. \A i \in 1..Len(entree') : entree'[i].type = "reponse" /\ entree'[i].canal = c =>
          i + 0 \in 1..Len(entree) /\ entree'[i] = entree[i + 0]
    BY <1>1, <1>3, <1>5
  <2>3. QED  BY <1>2, <1>5, <2>1, <2>2, VolGarde, 0 \in Int
<1>6. CASE d = c
  <2>1. Len(requetes[c]) = 1 /\ ~Repondue(c) /\ ~rep[c] /\ EnVol(c)
    BY <1>1, <1>6 DEF Vol, Unique, EnVol
  <2>2. requetes'[c] = <<>>
    <3> DEFINE s == requetes[c]
               t == requetes'[c]
    <3>1. s \in Seq(RequeteType) /\ Len(s) = 1 /\ t = Tail(s)
      BY <1>1, <1>4, <1>6, <2>1
    <3> HIDE DEF s, t
    <3>2. t \in Seq(RequeteType) /\ Len(t) = 0
      BY ONLY <3>1
    <3>3. t = <<>>
      BY <3>2, EmptySeq
    <3>4. QED  BY <3>3 DEF t
  <2>3. \A i \in 1..Len(entree') : entree'[i].type = "reponse" /\ entree'[i].canal = c
          => i = Len(entree) + 1
    BY <1>3, <2>1 DEF Repondue
  <2>4. Unique(c)'
    BY <1>2, <2>1, <2>2, <2>3 DEF Unique
  <2>5. QED  BY <1>2, <1>6, <2>1, <2>2, <2>4 DEF Vol
<1>7. QED  BY <1>5, <1>6

LEMMA VolAilleurs ==
    ASSUME InvTypes, NEW c \in Calmes, Vol(c), UNCHANGED <<appels, requetes, rep>>,
           entree' = entree \/ \E m : m.type = "ordre" /\ entree' = Append(entree, m)
    PROVE  Vol(c)'
<1>1. \A i \in 1..Len(entree') :
        entree'[i].type = "reponse" => i + 0 \in 1..Len(entree) /\ entree'[i] = entree[i + 0]
  <2>1. CASE entree' = entree
    BY <2>1
  <2>2. CASE \E m : m.type = "ordre" /\ entree' = Append(entree, m)
    BY <2>2, EntreeAjoutee
  <2>3. QED  BY <2>1, <2>2
<1>2. Attendu(c) => Attendu(c)'
  BY DEF Attendu
<1>3. QED  BY <1>1, <1>2, VolGarde, 0 \in Int

LEMMA VolsPas ==
    ASSUME InvTypes, InvTypes', InvTravail, InvQuestions, InvVols, [Next]_vars
    PROVE  InvVols'
<1> SUFFICES ASSUME NEW c \in Calmes PROVE Vol(c)'
  BY DEF InvVols
<1>1. Vol(c)
  BY DEF InvVols
<1>2. CASE Robot
  <2>1. CASE \/ EnvoyerRobot \/ EnvoyerJoints \/ DescendreBras \/ MonterBras \/ AutreSuite
    BY <1>1, <2>1, SuitePoursuit, VolPoursuit
  <2>2. CASE Fin
    BY <1>1, <2>2, Fins, VolTermine
  <2>3. CASE Update \/ UpdateHeure
    BY <1>1, <2>3, VolUpdate, VolHeure
  <2>4. CASE SpinPrincipal \/ SpinOnce \/ FinLot
    BY <1>1, <2>4, VolLots DEF SpinPrincipal, SpinOnce, InvTravail
  <2>5. CASE CallbackReponse \/ CallbackOrdre
    BY <1>1, <2>5, VolReponse, VolOrdre
  <2>6. RobotNext
    BY <1>2 DEF Robot
  <2>7. QED  BY <2>1, <2>2, <2>3, <2>4, <2>5, <2>6, SortesDePas
<1>3. CASE \E d \in Canaux : Scene(d)
  BY <1>1, <1>3, VolScene
<1>4. CASE \E m \in UNION Programmes : DonneOrdre(m)
  <2>1. PICK m \in UNION Programmes : DonneOrdre(m)
    BY <1>4
  <2>2. m.type = "ordre" /\ entree' = Append(entree, m) /\ UNCHANGED <<requetes, varsRobot>>
    BY <2>1, TypesDonneOrdre
  <2>3. QED  BY <1>1, <2>2, VolAilleurs DEF varsRobot
<1>5. CASE UNCHANGED vars
  BY <1>1, <1>5, VolAilleurs DEF vars, varsRobot, varsMonde, varsTopics
<1>6. CASE \E k \in Genres : Constate(k)
  BY <1>1, <1>6, VolAilleurs DEF Constate, varsRobot, varsMonde, varsTopics
<1>7. CASE Retour
  BY <1>1, <1>7, VolAilleurs DEF Retour, RetourRobotCallback, varsRobot
<1>8. CASE Bras
  BY <1>1, <1>8, VolAilleurs DEF Bras, BrasBouge, varsRobot, varsTopics
<1>9. CASE \E p \in PositionsNavette : Navette(p)
  BY <1>1, <1>9, VolAilleurs DEF Navette, NavetteBouge, varsRobot, varsTopics
<1>10. QED  BY <1>2, <1>3, <1>4, <1>5, <1>6, <1>7, <1>8, <1>9 DEF Next
-----------------------------------------------------------------------------
(* The steps an order begins with.                                         *)
Neuves == Departs \cup {"pince", "retour", "prise", "pose", "tache", "evacuer", "stopTache"}

(* What the r-th step from the end of a DeplacerPiece is, before it began. *)
Intacte(A, B, r, o, p) ==
    \/ r = 11 /\ o = "envoyer" /\ p = A
    \/ r = 10 /\ o = "descendre"
    \/ r = 9 /\ o = "prise" /\ p = A
    \/ r = 8 /\ o = "pince"
    \/ r = 7 /\ o = "monter"
    \/ r = 6 /\ o = "envoyer" /\ p = B
    \/ r = 5 /\ o = "descendre"
    \/ r = 4 /\ o = "pose" /\ p = B
    \/ r = 3 /\ o = "pince"
    \/ r = 2 /\ o = "monter"
    \/ r = 1 /\ o = "retour"

LEMMA EtapeLue ==
    ASSUME NEW o \in Ops, NEW p \in 0..4, NEW a \in 0..10
    PROVE  Etape(o, p, a).op = o /\ Etape(o, p, a).pos = p
<1>1. Fiche(Etape(o, p, a), o, p, a, "", <<>>, "")
  BY Nouvelle
<1>2. QED  BY <1>1 DEF Fiche

LEMMA DeplacerPasAPas ==
    ASSUME NEW A \in Positions, NEW B \in Positions
    PROVE  /\ Len(DeplacerPiece(A, B)) = 11
           /\ \A k \in 1..11 : Intacte(A, B, 12 - k, DeplacerPiece(A, B)[k].op,
                                       DeplacerPiece(A, B)[k].pos)
<1> DEFINE e1 == Etape("envoyer", A, 0)
           e2 == Etape("descendre", 0, 0)
           e3 == Etape("prise", A, 0)
           e4 == Etape("pince", 0, 6)
           e5 == Etape("monter", 0, 0)
           e6 == Etape("envoyer", B, 0)
           e7 == Etape("pose", B, 0)
           e8 == Etape("pince", 0, 7)
           e9 == Etape("retour", 0, 10)
           s == DeplacerPiece(A, B)
<1>1. A \in 0..4 /\ B \in 0..4
  BY DEF Positions, PositionsPoste, PositionsNavette
<1>2. {"envoyer", "descendre", "prise", "pince", "monter", "pose", "retour"} \subseteq Ops
  BY DEF Ops
<1>3. /\ e1.op = "envoyer" /\ e1.pos = A /\ e2.op = "descendre"
      /\ e3.op = "prise" /\ e3.pos = A /\ e4.op = "pince" /\ e5.op = "monter"
      /\ e6.op = "envoyer" /\ e6.pos = B /\ e7.op = "pose" /\ e7.pos = B
      /\ e8.op = "pince" /\ e9.op = "retour"
  <2>1. \A o \in {"envoyer", "descendre", "prise", "pince", "monter", "pose", "retour"} :
          \A p \in {A, B, 0} : \A a \in {0, 6, 7, 10} :
            Etape(o, p, a).op = o /\ Etape(o, p, a).pos = p
    <3>1. TAKE o \in {"envoyer", "descendre", "prise", "pince", "monter", "pose", "retour"}
    <3>2. TAKE p \in {A, B, 0}
    <3>3. TAKE a \in {0, 6, 7, 10}
    <3>4. o \in Ops
      BY <1>2
    <3>5. p \in 0..4 /\ a \in 0..10
      BY <1>1
    <3>6. QED  BY <3>4, <3>5, EtapeLue
  <2>2. QED  BY <2>1
<1>4. s = <<e1, e2, e3, e4, e5, e6, e2, e7, e8, e5, e9>>
  BY DEF DeplacerPiece
<1> HIDE DEF e1, e2, e3, e4, e5, e6, e7, e8, e9, s
<1>5. Len(s) = 11
  BY <1>4
<1>6. /\ s[1] = e1 /\ s[2] = e2 /\ s[3] = e3 /\ s[4] = e4 /\ s[5] = e5 /\ s[6] = e6
      /\ s[7] = e2 /\ s[8] = e7 /\ s[9] = e8 /\ s[10] = e5 /\ s[11] = e9
  BY <1>4
<1>7. \A k \in 1..11 : Intacte(A, B, 12 - k, s[k].op, s[k].pos)
  BY <1>3, <1>6 DEF Intacte
<1>8. QED  BY <1>5, <1>7 DEF s

LEMMA CallbackNeuf ==
    ASSUME NEW m \in OrdresPossibles
    PROVE  \A i \in 1..Len(Callback(m)) : Callback(m)[i].op \in Neuves
<1>1. /\ m.ordre \in {"position", "joints", "controler", "descendre", "monter", "fermer",
                      "ouvrir", "deplacer", "tache", "evacuer", "stopTache"}
      /\ m.posA \in 0..4
      /\ m.ordre = "deplacer" => m.posA \in Positions /\ m.posB \in Positions
  BY DEF OrdresPossibles
<1>2. Neuves \subseteq Ops
  BY DEF Neuves, Departs, Ops
<1>3. ASSUME NEW o \in Neuves, NEW p \in 0..4, NEW a \in 0..10, Callback(m) = <<Etape(o, p, a)>>
      PROVE  \A i \in 1..Len(Callback(m)) : Callback(m)[i].op \in Neuves
  <2> DEFINE e == Etape(o, p, a)
             s == Callback(m)
  <2>1. e.op = o
    BY <1>2, EtapeLue
  <2>2. s = <<e>>
    BY <1>3
  <2> HIDE DEF e, s
  <2>3. \A i \in 1..Len(s) : s[i] = e
    BY <2>2
  <2>4. QED  BY <2>1, <2>3 DEF s
<1>4. CASE m.ordre = "deplacer"
  <2>1. Callback(m) = DeplacerPiece(m.posA, m.posB)
    BY <1>4 DEF Callback
  <2>2. /\ Len(Callback(m)) = 11
        /\ \A k \in 1..11 : Intacte(m.posA, m.posB, 12 - k, Callback(m)[k].op, Callback(m)[k].pos)
    BY <1>1, <1>4, <2>1, DeplacerPasAPas
  <2>3. QED  BY <2>2 DEF Intacte, Neuves, Departs
<1>5. CASE m.ordre = "controler"
  <2> DEFINE e1 == Etape("envoyer", m.posA, 0)
             e2 == Etape(IF m.bras = -1 THEN "descendre" ELSE "monter", 0, 0)
             e3 == Etape("pince", 0, IF m.serre = -1 THEN 7 ELSE 6)
             s == Callback(m)
  <2>1. {"envoyer", "descendre", "monter", "pince"} \subseteq Ops \cap Neuves
    BY DEF Neuves, Departs, Ops
  <2>2. e1.op \in Neuves
    BY <1>1, <2>1, EtapeLue
  <2>3. e2.op \in Neuves
    <3>1. (IF m.bras = -1 THEN "descendre" ELSE "monter") \in Ops \cap Neuves
      BY <2>1
    <3>2. QED  BY <3>1, EtapeLue
  <2>4. e3.op \in Neuves
    <3>1. (IF m.serre = -1 THEN 7 ELSE 6) \in 0..10
      OBVIOUS
    <3>2. QED  BY <2>1, <3>1, EtapeLue
  <2>5. s = <<e1, e2, e3>>
    BY <1>5 DEF Callback, ControlerRobot
  <2> HIDE DEF e1, e2, e3, s
  <2>6. Len(s) = 3 /\ s[1] = e1 /\ s[2] = e2 /\ s[3] = e3
    BY <2>5
  <2>7. \A i \in 1..Len(s) : i = 1 \/ i = 2 \/ i = 3
    BY <2>6
  <2>8. QED  BY <2>2, <2>3, <2>4, <2>6, <2>7 DEF s
<1>6. CASE m.ordre \in {"position", "joints", "descendre", "monter"}
  <2>1. \E o \in Departs, p \in 0..4 : Callback(m) = <<Etape(o, p, 0)>>
    <3>1. CASE m.ordre = "position"
      BY <1>1, <3>1 DEF Callback, Departs
    <3>2. CASE m.ordre = "joints"
      BY <3>2 DEF Callback, Departs
    <3>3. CASE m.ordre = "descendre"
      BY <3>3 DEF Callback, Departs
    <3>4. CASE m.ordre = "monter"
      BY <3>4 DEF Callback, Departs
    <3>5. QED  BY <1>6, <3>1, <3>2, <3>3, <3>4
  <2>2. QED  BY <1>3, <2>1 DEF Neuves
<1>7. CASE m.ordre \in {"fermer", "ouvrir"}
  <2>1. PICK a \in {6, 7} : Callback(m) = <<Etape("pince", 0, a)>>
    BY <1>7 DEF Callback
  <2>2. QED  BY <1>3, <2>1 DEF Neuves
<1>8. CASE m.ordre \in {"tache", "stopTache", "evacuer"}
  <2>1. \/ \E o \in {"tache", "stopTache", "evacuer"}, p \in 0..4 :
             Callback(m) = <<Etape(o, p, 0)>>
        \/ Callback(m) = <<>>
    BY <1>1, <1>8 DEF Callback
  <2>2. CASE Callback(m) = <<>>
    <3> DEFINE s == Callback(m)
    <3>1. s = <<>>
      BY <2>2
    <3> HIDE DEF s
    <3>2. Len(s) = 0
      BY ONLY <3>1
    <3>3. QED  BY <3>2 DEF s
  <2>3. QED  BY <1>3, <2>1, <2>2 DEF Neuves
<1>9. QED  BY <1>1, <1>4, <1>5, <1>6, <1>7, <1>8

(* The stack when the callback of an order begins. *)
LEMMA PileOrdre ==
    ASSUME InvTypes, CallbackOrdre
    PROVE  LET s == Callback(Head(entree)) IN
           /\ s \in Seq(EtapeType) /\ Len(s) \in Nat
           /\ Len(appels') = Len(s) + Len(appels) /\ Len(appels) \in Nat
           /\ \A i \in 1..Len(s) : /\ appels'[i] = s[i] /\ s[i].op \in Neuves
                                   /\ s[i].attend = ""
           /\ \A i \in 1..Len(appels') :
                \/ i \in 1..Len(s)
                \/ \E j \in 1..Len(appels) : i = j + Len(s) /\ appels'[i] = appels[j]
<1> DEFINE s == Callback(Head(entree))
<1>1. /\ appels' = s \o appels /\ EtapesDOrdre(Genre(Head(entree)), s)
      /\ \A i \in 1..Len(s) : s[i].op \in Neuves
  BY CallbackOrdreSuite, CallbackNeuf DEF InvTypes
<1> HIDE DEF s
<1>2. s \in Seq(EtapeType)
  BY <1>1 DEF EtapesDOrdre
<1>3. appels \in Seq(EtapeType)
  BY DEF InvTypes, TypesFiles
<1>4. appels' = s \o appels
  BY <1>1
<1>5. /\ Len(appels') = Len(s) + Len(appels) /\ Len(appels) \in Nat /\ Len(s) \in Nat
      /\ \A i \in 1..Len(s) : appels'[i] = s[i]
      /\ \A i \in 1..Len(appels') :
           \/ i \in 1..Len(s)
           \/ \E j \in 1..Len(appels) : i = j + Len(s) /\ appels'[i] = appels[j]
  <2>1. /\ Len(appels') = Len(s) + Len(appels) /\ Len(appels) \in Nat /\ Len(s) \in Nat
        /\ \A i \in 1..Len(s) : appels'[i] = s[i]
    BY ONLY <1>2, <1>3, <1>4, PileChargee, SMTT(20)
  <2>2. \A i \in 1..Len(appels') :
           \/ i \in 1..Len(s) /\ appels'[i] = s[i]
           \/ \E j \in 1..Len(appels) : i = j + Len(s) /\ appels'[i] = appels[j]
    BY ONLY <1>2, <1>3, <1>4, PileChargee, SMTT(20)
  <2>3. QED  BY <2>1, <2>2
<1>6. \A i \in 1..Len(s) : s[i].attend = ""
  BY <1>1 DEF EtapesDOrdre, EtapeDOrdre
<1>7. QED  BY <1>1, <1>2, <1>5, <1>6 DEF s

LEMMA AttentesRobot ==
    ASSUME InvTypes, InvTypes', InvTravail, InvAttentes, Robot
    PROVE  InvAttentes'
<1> SUFFICES ASSUME NEW i \in 1..Len(appels') PROVE AttenteJuste(appels'[i])
  BY DEF InvAttentes, AttenteJuste, Peintures
<1>1. RobotNext
  BY DEF Robot
<1>2. \A e : e.attend \in {"", "getTimeUpdate"} /\ e.op \in Neuves \cup {"lot", "verifier", "update"}
        => AttenteJuste(e)
  BY DEF AttenteJuste, Neuves, Departs, Peintures
<1>3. appels # <<>> => AttenteJuste(Courant)
  BY Tete DEF InvTypes, InvAttentes
<1>4. ASSUME Poursuit(Suivante), AttenteJuste(Suivante)
      PROVE  AttenteJuste(appels'[i])
  <2>1. /\ Len(appels') = Len(appels)
        /\ \A k \in 2..Len(appels) : appels'[k] = appels[k] /\ k \in 1..Len(appels)
    BY <1>4, PilePoursuit DEF InvTypes
  <2>2. i = 1 \/ i \in 2..Len(appels)
    BY <2>1
  <2>3. QED  BY <1>4, <2>1, <2>2 DEF InvAttentes, Suivante
<1>5. CASE EnvoyerRobot \/ EnvoyerJoints \/ DescendreBras \/ MonterBras
  <2>1. Suivante.op = "consigne" /\ Suivante.attend = "setJointState"
    BY <1>5, EffetsRpos
  <2>2. AttenteJuste(Suivante)
    BY <2>1 DEF AttenteJuste, Peintures
  <2>3. QED  BY <1>4, <1>5, <2>2, SuitePoursuit
<1>6. CASE AutreSuite
  <2>1. Poursuit(Suivante)
    BY <1>6, SuitePoursuit
  <2>2. AttenteJuste(Suivante)
    BY <1>3, <1>6, <2>1, Suites DEF Poursuit
  <2>3. QED  BY <1>4, <2>1, <2>2
<1>7. CASE Fin
  <2>1. i + 1 \in 1..Len(appels) /\ appels'[i] = appels[i + 1]
    BY <1>7, Fins, PileTermine DEF InvTypes
  <2>2. QED  BY <2>1 DEF InvAttentes
<1>8. CASE SpinPrincipal \/ SpinOnce
  <2>1. /\ appels'[1].op = "lot" /\ appels'[1].attend = ""
        /\ i = 1 \/ \E j \in 1..Len(appels) : i = j + 1 /\ appels'[i] = appels[j]
    BY <1>8, LotPose DEF SpinPrincipal, SpinOnce, InvTravail
  <2>2. QED  BY <1>2, <2>1 DEF InvAttentes
<1>9. CASE FinLot
  <2>1. i + 1 \in 1..Len(appels) /\ appels'[i] = appels[i + 1]
    BY <1>9, FinLotSuite DEF InvTypes
  <2>2. QED  BY <2>1 DEF InvAttentes
<1>10. CASE CallbackReponse
  BY <1>10, CallbackReponseSuite DEF InvTypes, InvAttentes
<1>11. CASE CallbackOrdre
  <2>1. \/ appels'[i].op \in Neuves /\ appels'[i].attend = ""
        \/ \E j \in 1..Len(appels) : appels'[i] = appels[j]
    BY <1>11, PileOrdre
  <2>2. QED  BY <1>2, <2>1 DEF InvAttentes
<1>12. CASE Update
  <2>1. appels'[i].op = "update" /\ appels'[i].attend = "getTimeUpdate"
    <3>1. /\ Len(appels') = 1 /\ appels'[1].op = "update"
          /\ appels'[1].attend = "getTimeUpdate"
      BY <1>12, UpdateSuite DEF InvTypes
    <3>2. QED  BY <3>1
  <2>2. QED  BY <1>2, <2>1
<1>13. CASE UpdateHeure
  <2>1. \/ appels'[i].op = "verifier" /\ appels'[i].attend = ""
        \/ \E j \in 2..Len(appels) : appels'[i] = appels[j]
    BY <1>13, UpdateHeureSuite DEF InvTypes
  <2>2. \A j \in 2..Len(appels) : j \in 1..Len(appels)
    OBVIOUS
  <2>3. QED  BY <1>2, <2>1, <2>2 DEF InvAttentes
<1>14. QED
  BY <1>1, <1>5, <1>6, <1>7, <1>8, <1>9, <1>10, <1>11, <1>12, <1>13, SortesDePas
-----------------------------------------------------------------------------
(* The arm goes where it was last asked to; the answer that says it is     *)
(* there is true; and it is there when no step is moving it.               *)
ConsigneSuivie ==
    IF requetes["setJointState"] = <<>> THEN consigne = Rpos
    ELSE requetes["setJointState"][1].pose = Rpos
SondeSuivie ==
    /\ \A j \in 1..Len(entree) :
         entree[j].type = "reponse" /\ entree[j].canal = "getJointState" /\ entree[j].pose = Rpos
           => pose = Rpos
    /\ rep["getJointState"] /\ valeur.pose = Rpos => pose = Rpos
Immobile == \A i \in 1..Len(appels) : ~Mobile(appels[i])
BrasArrive == Immobile => pose = Rpos
InvBras == ConsigneSuivie /\ SondeSuivie /\ BrasArrive

LEMMA CanauxDuBras ==
    /\ {"setJointState", "getJointState"} \subseteq Calmes
    /\ {"setJointState", "getJointState"} \subseteq Canaux
    /\ {"getColor", "changeColor", "changeShuttleColor"} \subseteq Calmes
BY DEF Calmes, Canaux

LEMMA SondeVide ==
    ASSUME ~Repondue("getJointState")', ~rep'["getJointState"]
    PROVE  SondeSuivie'
BY DEF SondeSuivie, Repondue

LEMMA BrasRpos ==
    ASSUME InvTypes, InvTravail, InvQuestions, InvVols, consigne' = consigne, pose' = pose,
           EnvoyerRobot \/ EnvoyerJoints \/ DescendreBras \/ MonterBras
    PROVE  InvBras'
<1>1. Poursuit(Suivante) /\ Suivante.op = "consigne" /\ Suivante.attend = "setJointState"
  BY SuitePoursuit, EffetsRpos
<1>2. PICK q \in RequeteType :
        /\ q.pose = Rpos'
        /\ requetes' = [requetes EXCEPT !["setJointState"] = Append(@, q)]
  BY EffetsRpos
<1>3. requetes["setJointState"] = <<>>
  BY <1>1, VolPoursuit, CanauxDuBras DEF InvVols
<1>4. requetes'["setJointState"] # <<>> /\ requetes'["setJointState"][1] = q
  BY <1>2, <1>3, UneDemande, CanauxDuBras
<1>5. ConsigneSuivie'
  BY <1>2, <1>4 DEF ConsigneSuivie
<1>6. SondeSuivie'
  BY <1>1, VolPoursuit, CanauxDuBras, SondeVide DEF InvVols
<1>7. BrasArrive'
  <2>1. 1 \in 1..Len(appels')
    BY <1>1, PilePoursuit DEF InvTypes
  <2>2. QED  BY <1>1, <2>1 DEF BrasArrive, Immobile, Mobile, Suivante
<1>8. QED  BY <1>5, <1>6, <1>7 DEF InvBras

LEMMA BrasSuite ==
    ASSUME InvTypes, InvTypes', InvTravail, InvQuestions, InvVols, InvAttentes, InvBras,
           consigne' = consigne, pose' = pose, AutreSuite
    PROVE  InvBras'
<1>1. Poursuit(Suivante)
  BY SuitePoursuit
<1>2. Courant = appels[1] /\ 1 \in 1..Len(appels) /\ AttenteJuste(Courant)
  BY <1>1, Tete DEF InvTypes, InvAttentes, Poursuit
<1>3. /\ Rpos' = Rpos /\ AttenteJuste(Suivante)
      /\ ConsigneRecue \/ (Mobile(Courant) => Suivante = Courant)
      /\ Suivante.op # "consigne"
  BY <1>2, Suites DEF Garde
<1>4. requetes["setJointState"] = <<>> /\ requetes'["setJointState"] = <<>>
  <2>1. Suivante.attend # "setJointState"
    BY <1>3 DEF AttenteJuste
  <2>2. QED  BY <1>1, <2>1, VolPoursuit, CanauxDuBras DEF InvVols
<1>5. ConsigneSuivie'
  BY <1>3, <1>4 DEF InvBras, ConsigneSuivie
<1>6. SondeSuivie'
  BY <1>1, VolPoursuit, CanauxDuBras, SondeVide DEF InvVols
<1>7. BrasArrive'
  <2> SUFFICES ASSUME Immobile' PROVE pose = Rpos
    BY <1>3 DEF BrasArrive
  <2>1. /\ Len(appels') = Len(appels) /\ Len(appels) \in Nat
        /\ \A i \in 2..Len(appels) : appels'[i] = appels[i]
    BY <1>1, PilePoursuit DEF InvTypes
  <2>2. ~Mobile(Suivante)
    BY <1>2, <2>1 DEF Immobile, Mobile, Suivante
  <2>3. ~Mobile(Courant)
    <3>1. ConsigneRecue => Suivante.op = "sonder"
      BY EffetsMouvement DEF Vers, Fiche1
    <3>2. QED  BY <1>3, <2>2, <3>1 DEF Mobile
  <2>4. \A i \in 1..Len(appels) : i = 1 \/ (i \in 2..Len(appels) /\ i \in 1..Len(appels'))
    BY <2>1
  <2>5. Immobile
    BY <1>2, <2>1, <2>3, <2>4 DEF Immobile, Mobile
  <2>6. QED  BY <2>5 DEF InvBras, BrasArrive
<1>8. QED  BY <1>5, <1>6, <1>7 DEF InvBras

LEMMA BrasFin ==
    ASSUME InvTypes, InvTypes', InvTravail, InvQuestions, InvVols, InvAttentes, InvBras,
           consigne' = consigne, pose' = pose, Fin
    PROVE  InvBras'
<1>1. /\ Termine /\ Rpos' = Rpos /\ Courant.op # "consigne"
      /\ Courant.op = "sonder" => rep["getJointState"] /\ valeur.pose = Rpos
  BY Fins
<1>2. requetes' = requetes
  BY <1>1 DEF Termine
<1>3. ConsigneSuivie'
  BY <1>1, <1>2 DEF InvBras, ConsigneSuivie
<1>4. SondeSuivie'
  <2>1. Vol("getJointState")' /\ ~Repondue("getJointState") /\ ~rep'["getJointState"]
    BY <1>1, VolTermine, CanauxDuBras DEF InvVols
  <2>2. entree' = entree
    BY <1>1 DEF Termine
  <2>3. ~Repondue("getJointState")'
    BY <2>1, <2>2 DEF Repondue
  <2>4. QED  BY <2>1, <2>3, SondeVide
<1>5. BrasArrive'
  <2> SUFFICES ASSUME Immobile' PROVE pose = Rpos
    BY <1>1 DEF BrasArrive
  <2>1. CASE Courant.op = "sonder"
    BY <1>1, <2>1 DEF InvBras, SondeSuivie
  <2>2. CASE Courant.op # "sonder"
    <3>1. /\ Len(appels') = Len(appels) - 1 /\ Len(appels) \in Nat
          /\ \A i \in 1..Len(appels') : appels'[i] = appels[i + 1]
      BY <1>1, PileTermine DEF InvTypes
    <3>2. Courant = appels[1]
      BY <1>1, Tete DEF InvTypes, Termine
    <3>3. ASSUME NEW i \in 1..Len(appels) PROVE ~Mobile(appels[i])
      <4>1. CASE i = 1
        BY <1>1, <2>2, <3>2, <4>1 DEF Mobile
      <4>2. CASE i # 1
        <5>1. i - 1 \in 1..Len(appels') /\ (i - 1) + 1 = i
          BY <3>1, <4>2
        <5>2. appels'[i - 1] = appels[i]
          BY <3>1, <5>1
        <5>3. QED  BY <5>1, <5>2 DEF Immobile, Mobile
      <4>3. QED  BY <4>1, <4>2
    <3>4. QED  BY <3>3 DEF InvBras, BrasArrive, Immobile
  <2>3. QED  BY <2>1, <2>2
<1>6. QED  BY <1>3, <1>4, <1>5 DEF InvBras

(* The steps that only move the messages and the spinOnce. *)
LEMMA BrasMessages ==
    ASSUME InvTypes, InvTypes', InvTravail, InvQuestions, InvVols, InvBras,
           consigne' = consigne, pose' = pose,
           \/ Update \/ UpdateHeure \/ SpinPrincipal \/ SpinOnce
           \/ CallbackReponse \/ CallbackOrdre \/ FinLot
    PROVE  InvBras'
<1>1. Rpos' = Rpos /\ requetes'["setJointState"] = requetes["setJointState"]
  <2>1. CASE Update
    BY <2>1, VolUpdate, CanauxDuBras DEF InvVols, Update, varsMemoire
  <2>2. CASE ~Update
    BY <2>2 DEF UpdateHeure, SpinPrincipal, SpinOnce, PrendLot, CallbackReponse, CallbackOrdre,
                FinLot, varsMemoire, varsTopics
  <2>3. QED  BY <2>1, <2>2
<1>2. ConsigneSuivie'
  BY <1>1 DEF InvBras, ConsigneSuivie
<1>3. CASE CallbackReponse
  <2> DEFINE m == Head(entree)
  <2>1. /\ appels' = appels /\ lot > 0 /\ m.type = "reponse" /\ m \in ReponseType
        /\ rep' = [rep EXCEPT ![m.canal] = TRUE] /\ entree' = Tail(entree)
    BY <1>3, CallbackReponseSuite DEF InvTypes
  <2>2. valeur'.pose = IF m.canal = "getJointState" THEN m.pose ELSE valeur.pose
    BY <1>3 DEF CallbackReponse, InvTypes, TypesMemoire, ValeurType
  <2>3. /\ m = entree[1] /\ 1 \in 1..Len(entree)
        /\ \A i \in 1..Len(entree') : i + 1 \in 1..Len(entree) /\ entree'[i] = entree[i + 1]
    BY <2>1, EntreeLue DEF InvTypes
  <2> HIDE DEF m
  <2>4. m.canal \in Canaux /\ rep \in [Canaux -> BOOLEAN]
    BY <2>1 DEF ReponseType, InvTypes, TypesMemoire
  <2>5. rep'["getJointState"] /\ valeur'.pose = Rpos => pose = Rpos
    <3>1. CASE m.canal = "getJointState"
      BY <2>1, <2>2, <2>3, <3>1 DEF InvBras, SondeSuivie
    <3>2. CASE m.canal # "getJointState"
      BY <2>1, <2>2, <2>4, <3>2, CanauxDuBras DEF InvBras, SondeSuivie
    <3>3. QED  BY <3>1, <3>2
  <2>6. SondeSuivie'
    BY <1>1, <2>3, <2>5 DEF InvBras, SondeSuivie
  <2>7. BrasArrive'
    BY <1>1, <2>1 DEF InvBras, BrasArrive, Immobile, Mobile
  <2>8. QED  BY <1>2, <2>6, <2>7 DEF InvBras
<1>4. CASE ~CallbackReponse
  <2>1. SondeSuivie'
    <3>1. CASE UpdateHeure
      <4>1. ~Repondue("getJointState") /\ ~rep'["getJointState"]
        BY <3>1, VolHeure, CanauxDuBras DEF InvVols
      <4>2. entree' = entree
        BY <3>1 DEF UpdateHeure, varsTopics
      <4>3. ~Repondue("getJointState")'
        BY <4>1, <4>2 DEF Repondue
      <4>4. QED  BY <4>1, <4>3, SondeVide
    <3>2. CASE CallbackOrdre
      <4>1. lot > 0 /\ entree' = Tail(entree) /\ UNCHANGED <<rep, valeur>>
        BY <3>2, CallbackOrdreSuite DEF InvTypes
      <4>2. \A i \in 1..Len(entree') : i + 1 \in 1..Len(entree) /\ entree'[i] = entree[i + 1]
        BY <4>1, EntreeLue DEF InvTypes
      <4>3. QED  BY <1>1, <4>1, <4>2 DEF InvBras, SondeSuivie
    <3>3. CASE Update \/ SpinPrincipal \/ SpinOnce \/ FinLot
      <4>1. UNCHANGED <<entree, rep, valeur>>
        BY <3>3 DEF Update, SpinPrincipal, SpinOnce, PrendLot, FinLot, VarsSansFile, varsTopics
      <4>2. QED  BY <1>1, <4>1 DEF InvBras, SondeSuivie
    <3>4. QED  BY <1>4, <3>1, <3>2, <3>3
  <2>2. BrasArrive'
    <3> SUFFICES ASSUME Immobile' PROVE Immobile
      BY <1>1 DEF InvBras, BrasArrive
    <3> SUFFICES ASSUME NEW i \in 1..Len(appels) PROVE ~Mobile(appels[i])
      BY DEF Immobile
    <3>1. CASE Update
      <4>1. appels = <<>>
        BY <3>1 DEF Update
      <4>2. Len(appels) = 0
        BY ONLY <4>1
      <4>3. QED  BY <4>2
    <3>2. CASE UpdateHeure
      <4>1. /\ appels # <<>> /\ Courant.op = "update" /\ Len(appels) \in Nat
            /\ Len(appels') = Len(appels) + 1
            /\ \A k \in 2..Len(appels) : appels'[k + 1] = appels[k]
        BY <3>2, UpdateHeureSuite DEF InvTypes
      <4>2. appels[1].op = "update"
        BY <4>1, Tete DEF InvTypes
      <4>3. i = 1 \/ (i \in 2..Len(appels) /\ i + 1 \in 1..Len(appels'))
        BY <4>1
      <4>4. QED  BY <4>1, <4>2, <4>3 DEF Immobile, Mobile
    <3>3. CASE SpinPrincipal \/ SpinOnce
      <4>1. /\ Len(appels) \in Nat /\ Len(appels') = Len(appels) + 1
            /\ appels'[i + 1] = appels[i]
        BY <3>3, LotPose DEF SpinPrincipal, SpinOnce, InvTravail
      <4>2. i + 1 \in 1..Len(appels')
        BY <4>1
      <4>3. QED  BY <4>1, <4>2 DEF Immobile, Mobile
    <3>4. CASE FinLot
      <4>1. /\ appels[1].op = "lot" /\ Len(appels') = Len(appels) - 1 /\ Len(appels) \in Nat
            /\ \A k \in 1..Len(appels') : appels'[k] = appels[k + 1]
        BY <3>4, FinLotSuite DEF InvTypes
      <4>2. CASE i = 1
        BY <4>1, <4>2 DEF Mobile
      <4>3. CASE i # 1
        <5>1. i - 1 \in 1..Len(appels') /\ (i - 1) + 1 = i
          BY <4>1, <4>3
        <5>2. appels'[i - 1] = appels[i]
          BY <4>1, <5>1
        <5>3. QED  BY <5>1, <5>2 DEF Immobile, Mobile
      <4>4. QED  BY <4>2, <4>3
    <3>5. CASE CallbackOrdre
      <4>1. lot > 0 /\ Head(entree).type = "ordre"
        BY <3>5, CallbackOrdreSuite DEF InvTypes
      <4>2. Oisif
        BY <4>1, TeteOrdre
      <4>3. QED  BY <4>2 DEF Oisif, Travail, Mobile
    <3>6. QED  BY <1>4, <3>1, <3>2, <3>3, <3>4, <3>5
  <2>3. QED  BY <1>2, <2>1, <2>2 DEF InvBras
<1>5. QED  BY <1>3, <1>4

LEMMA BrasRobot ==
    ASSUME InvTypes, InvTypes', InvTravail, InvQuestions, InvVols, InvAttentes, InvBras, Robot
    PROVE  InvBras'
<1>1. RobotNext /\ consigne' = consigne /\ pose' = pose
  BY DEF Robot, varsSimulateur
<1>2. QED  BY <1>1, SortesDePas, BrasRpos, BrasSuite, BrasFin, BrasMessages

LEMMA BrasScene ==
    ASSUME InvTypes, InvTypes', InvTravail, InvVols, InvBras, NEW c \in Canaux, Scene(c)
    PROVE  InvBras'
<1> DEFINE q == requetes[c][1]
           r == Reponse(c, q)
<1>1. /\ requetes[c] # <<>> /\ requetes[c] \in Seq(RequeteType)
      /\ r.canal = c /\ r.type = "reponse" /\ entree' = Append(entree, r)
      /\ UNCHANGED varsRobot
  BY TypesReponse
<1>2. /\ c = "getJointState" => r.pose = pose
      /\ consigne' = IF c = "setJointState" THEN q.pose ELSE consigne
      /\ pose' = pose
  BY <1>1 DEF Scene, Repond, Reponse
<1> HIDE DEF r
<1>3. appels' = appels /\ rep' = rep /\ valeur' = valeur /\ Rpos' = Rpos
  BY <1>1 DEF varsRobot, varsMemoire
<1>4. ConsigneSuivie'
  <2>1. CASE c = "setJointState"
    <3>1. requetes'[c] = <<>>
      BY <2>1, VolScene, CanauxDuBras DEF InvVols
    <3>2. q.pose = Rpos
      BY <1>1, <2>1 DEF InvBras, ConsigneSuivie
    <3>3. QED  BY <1>2, <1>3, <2>1, <3>1, <3>2 DEF ConsigneSuivie
  <2>2. CASE c # "setJointState"
    <3>1. requetes'["setJointState"] = requetes["setJointState"]
      BY <2>2, VolScene, CanauxDuBras DEF InvVols
    <3>2. QED  BY <1>2, <1>3, <2>2, <3>1 DEF InvBras, ConsigneSuivie
  <2>3. QED  BY <2>1, <2>2
<1>5. SondeSuivie'
  <2>1. /\ entree'[Len(entree) + 1] = r
        /\ \A i \in 1..Len(entree) : entree'[i] = entree[i]
        /\ \A i \in 1..Len(entree') : i \in 1..Len(entree) \/ i = Len(entree) + 1
    BY <1>1, EntreeAjoutee
  <2>2. QED  BY <1>1, <1>2, <1>3, <2>1 DEF InvBras, SondeSuivie
<1>6. BrasArrive'
  BY <1>2, <1>3 DEF InvBras, BrasArrive, Immobile, Mobile
<1>7. QED  BY <1>4, <1>5, <1>6 DEF InvBras

(* The arm arrives: no question of its pose is then under way, unless the  *)
(* pose it reaches is the last one asked for.                              *)
LEMMA BrasBras ==
    ASSUME InvTypes, InvTypes', InvTravail, InvQuestions, InvVols, InvAttentes, InvBras, Bras
    PROVE  InvBras'
<1>1. /\ pose' = consigne /\ consigne' = consigne
      /\ UNCHANGED <<appels, requetes, entree, rep, valeur, Rpos>>
  BY DEF Bras, BrasBouge, varsTopics, varsRobot, varsMemoire
<1>2. ConsigneSuivie'
  BY <1>1 DEF InvBras, ConsigneSuivie
<1>3. CASE requetes["setJointState"] = <<>>
  <2>1. pose' = Rpos'
    BY <1>1, <1>3 DEF InvBras, ConsigneSuivie
  <2>2. QED  BY <1>2, <2>1 DEF InvBras, SondeSuivie, BrasArrive
<1>4. CASE requetes["setJointState"] # <<>>
  <2>1. PICK i \in 1..Len(appels) : appels[i].attend = "setJointState"
    BY <1>4, CanauxDuBras DEF InvVols, Vol, EnVol, Attendu
  <2>2. appels[i].op = "consigne"
    BY <2>1 DEF InvAttentes, AttenteJuste
  <2>3. BrasArrive'
    BY <1>1, <2>2 DEF BrasArrive, Immobile, Mobile
  <2>4. \A j \in 1..Len(appels) : appels[j].attend # "getJointState"
    <3>1. \A j \in 1..Len(appels) : appels[j].attend # "" => j = i
      BY <2>1, AttendSeul DEF InvQuestions
    <3>2. QED  BY <2>1, <3>1
  <2>5. ~EnVol("getJointState")
    BY <2>4, CanauxDuBras DEF InvVols, Vol, Attendu
  <2>6. ~Repondue("getJointState")' /\ ~rep'["getJointState"]
    BY <1>1, <2>5 DEF EnVol, Repondue
  <2>7. QED  BY <1>2, <2>3, <2>6, SondeVide DEF InvBras
<1>5. QED  BY <1>3, <1>4

LEMMA BrasAilleurs ==
    ASSUME InvTypes, InvBras,
           UNCHANGED <<appels, requetes, rep, valeur, Rpos, pose, consigne>>,
           entree' = entree \/ \E m : m.type = "ordre" /\ entree' = Append(entree, m)
    PROVE  InvBras'
<1>1. \A i \in 1..Len(entree') :
        entree'[i].type = "reponse" => i \in 1..Len(entree) /\ entree'[i] = entree[i]
  <2>1. CASE entree' = entree
    BY <2>1
  <2>2. CASE \E m : m.type = "ordre" /\ entree' = Append(entree, m)
    BY <2>2, EntreeAjoutee
  <2>3. QED  BY <2>1, <2>2
<1>2. SondeSuivie'
  BY <1>1 DEF InvBras, SondeSuivie
<1>3. QED  BY <1>2 DEF InvBras, ConsigneSuivie, BrasArrive, Immobile, Mobile

(* What the steps of the command and of the shuttles leave alone. *)
LEMMA HorsDuRobot ==
    ASSUME InvTypes,
           \/ \E m \in UNION Programmes : DonneOrdre(m)
           \/ \E k \in Genres : Constate(k)
           \/ Retour \/ UNCHANGED vars
           \/ \E p \in PositionsNavette : Navette(p)
    PROVE  /\ UNCHANGED <<appels, lot, rep, valeur, Rpos, couleur_transportee, tache, evacues,
                          requetes, cubes, pose, consigne>>
           /\ entree' = entree \/ \E m : m.type = "ordre" /\ entree' = Append(entree, m)
<1>1. CASE \E m \in UNION Programmes : DonneOrdre(m)
  <2>1. PICK m \in UNION Programmes : DonneOrdre(m)
    BY <1>1
  <2>2. m.type = "ordre" /\ entree' = Append(entree, m) /\ UNCHANGED <<requetes, varsRobot>>
    BY <2>1, TypesDonneOrdre
  <2>3. UNCHANGED varsSimulateur
    BY <2>1 DEF DonneOrdre
  <2>4. QED  BY <2>2, <2>3 DEF varsRobot, varsMemoire, varsSimulateur
<1>2. CASE \E k \in Genres : Constate(k)
  BY <1>2 DEF Constate, varsRobot, varsMemoire, varsMonde, varsTopics, varsSimulateur
<1>3. CASE Retour
  BY <1>3 DEF Retour, RetourRobotCallback, varsRobot, varsMemoire, varsSimulateur
<1>4. CASE UNCHANGED vars
  BY <1>4 DEF vars, varsRobot, varsMemoire, varsMonde, varsTopics, varsSimulateur
<1>5. CASE \E p \in PositionsNavette : Navette(p)
  BY <1>5 DEF Navette, NavetteBouge, varsRobot, varsMemoire, varsTopics
<1>6. QED  BY <1>1, <1>2, <1>3, <1>4, <1>5

LEMMA BrasPas ==
    ASSUME InvTypes, InvTypes', InvTravail, InvQuestions, InvVols, InvAttentes, InvBras,
           [Next]_vars
    PROVE  InvBras' /\ InvAttentes'
<1>1. CASE Robot
  BY <1>1, BrasRobot, AttentesRobot
<1>2. CASE Bras
  <2>1. appels' = appels
    BY <1>2 DEF Bras, varsRobot
  <2>2. QED  BY <1>2, <2>1, BrasBras DEF InvAttentes, AttenteJuste, Peintures
<1>3. CASE \E c \in Canaux : Scene(c)
  <2>1. appels' = appels
    BY <1>3 DEF Scene, varsRobot
  <2>2. QED  BY <1>3, <2>1, BrasScene DEF InvAttentes, AttenteJuste, Peintures
<1>4. CASE \/ \E m \in UNION Programmes : DonneOrdre(m)
           \/ \E k \in Genres : Constate(k)
           \/ Retour \/ UNCHANGED vars
           \/ \E p \in PositionsNavette : Navette(p)
  BY <1>4, HorsDuRobot, BrasAilleurs DEF InvAttentes, AttenteJuste, Peintures
<1>5. QED  BY <1>1, <1>2, <1>3, <1>4 DEF Next
-----------------------------------------------------------------------------
(* Orders are given one at a time, and the node begins one with an empty   *)
(* stack.                                                                  *)
DemandeSeule == demandes = {} \/ \E g \in Genres : demandes = {g}
OrdrePris ==
    \A i \in 1..lot : entree[i].type = "ordre" => Len(appels) = 1 /\ appels[1].op = "lot"

(* The same step begun, or about to be: where the arm is then asked to be. *)
Tenue(A, B, r, o, p, P) ==
    \/ r = 11 /\ o = "envoyer" /\ p = A
    \/ r \in {11, 7} /\ o \in {"consigne", "sonder"} /\ P = Pose(A, 0)
    \/ r = 10 /\ o = "descendre" /\ P = Pose(A, 0)
    \/ r = 10 /\ o \in {"consigne", "sonder"} /\ P = Pose(A, 1)
    \/ r = 9 /\ o \in {"prise", "lirePrise", "peindrePrise"} /\ p = A /\ P = Pose(A, 1)
    \/ r = 8 /\ o \in {"pince", "serrage"} /\ P = Pose(A, 1)
    \/ r = 7 /\ o = "monter" /\ P = Pose(A, 1)
    \/ r = 6 /\ o = "envoyer" /\ p = B /\ P = Pose(A, 0)
    \/ r \in {6, 2} /\ o \in {"consigne", "sonder"} /\ P = Pose(B, 0)
    \/ r = 5 /\ o = "descendre" /\ P = Pose(B, 0)
    \/ r = 5 /\ o \in {"consigne", "sonder"} /\ P = Pose(B, 1)
    \/ r = 4 /\ o \in {"pose", "lirePose", "peindrePose"} /\ p = B /\ P = Pose(B, 1)
    \/ r = 3 /\ o \in {"pince", "serrage"} /\ P = Pose(B, 1)
    \/ r = 2 /\ o = "monter" /\ P = Pose(B, 1)
    \/ r = 1 /\ o = "retour" /\ P = Pose(B, 0)

AuTravail(i) == i = 1 \/ (i = 2 /\ appels[1].op = "lot")
Deroule(A, B) ==
    \A i \in 1..Len(appels) :
        \/ appels[i].op = "lot" /\ (i = 1 \/ i = Len(appels))
        \/ /\ Travail(appels[i])
           /\ IF AuTravail(i)
              THEN Tenue(A, B, Len(appels) - i, appels[i].op, appels[i].pos, Rpos)
              ELSE Intacte(A, B, Len(appels) - i, appels[i].op, appels[i].pos)
InvDeplacer ==
    demandes = {"deplacer"} /\ SansOrdre =>
        IF Oisif THEN Rpos.bas = 0 ELSE \E A, B \in Positions : Deroule(A, B)

(* The gripper holds something between the prise and the pose only. *)
PinceVide ==
    couleur_transportee # SansCube =>
        /\ demandes = {"deplacer"}
        /\ \E i \in 1..Len(appels) :
             AuTravail(i) /\ Travail(appels[i]) /\ Len(appels) - i \in 4..8
InvMouvement == InvDeplacer /\ PinceVide

LEMMA PoseBouge ==
    \A p : \A b \in {0, 1} :
        /\ b = 0 => [Pose(p, b) EXCEPT !.bas = @ + 1] = Pose(p, 1)
        /\ b = 1 => [Pose(p, b) EXCEPT !.bas = @ - 1] = Pose(p, 0)
        /\ Pose(p, b).bas = b
BY DEF Pose

LEMMA TenueSuite ==
    ASSUME NEW A, NEW B, NEW r, NEW o, NEW p, NEW P, Tenue(A, B, r, o, p, P), NEW q,
           o \notin Departs, Mene(o, q)
    PROVE  Tenue(A, B, r, q, p, P)
BY DEF Tenue, Mene, Departs

LEMMA TenueDepart ==
    ASSUME NEW A, NEW B, NEW r, NEW o, NEW p, NEW P, Tenue(A, B, r, o, p, P), NEW Q,
           \/ o = "envoyer" /\ Q = Pose(p, 0)
           \/ o = "descendre" /\ Q = [P EXCEPT !.bas = @ + 1]
           \/ o = "monter" /\ Q = [P EXCEPT !.bas = @ - 1],
           NEW z
    PROVE  Tenue(A, B, r, "consigne", z, Q)
<1>1. CASE o = "envoyer" /\ Q = Pose(p, 0)
  BY <1>1 DEF Tenue
<1>2. CASE o = "descendre" /\ Q = [P EXCEPT !.bas = @ + 1]
  <2>1. \/ r = 10 /\ P = Pose(A, 0)
        \/ r = 5 /\ P = Pose(B, 0)
    BY <1>2 DEF Tenue
  <2>2. \/ r = 10 /\ Q = Pose(A, 1)
        \/ r = 5 /\ Q = Pose(B, 1)
    BY <1>2, <2>1, PoseBouge
  <2>3. QED  BY <2>2 DEF Tenue
<1>3. CASE o = "monter" /\ Q = [P EXCEPT !.bas = @ - 1]
  <2>1. \/ r = 7 /\ P = Pose(A, 1)
        \/ r = 2 /\ P = Pose(B, 1)
    BY <1>3 DEF Tenue
  <2>2. \/ r = 7 /\ Q = Pose(A, 0)
        \/ r = 2 /\ Q = Pose(B, 0)
    BY <1>3, <2>1, PoseBouge
  <2>3. QED  BY <2>2 DEF Tenue
<1>4. QED  BY <1>1, <1>2, <1>3

LEMMA TenueEnsuite ==
    ASSUME NEW A, NEW B, NEW r \in Int, NEW o, NEW p, NEW P, Tenue(A, B, r + 1, o, p, P),
           o \notin Departs, NEW q, NEW z, Intacte(A, B, r, q, z)
    PROVE  Tenue(A, B, r, q, z, P)
<1>1. r \in 1..11
  BY DEF Intacte
<1>2. CASE r \in 6..11
  BY <1>2 DEF Tenue, Intacte, Departs
<1>3. CASE r \in 1..5
  BY <1>3 DEF Tenue, Intacte, Departs
<1>4. QED  BY <1>1, <1>2, <1>3

LEMMA TenueRang ==
    ASSUME NEW A, NEW B, NEW r, NEW o, NEW p, NEW P,
           Tenue(A, B, r, o, p, P) \/ Intacte(A, B, r, o, p)
    PROVE  r \in 1..11
BY DEF Tenue, Intacte
-----------------------------------------------------------------------------
(* The steps of a movement, one by one. *)
LEMMA TravailDuDeplacer ==
    ASSUME InvTypes, InvTravail, InvDeplacer, demandes = {"deplacer"}, ~Oisif
    PROVE  SansOrdre /\ \E A, B \in Positions : Deroule(A, B)
<1>1. PICK i \in 1..Len(appels) : Travail(appels[i])
  BY DEF Oisif
<1>2. appels[i].op \in OpsDe("deplacer")
  BY <1>1 DEF InvTravail, InvEtapes, EtapesAttendues, EtapeDe
<1>3. appels[i].op # "update"
  BY <1>2, OpsDuGenre
<1>4. SansOrdre
  BY <1>1, <1>3, Occupee
<1>5. QED  BY <1>4 DEF InvDeplacer

(* The head of the stack is not a spinOnce: it is the step at work. *)
LEMMA DerouleTete ==
    ASSUME InvTypes, appels # <<>>, Courant.op # "lot", NEW A, NEW B, Deroule(A, B)
    PROVE  /\ Travail(Courant) /\ Len(appels) - 1 \in 1..11
           /\ Tenue(A, B, Len(appels) - 1, Courant.op, Courant.pos, Rpos)
           /\ \A i \in 2..Len(appels) :
                \/ appels[i].op = "lot" /\ i = Len(appels)
                \/ /\ Travail(appels[i])
                   /\ Intacte(A, B, Len(appels) - i, appels[i].op, appels[i].pos)
<1>1. Courant = appels[1] /\ 1 \in 1..Len(appels) /\ Len(appels) \in Nat
  <2>1. appels \in Seq(EtapeType)
    BY DEF InvTypes, TypesFiles
  <2>2. Len(appels) \in Nat
    BY <2>1
  <2>3. Courant = appels[1] /\ 1 \in 1..Len(appels)
    BY Tete DEF InvTypes
  <2>4. QED  BY <2>2, <2>3
<1>2. Travail(Courant) /\ Tenue(A, B, Len(appels) - 1, Courant.op, Courant.pos, Rpos)
  BY <1>1 DEF Deroule, AuTravail
<1>3. \A i \in 2..Len(appels) : i \in 1..Len(appels) /\ ~AuTravail(i)
  BY <1>1 DEF AuTravail
<1>4. QED  BY <1>1, <1>2, <1>3, TenueRang DEF Deroule

(* The step at work goes on. *)
LEMMA DeroulePoursuit ==
    ASSUME InvTypes, NEW f, Poursuit(f), NEW A, NEW B, Deroule(A, B),
           Tenue(A, B, Len(appels) - 1, f.op, f.pos, Rpos')
    PROVE  Deroule(A, B)'
<1>1. /\ Len(appels') = Len(appels) /\ Len(appels) \in Nat /\ appels'[1] = f
      /\ \A i \in 2..Len(appels) : appels'[i] = appels[i]
  BY PilePoursuit DEF InvTypes
<1>2. /\ appels # <<>> /\ Courant.op # "lot" /\ Travail(f)
  BY DEF Poursuit
<1>3. \A i \in 2..Len(appels) :
        \/ appels[i].op = "lot" /\ i = Len(appels)
        \/ /\ Travail(appels[i])
           /\ Intacte(A, B, Len(appels) - i, appels[i].op, appels[i].pos)
  BY <1>2, DerouleTete
<1> SUFFICES ASSUME NEW i \in 1..Len(appels')
             PROVE  \/ appels'[i].op = "lot" /\ (i = 1 \/ i = Len(appels'))
                    \/ /\ Travail(appels'[i])
                       /\ IF i = 1 \/ (i = 2 /\ appels'[1].op = "lot")
                          THEN Tenue(A, B, Len(appels') - i, appels'[i].op, appels'[i].pos, Rpos')
                          ELSE Intacte(A, B, Len(appels') - i, appels'[i].op, appels'[i].pos)
  BY DEF Deroule, AuTravail, Tenue, Intacte, Travail
<1>4. CASE i = 1
  BY <1>1, <1>2, <1>4
<1>5. CASE i # 1
  <2>1. i \in 2..Len(appels)
    BY <1>1, <1>5
  <2>2. appels'[1].op # "lot"
    BY <1>1, <1>2 DEF Travail
  <2>3. QED  BY <1>1, <1>3, <1>5, <2>1, <2>2
<1>6. QED  BY <1>4, <1>5

LEMMA RestePoursuit ==
    ASSUME InvTypes, NEW f, Poursuit(f)
    PROVE  ~Oisif' /\ (SansOrdre' <=> SansOrdre)
<1>1. 1 \in 1..Len(appels') /\ Travail(appels'[1]) /\ entree' = entree
  BY PilePoursuit DEF InvTypes, Poursuit
<1>2. QED  BY <1>1 DEF Oisif, Travail, SansOrdre

LEMMA MouvementPoursuit ==
    ASSUME InvTypes, InvTravail, InvMouvement, InvAttentes, demandes' = demandes,
           couleur_transportee' = couleur_transportee,
           \/ EnvoyerRobot \/ EnvoyerJoints \/ DescendreBras \/ MonterBras \/ AutreSuite
    PROVE  InvMouvement'
<1>1. Poursuit(Suivante)
  BY SuitePoursuit
<1>2. /\ appels # <<>> /\ Courant.op # "lot" /\ Courant = appels[1] /\ 1 \in 1..Len(appels)
      /\ Len(appels) \in Nat /\ Courant.op # "verifier" => Travail(Courant)
  BY <1>1, Tete DEF InvTypes, TypesFiles, Poursuit, Travail
<1>3. AttenteJuste(Courant)
  BY <1>2 DEF InvAttentes
<1>4. demandes = {"deplacer"} => Courant.op # "verifier"
  <2>1. CASE TacheEchue
    <3>1. \E p \in PositionsPoste : tache[p]
      <4>1. tache[Courant.pos] /\ Courant.op = "verifier"
        BY <2>1 DEF TacheEchue, Libre, Actif, Courant
      <4>2. Courant.pos \in PositionsPoste
        BY <1>2, <4>1, Tete DEF InvTypes, EtapeJuste, OpsPoste
      <4>3. QED  BY <4>1, <4>2
    <3>2. \A p : TacheDe(p) # "deplacer"
      BY DEF TacheDe
    <3>3. QED  BY <3>1, <3>2 DEF InvTravail, InvOrdre, TacheSeule
  <2>2. CASE SuiteDuRobot
    <3>1. Travail(Courant)
      BY <2>2, SuitesDuRobot DEF MemeSuite, MemeTravail
    <3>2. QED  BY <3>1 DEF Travail
  <2>3. QED  BY <2>1, <2>2 DEF AutreSuite, SuiteDuRobot
<1>5. InvDeplacer'
  <2> SUFFICES ASSUME demandes = {"deplacer"}
               PROVE  \E A, B \in Positions : Deroule(A, B)'
    BY <1>1, RestePoursuit DEF InvDeplacer
  <2>1. ~Oisif
    BY <1>2, <1>4 DEF Oisif
  <2>2. PICK A \in Positions, B \in Positions : Deroule(A, B)
    BY <2>1, TravailDuDeplacer DEF InvMouvement
  <2>3. Tenue(A, B, Len(appels) - 1, Courant.op, Courant.pos, Rpos)
    BY <1>2, <2>2, DerouleTete
  <2>4. Tenue(A, B, Len(appels) - 1, Suivante.op, Suivante.pos, Rpos')
    <3>1. CASE AutreSuite
      <4>1. /\ Rpos' = Rpos /\ Suivante.pos = Courant.pos
            /\ Courant.op \notin Departs /\ Mene(Courant.op, Suivante.op)
        BY <1>3, <1>4, <3>1, Suites DEF Garde
      <4>2. QED  BY <2>3, <4>1, TenueSuite
    <3>2. CASE EnvoyerRobot \/ EnvoyerJoints \/ DescendreBras \/ MonterBras
      <4>1. /\ Suivante.op = "consigne"
            /\ \/ Courant.op = "envoyer" /\ Rpos' = Pose(Courant.pos, 0)
               \/ Courant.op = "joints"
               \/ Courant.op = "descendre" /\ Rpos' = [Rpos EXCEPT !.bas = @ + 1]
               \/ Courant.op = "monter" /\ Rpos' = [Rpos EXCEPT !.bas = @ - 1]
        BY <3>2, EffetsRpos
      <4>2. Courant.op # "joints"
        BY <2>3 DEF Tenue
      <4>3. QED  BY <2>3, <4>1, <4>2, TenueDepart
    <3>3. QED  BY <3>1, <3>2
  <2>5. QED  BY <1>1, <2>2, <2>4, DeroulePoursuit
<1>6. PinceVide'
  <2> SUFFICES ASSUME couleur_transportee # SansCube
               PROVE  /\ demandes = {"deplacer"}
                      /\ \E i \in 1..Len(appels') :
                           /\ i = 1 \/ (i = 2 /\ appels'[1].op = "lot")
                           /\ Travail(appels'[i]) /\ Len(appels') - i \in 4..8
    BY DEF PinceVide, AuTravail, Travail
  <2>1. PICK i \in 1..Len(appels) :
           AuTravail(i) /\ Travail(appels[i]) /\ Len(appels) - i \in 4..8
    BY DEF InvMouvement, PinceVide
  <2>2. i = 1
    BY <1>2, <2>1 DEF AuTravail
  <2>3. Len(appels') = Len(appels) /\ Travail(appels'[1])
    BY <1>1, PilePoursuit DEF InvTypes, Poursuit
  <2>4. QED  BY <2>1, <2>2, <2>3 DEF InvMouvement, PinceVide
<1>7. QED  BY <1>5, <1>6 DEF InvMouvement

(* The step at work is finished: the next one takes its turn. *)
LEMMA DerouleTermine ==
    ASSUME InvTypes, Termine, Courant.op \notin Departs, Rpos' = Rpos, NEW A, NEW B, Deroule(A, B)
    PROVE  IF Oisif' THEN Rpos.bas = 0 ELSE Deroule(A, B)'
<1>1. /\ Len(appels') = Len(appels) - 1 /\ Len(appels) \in Nat
      /\ \A i \in 1..Len(appels') : i + 1 \in 1..Len(appels) /\ appels'[i] = appels[i + 1]
  BY PileTermine DEF InvTypes
<1>2. appels # <<>> /\ Courant.op # "lot"
  BY DEF Termine
<1>3. /\ Len(appels) - 1 \in 1..11
      /\ Tenue(A, B, Len(appels) - 1, Courant.op, Courant.pos, Rpos)
      /\ \A i \in 2..Len(appels) :
           \/ appels[i].op = "lot" /\ i = Len(appels)
           \/ /\ Travail(appels[i])
              /\ Intacte(A, B, Len(appels) - i, appels[i].op, appels[i].pos)
  BY <1>2, DerouleTete
<1>4. CASE Len(appels) = 2
  <2>1. Tenue(A, B, 1, Courant.op, Courant.pos, Rpos)
    BY <1>3, <1>4
  <2>2. Rpos.bas = 0
    <3>1. Rpos = Pose(B, 0)
      BY <2>1 DEF Tenue
    <3>2. QED  BY <3>1, PoseBouge
  <2>3. appels[2].op = "lot"
    <3>1. 2 \in 2..Len(appels) /\ Len(appels) - 2 = 0
      BY <1>4
    <3>2. ~Intacte(A, B, 0, appels[2].op, appels[2].pos)
      BY DEF Intacte
    <3>3. QED  BY <1>3, <3>1, <3>2
  <2>4. \A i \in 1..Len(appels') : appels'[i].op = "lot"
    <3>1. \A i \in 1..Len(appels') : i = 1
      BY <1>1, <1>4
    <3>2. QED  BY <1>1, <2>3, <3>1
  <2>5. Oisif'
    BY <2>4 DEF Oisif, Travail
  <2>6. QED  BY <2>2, <2>5
<1>5. CASE Len(appels) # 2
  <2>1. Len(appels') = Len(appels) - 1 /\ 2 \in 2..Len(appels) /\ 2 # Len(appels)
    BY <1>1, <1>3, <1>5
  <2>2. Travail(appels[2]) /\ appels'[1] = appels[2] /\ 1 \in 1..Len(appels')
    <3>1. Travail(appels[2])
      BY <1>3, <2>1
    <3>2. 1 \in 1..Len(appels')
      BY <1>1, <2>1
    <3>3. QED  BY <1>1, <3>1, <3>2
  <2>3. ~Oisif'
    BY <2>2 DEF Oisif, Travail
  <2> SUFFICES ASSUME NEW i \in 1..Len(appels')
               PROVE  \/ appels'[i].op = "lot" /\ (i = 1 \/ i = Len(appels'))
                      \/ /\ Travail(appels'[i])
                         /\ IF i = 1 \/ (i = 2 /\ appels'[1].op = "lot")
                            THEN Tenue(A, B, Len(appels') - i, appels'[i].op, appels'[i].pos, Rpos)
                            ELSE Intacte(A, B, Len(appels') - i, appels'[i].op, appels'[i].pos)
    BY <2>3 DEF Deroule, AuTravail, Tenue, Intacte, Travail
  <2>4. CASE i = 1
    <3> DEFINE r == Len(appels) - 2
    <3>1. r \in Int /\ r + 1 = Len(appels) - 1 /\ Len(appels') - i = r
      BY <1>1, <2>4
    <3>2. Intacte(A, B, r, appels[2].op, appels[2].pos)
      BY <1>3, <2>1
    <3>3. Tenue(A, B, r + 1, Courant.op, Courant.pos, Rpos)
      BY <1>3, <3>1
    <3> HIDE DEF r
    <3>4. Tenue(A, B, r, appels[2].op, appels[2].pos, Rpos)
      BY <3>1, <3>2, <3>3, TenueEnsuite
    <3>5. QED  BY <2>2, <2>4, <3>1, <3>4
  <2>5. CASE i # 1
    <3>1. /\ i + 1 \in 2..Len(appels) /\ appels'[i] = appels[i + 1]
          /\ Len(appels) - (i + 1) = Len(appels') - i
          /\ i + 1 = Len(appels) => i = Len(appels')
      BY <1>1, <2>5
    <3>2. appels'[1].op # "lot"
      BY <2>2 DEF Travail
    <3>3. QED  BY <1>3, <2>5, <3>1, <3>2
  <2>6. QED  BY <2>4, <2>5
<1>6. QED  BY <1>4, <1>5

LEMMA MouvementFin ==
    ASSUME InvTypes, InvTravail, InvMouvement, demandes' = demandes, Fin
    PROVE  InvMouvement'
<1>1. /\ Termine /\ Rpos' = Rpos /\ Courant.op \notin Departs
      /\ Courant.op \in {"pose", "lirePose", "peindrePose"} => couleur_transportee' = SansCube
      /\ \/ couleur_transportee' \in {couleur_transportee, SansCube}
         \/ Courant.op = "peindrePrise"
  BY Fins
<1>2. /\ appels # <<>> /\ Courant.op # "lot" /\ entree' = entree
  BY <1>1 DEF Termine
<1>3. Courant = appels[1] /\ 1 \in 1..Len(appels)
  BY <1>2, Tete DEF InvTypes
<1>4. /\ Len(appels') = Len(appels) - 1 /\ Len(appels) \in Nat
      /\ \A i \in 1..Len(appels') : i + 1 \in 1..Len(appels) /\ appels'[i] = appels[i + 1]
  BY <1>1, PileTermine DEF InvTypes
<1>5. Oisif => Oisif'
  BY <1>4 DEF Oisif, Travail
<1>6. InvDeplacer'
  <2> SUFFICES ASSUME demandes = {"deplacer"}, SansOrdre
               PROVE  IF Oisif' THEN Rpos.bas = 0 ELSE \E A, B \in Positions : Deroule(A, B)'
    BY <1>1, <1>2 DEF InvDeplacer, SansOrdre
  <2>1. CASE Oisif
    BY <1>5, <2>1 DEF InvMouvement, InvDeplacer
  <2>2. CASE ~Oisif
    <3>1. PICK A \in Positions, B \in Positions : Deroule(A, B)
      BY <2>2, TravailDuDeplacer DEF InvMouvement
    <3>2. IF Oisif' THEN Rpos.bas = 0 ELSE Deroule(A, B)'
      BY <1>1, <3>1, DerouleTermine
    <3>3. QED  BY <3>2
  <2>3. QED  BY <2>1, <2>2
<1>7. PinceVide'
  <2> SUFFICES ASSUME couleur_transportee' # SansCube
               PROVE  /\ demandes = {"deplacer"}
                      /\ \E i \in 1..Len(appels') :
                           /\ i = 1 \/ (i = 2 /\ appels'[1].op = "lot")
                           /\ Travail(appels'[i]) /\ Len(appels') - i \in 4..8
    BY DEF PinceVide, AuTravail, Travail
  <2>1. demandes = {"deplacer"} /\ Travail(Courant)
    <3>1. CASE couleur_transportee # SansCube
      <4>1. PICK i \in 1..Len(appels) : AuTravail(i) /\ Travail(appels[i])
        BY <3>1 DEF InvMouvement, PinceVide
      <4>2. i = 1
        BY <1>2, <1>3, <4>1 DEF AuTravail
      <4>3. QED  BY <1>3, <3>1, <4>1, <4>2 DEF InvMouvement, PinceVide
    <3>2. CASE Courant.op = "peindrePrise"
      <4>1. Travail(appels[1])
        BY <1>3, <3>2 DEF Travail
      <4>2. PICK g \in Genres : demandes = {g} /\ "peindrePrise" \in OpsDe(g)
        BY <1>3, <3>2, <4>1 DEF InvTravail, InvEtapes, EtapesAttendues, EtapeDe
      <4>3. g = "deplacer"
        BY <4>2, OpsDuGenre DEF Genres
      <4>4. QED  BY <1>3, <4>1, <4>2, <4>3
    <3>3. QED  BY <1>1, <3>1, <3>2
  <2>2. ~Oisif
    BY <1>3, <2>1 DEF Oisif
  <2>3. PICK A \in Positions, B \in Positions : Deroule(A, B)
    BY <2>1, <2>2, TravailDuDeplacer DEF InvMouvement
  <2>4. /\ Tenue(A, B, Len(appels) - 1, Courant.op, Courant.pos, Rpos)
        /\ \A i \in 2..Len(appels) :
             \/ appels[i].op = "lot" /\ i = Len(appels)
             \/ Travail(appels[i])
    BY <1>2, <2>3, DerouleTete
  <2>5. Len(appels) - 1 \in 5..9
    <3>1. CASE couleur_transportee # SansCube
      <4>1. PICK i \in 1..Len(appels) : AuTravail(i) /\ Len(appels) - i \in 4..8
        BY <3>1 DEF InvMouvement, PinceVide
      <4>2. Len(appels) - 1 \in 4..8
        BY <1>2, <1>3, <4>1 DEF AuTravail
      <4>3. Len(appels) - 1 # 4
        <5>1. Tenue(A, B, 4, Courant.op, Courant.pos, Rpos)
                => Courant.op \in {"pose", "lirePose", "peindrePose"}
          BY DEF Tenue
        <5>2. QED  BY <1>1, <2>4, <5>1
      <4>4. QED  BY <4>2, <4>3
    <3>2. CASE Courant.op = "peindrePrise"
      <4>1. Len(appels) - 1 = 9
        BY <2>4, <3>2 DEF Tenue
      <4>2. QED  BY <4>1
    <3>3. QED  BY <1>1, <3>1, <3>2
  <2>6. /\ 2 \in 2..Len(appels) /\ 2 # Len(appels)
        /\ 1 \in 1..Len(appels') /\ Len(appels') - 1 \in 4..8
    <3> DEFINE n == Len(appels)
               m == Len(appels')
    <3>1. n \in Nat /\ m = n - 1 /\ n - 1 \in 5..9
      BY <1>4, <2>5
    <3> HIDE DEF n, m
    <3>2. n \in 6..10
      BY <3>1
    <3>3. m \in 5..9
      BY <3>1
    <3>4. 2 \in 2..n /\ 2 # n /\ 1 \in 1..m /\ m - 1 \in 4..8
      BY <3>2, <3>3
    <3>5. QED  BY <3>4 DEF n, m
  <2>7. Travail(appels'[1])
    BY <1>4, <2>4, <2>6
  <2>8. QED  BY <2>1, <2>6, <2>7
<1>8. QED  BY <1>6, <1>7 DEF InvMouvement

(* A spinOnce that begins or ends moves every step by one place. *)
LEMMA MouvementLot ==
    ASSUME InvTypes, InvTypes', InvTravail, InvMouvement, demandes' = demandes,
           SpinPrincipal \/ SpinOnce
    PROVE  InvMouvement'
<1>1. /\ Len(appels) \in Nat /\ Len(appels') = Len(appels) + 1
      /\ appels'[1].op = "lot" /\ entree' = entree
      /\ \A i \in 1..Len(appels) : appels'[i + 1] = appels[i]
      /\ \A i \in 1..Len(appels') : i = 1 \/ \E j \in 1..Len(appels) : i = j + 1 /\ appels'[i] = appels[j]
  BY LotPose DEF SpinPrincipal, SpinOnce, InvTravail, varsTopics
<1>2. Rpos' = Rpos /\ couleur_transportee' = couleur_transportee
  BY DEF SpinPrincipal, SpinOnce, PrendLot, varsMemoire
<1>3. 1 \in 1..Len(appels) => appels[1].op # "lot"
  <2>1. CASE appels = <<>>
    BY <2>1
  <2>2. CASE appels # <<>>
    <3>1. SpinOnce /\ Courant.attend # "" /\ Courant = appels[1] /\ EtapeJuste(Courant)
      BY <2>2, Tete DEF SpinOnce, SpinPrincipal, InvTypes
    <3>2. QED  BY <3>1 DEF EtapeJuste
  <2>3. QED  BY <2>1, <2>2
<1>4. Oisif' <=> Oisif
  <2>1. ASSUME Oisif PROVE Oisif'
    BY <1>1, <2>1 DEF Oisif, Travail
  <2>2. ASSUME Oisif' PROVE Oisif
    <3> SUFFICES ASSUME NEW i \in 1..Len(appels) PROVE ~Travail(appels[i])
      BY DEF Oisif
    <3>1. i + 1 \in 1..Len(appels') /\ appels'[i + 1] = appels[i]
      BY <1>1
    <3>2. QED  BY <2>2, <3>1 DEF Oisif, Travail
  <2>3. QED  BY <2>1, <2>2
<1>5. ASSUME NEW A, NEW B, Deroule(A, B)
      PROVE  Deroule(A, B)'
  <2> SUFFICES ASSUME NEW i \in 1..Len(appels')
               PROVE  \/ appels'[i].op = "lot" /\ (i = 1 \/ i = Len(appels'))
                      \/ /\ Travail(appels'[i])
                         /\ IF i = 1 \/ (i = 2 /\ appels'[1].op = "lot")
                            THEN Tenue(A, B, Len(appels') - i, appels'[i].op, appels'[i].pos, Rpos')
                            ELSE Intacte(A, B, Len(appels') - i, appels'[i].op, appels'[i].pos)
    BY DEF Deroule, AuTravail, Tenue, Intacte, Travail
  <2>1. CASE i = 1
    BY <1>1, <2>1
  <2>2. CASE i # 1
    <3>1. PICK j \in 1..Len(appels) : i = j + 1 /\ appels'[i] = appels[j]
      BY <1>1, <2>2
    <3>2. /\ Len(appels') - i = Len(appels) - j
          /\ i = 2 <=> j = 1
          /\ j = Len(appels) => i = Len(appels')
          /\ j = 1 => 1 \in 1..Len(appels)
      BY <1>1, <3>1
    <3>3. AuTravail(j) <=> j = 1
      BY <1>3, <3>1 DEF AuTravail
    <3>4. \/ appels[j].op = "lot" /\ j = Len(appels)
          \/ /\ Travail(appels[j])
             /\ IF j = 1 THEN Tenue(A, B, Len(appels) - j, appels[j].op, appels[j].pos, Rpos)
                ELSE Intacte(A, B, Len(appels) - j, appels[j].op, appels[j].pos)
      BY <1>3, <1>5, <3>1, <3>2, <3>3 DEF Deroule
    <3>5. QED  BY <1>1, <1>2, <2>2, <3>1, <3>2, <3>4
  <2>3. QED  BY <2>1, <2>2
<1>6. InvDeplacer'
  <2> SUFFICES ASSUME demandes = {"deplacer"}, SansOrdre
               PROVE  IF Oisif THEN Rpos.bas = 0 ELSE \E A, B \in Positions : Deroule(A, B)'
    BY <1>1, <1>2, <1>4 DEF InvDeplacer, SansOrdre
  <2>1. QED  BY <1>5 DEF InvMouvement, InvDeplacer
<1>7. PinceVide'
  <2> SUFFICES ASSUME couleur_transportee # SansCube
               PROVE  /\ demandes = {"deplacer"}
                      /\ \E i \in 1..Len(appels') :
                           /\ i = 1 \/ (i = 2 /\ appels'[1].op = "lot")
                           /\ Travail(appels'[i]) /\ Len(appels') - i \in 4..8
    BY <1>2 DEF PinceVide, AuTravail, Travail
  <2>1. PICK i \in 1..Len(appels) :
           AuTravail(i) /\ Travail(appels[i]) /\ Len(appels) - i \in 4..8
    BY DEF InvMouvement, PinceVide
  <2>2. i = 1 /\ 1 \in 1..Len(appels)
    BY <1>1, <1>3, <2>1 DEF AuTravail
  <2>3. 2 \in 1..Len(appels') /\ appels'[2] = appels[1] /\ Len(appels') - 2 = Len(appels) - 1
    <3>1. appels'[1 + 1] = appels[1]
      BY <1>1, <2>2
    <3>2. QED  BY <1>1, <2>2, <3>1
  <2>4. QED  BY <1>1, <2>1, <2>2, <2>3 DEF InvMouvement, PinceVide
<1>8. QED  BY <1>6, <1>7 DEF InvMouvement

LEMMA MouvementFinLot ==
    ASSUME InvTypes, InvTypes', InvTravail, InvMouvement, demandes' = demandes, FinLot
    PROVE  InvMouvement'
<1>1. /\ Len(appels) \in Nat /\ Len(appels') = Len(appels) - 1
      /\ appels[1].op = "lot" /\ entree' = entree
      /\ \A i \in 1..Len(appels') : i + 1 \in 1..Len(appels) /\ appels'[i] = appels[i + 1]
  BY FinLotSuite DEF InvTypes, varsTopics
<1>2. Rpos' = Rpos /\ couleur_transportee' = couleur_transportee
  BY DEF FinLot, varsMemoire
<1>3. Oisif' <=> Oisif
  <2>1. ASSUME Oisif PROVE Oisif'
    BY <1>1, <2>1 DEF Oisif, Travail
  <2>2. ASSUME Oisif' PROVE Oisif
    <3> SUFFICES ASSUME NEW i \in 1..Len(appels) PROVE ~Travail(appels[i])
      BY DEF Oisif
    <3>1. CASE i = 1
      BY <1>1, <3>1 DEF Travail
    <3>2. CASE i # 1
      <4>1. i - 1 \in 1..Len(appels') /\ (i - 1) + 1 = i
        BY <1>1, <3>2
      <4>2. appels'[i - 1] = appels[i]
        BY <1>1, <4>1
      <4>3. QED  BY <2>2, <4>1, <4>2 DEF Oisif, Travail
    <3>3. QED  BY <3>1, <3>2
  <2>3. QED  BY <2>1, <2>2
<1>4. ASSUME NEW A, NEW B, Deroule(A, B)
      PROVE  Deroule(A, B)'
  <2> SUFFICES ASSUME NEW i \in 1..Len(appels')
               PROVE  \/ appels'[i].op = "lot" /\ (i = 1 \/ i = Len(appels'))
                      \/ /\ Travail(appels'[i])
                         /\ IF i = 1 \/ (i = 2 /\ appels'[1].op = "lot")
                            THEN Tenue(A, B, Len(appels') - i, appels'[i].op, appels'[i].pos, Rpos')
                            ELSE Intacte(A, B, Len(appels') - i, appels'[i].op, appels'[i].pos)
    BY DEF Deroule, AuTravail, Tenue, Intacte, Travail
  <2> DEFINE j == i + 1
  <2>1. /\ j \in 1..Len(appels) /\ appels'[i] = appels[j] /\ j # 1
        /\ Len(appels') - i = Len(appels) - j
        /\ i = 1 <=> j = 2
        /\ j = Len(appels) => i = Len(appels')
    BY <1>1
  <2>2. AuTravail(j) <=> i = 1
    BY <1>1, <2>1 DEF AuTravail
  <2> HIDE DEF j
  <2>3. \/ appels[j].op = "lot" /\ j = Len(appels)
        \/ /\ Travail(appels[j])
           /\ IF i = 1 THEN Tenue(A, B, Len(appels) - j, appels[j].op, appels[j].pos, Rpos)
              ELSE Intacte(A, B, Len(appels) - j, appels[j].op, appels[j].pos)
    BY <1>4, <2>1, <2>2 DEF Deroule
  <2>4. i = 2 => appels'[1].op # "lot"
    <3> SUFFICES ASSUME i = 2, appels'[1].op = "lot" PROVE FALSE
      OBVIOUS
    <3>1. 2 \in 1..Len(appels) /\ 2 # Len(appels) /\ appels[2] = appels'[1]
      <4>1. Len(appels') >= 2
        BY <1>1
      <4>2. appels'[1] = appels[1 + 1]
        BY <1>1, <4>1
      <4>3. QED  BY <1>1, <4>1, <4>2
    <3>2. Travail(appels[2])
      <4>1. \A k \in 1..Len(appels) : k = 1 \/ k = Len(appels) \/ Travail(appels[k])
        BY <1>4 DEF Deroule
      <4>2. i \in 1..Len(appels) /\ i # 1 /\ i # Len(appels)
        BY <3>1
      <4>3. Travail(appels[i])
        BY <4>1, <4>2
      <4>4. QED  BY <4>3
    <3>3. QED  BY <3>1, <3>2 DEF Travail
  <2>5. QED  BY <1>1, <1>2, <2>1, <2>3, <2>4
<1>5. InvDeplacer'
  <2> SUFFICES ASSUME demandes = {"deplacer"}, SansOrdre
               PROVE  IF Oisif THEN Rpos.bas = 0 ELSE \E A, B \in Positions : Deroule(A, B)'
    BY <1>1, <1>2, <1>3 DEF InvDeplacer, SansOrdre
  <2>1. QED  BY <1>4 DEF InvMouvement, InvDeplacer
<1>6. PinceVide'
  <2> SUFFICES ASSUME couleur_transportee # SansCube
               PROVE  /\ demandes = {"deplacer"}
                      /\ \E i \in 1..Len(appels') :
                           /\ i = 1 \/ (i = 2 /\ appels'[1].op = "lot")
                           /\ Travail(appels'[i]) /\ Len(appels') - i \in 4..8
    BY <1>2 DEF PinceVide, AuTravail, Travail
  <2>1. PICK i \in 1..Len(appels) :
           AuTravail(i) /\ Travail(appels[i]) /\ Len(appels) - i \in 4..8
    BY DEF InvMouvement, PinceVide
  <2>2. i = 2
    BY <1>1, <2>1 DEF AuTravail, Travail
  <2>3. 1 \in 1..Len(appels') /\ Len(appels') - 1 = Len(appels) - 2
    BY <1>1, <2>1, <2>2
  <2>4. appels'[1] = appels[2]
    <3>1. appels'[1] = appels[1 + 1]
      BY <1>1, <2>3
    <3>2. QED  BY <3>1
  <2>5. QED  BY <2>1, <2>2, <2>3, <2>4 DEF InvMouvement, PinceVide
<1>7. QED  BY <1>5, <1>6 DEF InvMouvement

(* The callback of an order begins. *)
LEMMA MouvementOrdre ==
    ASSUME InvTypes, InvTypes', InvTravail, InvMouvement, OrdrePris, demandes' = demandes,
           CallbackOrdre
    PROVE  InvMouvement'
<1> DEFINE m == Head(entree)
           s == Callback(m)
<1>1. /\ lot > 0 /\ m.type = "ordre" /\ m \in OrdresPossibles
  BY CallbackOrdreSuite DEF InvTypes
<1>2. Oisif /\ demandes = {Genre(m)}
  BY <1>1, TeteOrdre
<1>3. /\ Len(appels') = Len(s) + Len(appels) /\ Len(appels) \in Nat
      /\ \A i \in 1..Len(s) : appels'[i] = s[i] /\ s[i].op \in Neuves
      /\ \A i \in 1..Len(appels') :
           \/ i \in 1..Len(s)
           \/ \E j \in 1..Len(appels) : i = j + Len(s) /\ appels'[i] = appels[j]
  BY PileOrdre
<1>4. Len(appels) = 1 /\ appels[1].op = "lot"
  <2>1. 1 \in 1..lot /\ entree[1] = m
    <3>1. lot \in Nat
      BY DEF InvTypes, TypesFiles
    <3>2. entree[1] = m
      BY <1>1, EntreeLue DEF InvTypes
    <3>3. QED  BY <1>1, <3>1, <3>2
  <2>2. QED  BY <1>1, <2>1 DEF OrdrePris
<1>5. couleur_transportee' = SansCube
  <2>1. couleur_transportee = SansCube
    BY <1>2 DEF InvMouvement, PinceVide, Oisif
  <2>2. QED  BY <2>1 DEF CallbackOrdre, varsMemoire
<1>6. PinceVide'
  BY <1>5 DEF PinceVide, SansCube
<1>7. ASSUME demandes = {"deplacer"}
      PROVE  ~Oisif' /\ \E A, B \in Positions : Deroule(A, B)'
  <2>1. m.ordre = "deplacer"
    BY <1>2, <1>7 DEF Genre
  <2>2. m.posA \in Positions /\ m.posB \in Positions /\ s = DeplacerPiece(m.posA, m.posB)
    BY <1>1, <2>1 DEF OrdresPossibles, Callback
  <2>3. PICK A \in Positions, B \in Positions :
           /\ Len(s) = 11
           /\ \A k \in 1..11 : Intacte(A, B, 12 - k, s[k].op, s[k].pos)
    BY <2>2, DeplacerPasAPas
  <2> HIDE DEF s
  <2>4. Len(appels') = 12
    BY <1>3, <1>4, <2>3
  <2>5. \A i \in 1..11 : i \in 1..Len(s) /\ appels'[i] = s[i] /\ Travail(appels'[i])
    BY <1>3, <2>3 DEF Neuves, Departs, Travail
  <2>6. ~Oisif'
    <3>1. 1 \in 1..Len(appels') /\ Travail(appels'[1])
      BY <2>4, <2>5
    <3>2. QED  BY <3>1 DEF Oisif, Travail
  <2>7. appels'[12].op = "lot"
    <3>1. 12 \in 1..Len(appels') /\ 12 \notin 1..Len(s)
      BY <2>3, <2>4
    <3>2. PICK j \in 1..Len(appels) : appels'[12] = appels[j]
      BY <1>3, <3>1
    <3>3. j = 1
      BY <1>4, <3>2
    <3>4. QED  BY <1>4, <3>2, <3>3
  <2>8. Deroule(A, B)'
    <3> SUFFICES ASSUME NEW i \in 1..12
                 PROVE  \/ appels'[i].op = "lot" /\ (i = 1 \/ i = 12)
                        \/ /\ Travail(appels'[i])
                           /\ IF i = 1 \/ (i = 2 /\ appels'[1].op = "lot")
                              THEN Tenue(A, B, 12 - i, appels'[i].op, appels'[i].pos, Rpos')
                              ELSE Intacte(A, B, 12 - i, appels'[i].op, appels'[i].pos)
      BY <2>4 DEF Deroule, AuTravail, Tenue, Intacte, Travail
    <3>1. CASE i = 1
      <4>1. Intacte(A, B, 11, appels'[1].op, appels'[1].pos)
        <5>1. 1 \in 1..11 /\ 12 - 1 = 11
          OBVIOUS
        <5>2. Intacte(A, B, 12 - 1, s[1].op, s[1].pos)
          BY <2>3, <5>1
        <5>3. QED  BY <2>5, <5>1, <5>2
      <4>2. Tenue(A, B, 11, appels'[1].op, appels'[1].pos, Rpos')
        BY <4>1 DEF Intacte, Tenue
      <4>3. QED  BY <2>5, <3>1, <4>2
    <3>2. CASE i \in 2..11
      <4>1. appels'[1].op # "lot"
        BY <2>5 DEF Travail
      <4>2. Intacte(A, B, 12 - i, appels'[i].op, appels'[i].pos) /\ Travail(appels'[i])
        BY <2>3, <2>5, <3>2
      <4>3. QED  BY <3>2, <4>1, <4>2
    <3>3. CASE i = 12
      BY <2>7, <3>3
    <3>4. QED  BY <3>1, <3>2, <3>3
  <2>9. QED  BY <2>6, <2>8
<1>8. InvDeplacer'
  BY <1>7 DEF InvDeplacer
<1>9. QED  BY <1>6, <1>8 DEF InvMouvement

(* What leaves the stack, the pose asked for and the gripper alone. *)
LEMMA MouvementGarde ==
    ASSUME InvTypes, InvMouvement, UNCHANGED <<appels, Rpos, couleur_transportee>>,
           demandes' = demandes, SansOrdre' => SansOrdre
    PROVE  InvMouvement'
<1>1. Oisif' <=> Oisif
  BY DEF Oisif, Travail
<1>2. InvDeplacer'
  <2>1. ASSUME NEW A, NEW B, Deroule(A, B) PROVE Deroule(A, B)'
    <3> SUFFICES ASSUME NEW i \in 1..Len(appels)
                 PROVE  \/ appels[i].op = "lot" /\ (i = 1 \/ i = Len(appels))
                        \/ /\ Travail(appels[i])
                           /\ IF AuTravail(i)
                              THEN Tenue(A, B, Len(appels) - i, appels[i].op, appels[i].pos, Rpos)
                              ELSE Intacte(A, B, Len(appels) - i, appels[i].op, appels[i].pos)
      BY DEF Deroule, AuTravail, Tenue, Intacte, Travail
    <3>1. QED  BY <2>1 DEF Deroule
  <2>2. QED  BY <1>1, <2>1 DEF InvMouvement, InvDeplacer
<1>3. PinceVide'
  BY DEF InvMouvement, PinceVide, SansCube, AuTravail, Travail
<1>4. QED  BY <1>2, <1>3 DEF InvMouvement

LEMMA MouvementRobot ==
    ASSUME InvTypes, InvTypes', InvTravail, InvAttentes, InvMouvement, OrdrePris, Robot
    PROVE  InvMouvement'
<1>1. RobotNext /\ demandes' = demandes
  BY DEF Robot
<1>2. CASE EnvoyerRobot \/ EnvoyerJoints \/ DescendreBras \/ MonterBras
  BY <1>1, <1>2, EffetsRpos, MouvementPoursuit
<1>3. CASE AutreSuite
  <2>1. Poursuit(Suivante)
    BY <1>3, SuitePoursuit
  <2>2. Courant = appels[1] /\ 1 \in 1..Len(appels)
    BY <2>1, Tete DEF InvTypes, Poursuit
  <2>3. couleur_transportee' = couleur_transportee
    BY <1>3, <2>2, Suites DEF Garde, InvAttentes
  <2>4. QED  BY <1>1, <1>3, <2>3, MouvementPoursuit
<1>4. CASE Update \/ UpdateHeure
  <2>1. demandes # {"deplacer"} /\ demandes' # {"deplacer"}
    <3>1. CASE Update
      <4>1. PICK p \in PositionsPoste : tache[p]
        BY <3>1 DEF Update
      <4>2. demandes = {TacheDe(p)}
        BY <4>1 DEF InvTravail, InvOrdre, TacheSeule
      <4>3. QED  BY <1>1, <4>2 DEF TacheDe
    <3>2. CASE UpdateHeure
      <4>1. Courant.op = "update" /\ appels # <<>>
        BY <3>2 DEF UpdateHeure, Recu, Actif, Courant
      <4>2. appels[1].op = "update" /\ 1 \in 1..Len(appels) /\ Travail(appels[1])
        BY <4>1, Tete DEF InvTypes, Travail
      <4>3. PICK g \in Genres : demandes = {g} /\ "update" \in OpsDe(g)
        BY <4>2 DEF InvTravail, InvEtapes, EtapesAttendues, EtapeDe
      <4>4. g # "deplacer"
        BY <4>3, OpsDuGenre
      <4>5. QED  BY <1>1, <4>3, <4>4
    <3>3. QED  BY <1>4, <3>1, <3>2
  <2>2. couleur_transportee' = couleur_transportee
    BY <1>4 DEF Update, UpdateHeure, varsMemoire
  <2>3. couleur_transportee' = SansCube
    BY <2>1, <2>2 DEF InvMouvement, PinceVide
  <2>4. QED  BY <2>1, <2>3 DEF InvMouvement, InvDeplacer, PinceVide, SansCube
<1>5. CASE CallbackReponse
  <2>1. /\ appels' = appels /\ lot > 0 /\ Head(entree).type = "reponse" /\ entree' = Tail(entree)
    BY <1>5, CallbackReponseSuite DEF InvTypes
  <2>2. /\ entree[1].type = "reponse" /\ Len(entree) \in Nat
        /\ Len(entree') = Len(entree) - 1
        /\ \A i \in 1..Len(entree') : entree'[i] = entree[i + 1]
    BY <2>1, EntreeLue DEF InvTypes
  <2>3. SansOrdre' => SansOrdre
    <3> SUFFICES ASSUME SansOrdre', NEW i \in 1..Len(entree) PROVE entree[i].type # "ordre"
      BY DEF SansOrdre
    <3>1. CASE i = 1
      BY <2>2, <3>1
    <3>2. CASE i # 1
      <4>1. i - 1 \in 1..Len(entree') /\ (i - 1) + 1 = i
        BY <2>2, <3>2
      <4>2. entree'[i - 1] = entree[i]
        BY <2>2, <4>1
      <4>3. QED  BY <4>1, <4>2 DEF SansOrdre
    <3>3. QED  BY <3>1, <3>2
  <2>4. Rpos' = Rpos /\ couleur_transportee' = couleur_transportee
    BY <1>5 DEF CallbackReponse, varsMemoire
  <2>5. QED  BY <1>1, <2>1, <2>3, <2>4, MouvementGarde
<1>6. QED
  BY <1>1, <1>2, <1>3, <1>4, <1>5, SortesDePas, MouvementFin, MouvementLot, MouvementFinLot,
     MouvementOrdre

LEMMA MouvementPas ==
    ASSUME UneALaFois, InvTypes, InvTypes', InvTravail, InvAttentes, InvMouvement, OrdrePris,
           DemandeSeule, [Next]_vars
    PROVE  InvMouvement'
<1>1. CASE Robot
  BY <1>1, MouvementRobot
<1>2. CASE Bras \/ Retour \/ (\E p \in PositionsNavette : Navette(p)) \/ UNCHANGED vars
  <2>1. UNCHANGED <<appels, Rpos, couleur_transportee, demandes, entree>>
    BY <1>2 DEF Bras, BrasBouge, Retour, RetourRobotCallback, Navette, NavetteBouge, vars,
                varsRobot, varsMemoire, varsTopics, varsMonde
  <2>2. SansOrdre' => SansOrdre
    BY <2>1 DEF SansOrdre
  <2>3. QED  BY <2>1, <2>2, MouvementGarde
<1>3. CASE \E c \in Canaux : Scene(c)
  <2>1. PICK c \in Canaux : Scene(c)
    BY <1>3
  <2>2. UNCHANGED <<appels, Rpos, couleur_transportee, demandes>>
    BY <2>1 DEF Scene, varsRobot, varsMemoire
  <2>3. SansOrdre' => SansOrdre
    <3>1. entree' = Append(entree, Reponse(c, requetes[c][1]))
      BY <2>1, TypesReponse
    <3>2. \A i \in 1..Len(entree) : i \in 1..Len(entree') /\ entree'[i] = entree[i]
      BY <3>1, EntreeAjoutee
    <3>3. QED  BY <3>2 DEF SansOrdre
  <2>4. QED  BY <2>2, <2>3, MouvementGarde
<1>4. CASE \E m \in UNION Programmes : DonneOrdre(m)
  <2>1. PICK m \in UNION Programmes : DonneOrdre(m)
    BY <1>4
  <2>2. demandes = {} /\ m.type = "ordre" /\ entree' = Append(entree, m)
        /\ couleur_transportee' = couleur_transportee
    BY <2>1, TravailDonneOrdre, TypesDonneOrdre DEF varsRobot, varsMemoire
  <2>3. couleur_transportee' = SansCube
    BY <2>2 DEF InvMouvement, PinceVide
  <2>4. ~SansOrdre'
    <3>1. Len(entree) + 1 \in 1..Len(entree') /\ entree'[Len(entree) + 1] = m
      BY <2>2, EntreeAjoutee
    <3>2. QED  BY <2>2, <3>1 DEF SansOrdre
  <2>5. QED  BY <2>3, <2>4 DEF InvMouvement, InvDeplacer, PinceVide, SansCube
<1>5. CASE \E k \in Genres : Constate(k)
  <2>1. PICK k \in Genres : Constate(k)
    BY <1>5
  <2>2. k \in demandes /\ demandes' = demandes \ {k} /\ couleur_transportee' = couleur_transportee
    BY <2>1 DEF Constate, varsRobot, varsMemoire
  <2>3. demandes = {k} /\ demandes' = {}
    BY <2>2 DEF DemandeSeule
  <2>4. couleur_transportee = SansCube
    <3> SUFFICES ASSUME couleur_transportee # SansCube PROVE FALSE
      OBVIOUS
    <3>1. k = "deplacer" /\ ~Oisif
      BY <2>3 DEF InvMouvement, PinceVide, Oisif
    <3>2. robotMacroDeplacement = 1
      BY <2>1, <3>1 DEF Constate, FinDeplacerPiece
    <3>3. ~Vacant /\ ~Initialise
      BY <2>3, <3>1 DEF Vacant, Initialise
    <3>4. EnCours("deplacer")
      BY <2>3, <3>1, <3>3 DEF InvTravail, InvFins, UnTravail, EnCours
    <3>5. QED  BY <3>2, <3>4 DEF EnCours, Signales, Signale
  <2>5. QED  BY <2>2, <2>3, <2>4 DEF InvMouvement, InvDeplacer, PinceVide, SansCube
<1>6. QED  BY <1>1, <1>2, <1>3, <1>4, <1>5 DEF Next

LEMMA OrdrePrisSansOrdre ==
    ASSUME \A i \in 1..lot' : entree'[i].type # "ordre"
    PROVE  OrdrePris'
BY DEF OrdrePris

LEMMA OrdrePrisRobot ==
    ASSUME InvTypes, InvTypes', InvTravail, OrdrePris, RobotNext
    PROVE  OrdrePris'
<1>1. ASSUME appels # <<>>, Courant.op # "lot", entree' = entree, lot' = lot
      PROVE  OrdrePris'
  <2>1. appels[1].op # "lot"
    BY <1>1, Tete DEF InvTypes
  <2>2. QED  BY <1>1, <2>1, OrdrePrisSansOrdre DEF OrdrePris
<1>2. CASE EnvoyerRobot \/ EnvoyerJoints \/ DescendreBras \/ MonterBras \/ AutreSuite
  BY <1>1, <1>2, SuitePoursuit DEF Poursuit
<1>3. CASE Fin
  BY <1>1, <1>3, Fins DEF Termine
<1>4. CASE SpinPrincipal \/ SpinOnce
  <2>1. /\ lot' = Len(entree) /\ entree' = entree
        /\ Len(appels) \in Nat /\ Len(appels') = Len(appels) + 1 /\ appels'[1].op = "lot"
    BY <1>4, LotPose DEF SpinPrincipal, SpinOnce, PrendLot, InvTravail, varsTopics
  <2>2. ASSUME NEW i \in 1..lot', entree'[i].type = "ordre"
        PROVE  Len(appels) = 0
    <3>1. Oisif
      BY <2>1, <2>2 DEF InvTravail, InvOrdre, OrdreEnRoute
    <3>2. ~SpinOnce
      <4>1. SUFFICES ASSUME SpinOnce PROVE FALSE
        OBVIOUS
      <4>2. /\ Courant.attend # "" /\ Courant = appels[1] /\ 1 \in 1..Len(appels)
            /\ EtapeJuste(Courant)
        BY <4>1, Tete DEF SpinOnce, InvTypes
      <4>3. Travail(appels[1])
        BY <4>2 DEF EtapeJuste, Travail
      <4>4. QED  BY <3>1, <4>2, <4>3 DEF Oisif
    <3>3. appels = <<>>
      BY <1>4, <3>2 DEF SpinPrincipal
    <3>4. QED  BY ONLY <3>3
  <2>3. QED  BY <2>1, <2>2 DEF OrdrePris
<1>5. CASE CallbackReponse \/ CallbackOrdre
  <2>1. lot > 0 /\ entree' = Tail(entree) /\ lot' = lot - 1
    BY <1>5, CallbackReponseSuite, CallbackOrdreSuite
       DEF InvTypes, CallbackReponse, CallbackOrdre
  <2>2. /\ lot \in Nat /\ Len(entree) \in Nat /\ lot <= Len(entree)
        /\ Len(entree') = Len(entree) - 1
        /\ \A i \in 1..Len(entree') : entree'[i] = entree[i + 1]
    <3>1. lot \in 0..Len(entree)
      BY DEF InvTypes, TypesFiles
    <3>2. QED  BY <2>1, <3>1, EntreeLue DEF InvTypes
  <2>3. \A i \in 1..lot' : i + 1 \in 1..lot /\ i \in 1..Len(entree') /\ entree'[i] = entree[i + 1]
    BY <2>1, <2>2
  <2>4. CASE CallbackReponse
    <3>1. appels' = appels
      BY <2>4, CallbackReponseSuite DEF InvTypes
    <3>2. QED  BY <2>3, <3>1 DEF OrdrePris
  <2>5. CASE CallbackOrdre
    <3>1. \A i \in 1..Len(entree') : entree'[i].type # "ordre"
      BY <2>1, <2>5, CallbackOrdreSuite, TeteOrdre DEF InvTypes
    <3>2. QED  BY <2>3, <3>1, OrdrePrisSansOrdre
  <2>6. QED  BY <1>5, <2>4, <2>5
<1>6. CASE FinLot
  <2>1. lot' = 0
    BY <1>6 DEF FinLot
  <2>2. QED  BY <2>1, OrdrePrisSansOrdre
<1>7. CASE Update
  <2>1. appels = <<>> /\ lot' = lot /\ entree' = entree
    BY <1>7 DEF Update, VarsSansFile
  <2>2. Len(appels) = 0
    BY ONLY <2>1
  <2>3. QED  BY <2>1, <2>2, OrdrePrisSansOrdre DEF OrdrePris
<1>8. CASE UpdateHeure
  <2>1. appels # <<>> /\ Courant.op = "update" /\ lot' = lot /\ entree' = entree
    BY <1>8 DEF UpdateHeure, Recu, Actif, Courant, varsTopics
  <2>2. QED  BY <1>1, <2>1
<1>9. QED
  BY <1>2, <1>3, <1>4, <1>5, <1>6, <1>7, <1>8, SortesDePas

LEMMA OrdresPas ==
    ASSUME UneALaFois, InvTypes, InvTypes', InvTravail, OrdrePris, DemandeSeule, [Next]_vars
    PROVE  OrdrePris' /\ DemandeSeule'
<1>1. OrdrePris'
  <2>1. CASE Robot
    BY <2>1, OrdrePrisRobot DEF Robot
  <2>2. CASE ~Robot
    <3>1. /\ UNCHANGED <<appels, lot>>
          /\ entree' = entree \/ \E x : entree' = Append(entree, x)
      <4>1. CASE Bras
        BY <4>1 DEF Bras, BrasBouge, varsRobot, varsTopics
      <4>2. CASE \E c \in Canaux : Scene(c)
        BY <4>2, TypesReponse DEF varsRobot
      <4>3. CASE ~Bras /\ ~\E c \in Canaux : Scene(c)
        BY <2>2, <4>3, HorsDuRobot DEF Next
      <4>4. QED  BY <4>1, <4>2, <4>3
    <3>2. lot \in 0..Len(entree) /\ \A i \in 1..Len(entree) : entree'[i] = entree[i]
      <4>1. lot \in 0..Len(entree)
        BY DEF InvTypes, TypesFiles
      <4>2. QED  BY <3>1, <4>1, EntreeAjoutee
    <3>3. \A i \in 1..lot : i \in 1..Len(entree)
      BY <3>2
    <3>4. QED  BY <3>1, <3>2, <3>3 DEF OrdrePris
  <2>3. QED  BY <2>1, <2>2
<1>2. DemandeSeule'
  <2>1. CASE \E m \in UNION Programmes : DonneOrdre(m)
    <3>1. PICK m \in UNION Programmes : DonneOrdre(m)
      BY <2>1
    <3>2. demandes = {} /\ Genre(m) \in Genres /\ demandes' = demandes \cup {Genre(m)}
      BY <3>1, TravailDonneOrdre, TypesDonneOrdre
    <3>3. demandes' = {Genre(m)}
      BY <3>2
    <3>4. QED  BY <3>2, <3>3 DEF DemandeSeule
  <2>2. CASE \E k \in Genres : Constate(k)
    <3>1. PICK k \in Genres : k \in demandes /\ demandes' = demandes \ {k}
      BY <2>2 DEF Constate
    <3>2. demandes' = {}
      BY <3>1 DEF DemandeSeule
    <3>3. QED  BY <3>2 DEF DemandeSeule
  <2>3. CASE ~(\E m \in UNION Programmes : DonneOrdre(m)) /\ ~(\E k \in Genres : Constate(k))
    <3>1. demandes' = demandes
      BY <2>3 DEF Next, Retour, Robot, Scene, Bras, Navette, vars
    <3>2. QED  BY <3>1 DEF DemandeSeule
  <2>4. QED  BY <2>1, <2>2, <2>3
<1>3. QED  BY <1>1, <1>2

-----------------------------------------------------------------------------
(* The inductive invariant. *)
InvRobot ==
    /\ Inv
    /\ InvVols /\ InvAttentes /\ InvBras
    /\ DemandeSeule /\ OrdrePris /\ InvMouvement

LEMMA RobotInit ==
    ASSUME Init, InvTypes
    PROVE  InvVols /\ InvAttentes /\ InvBras /\ DemandeSeule /\ OrdrePris /\ InvMouvement
<1> DEFINE e == Etape("init", 0, 0)
<1>1. Fiche(e, "init", 0, 0, "", <<>>, "")
  <2>1. "init" \in Ops /\ 0 \in 0..4 /\ 0 \in 0..10
    BY DEF Ops
  <2>2. QED  BY <2>1, Nouvelle
<1>2. e.op = "init" /\ e.attend = ""
  BY <1>1 DEF Fiche
<1>3. appels = <<e>> /\ lot = 0 /\ demandes = {}
  BY DEF Init, InitRobot
<1> HIDE DEF e
<1>4. \A i \in 1..Len(appels) : appels[i] = e
  BY ONLY <1>3
<1>5. /\ requetes = [c \in Canaux |-> <<>>] /\ entree = <<>>
      /\ \A c \in Canaux \ {"getTimeUpdate"} : ~rep[c]
      /\ Rpos = Pose(0, 0) /\ consigne = Pose(0, 0) /\ pose = Pose(0, 0)
      /\ couleur_transportee = SansCube
  BY DEF Init, InitTopics, InitRobot, InitSimulateur
<1>6. \A c : ~Repondue(c)
  BY <1>5 DEF Repondue
<1>7. InvVols
  <2>1. \A c \in Calmes : requetes[c] = <<>> /\ ~Repondue(c) /\ ~rep[c]
    BY <1>5, <1>6 DEF Calmes
  <2>2. \A c \in Calmes : Unique(c) /\ ~EnVol(c)
    BY <2>1 DEF Unique, EnVol, Repondue
  <2>3. QED  BY <2>2 DEF InvVols, Vol
<1>8. InvAttentes
  BY <1>2, <1>4 DEF InvAttentes, AttenteJuste, Peintures
<1>9. InvBras
  <2>1. requetes["setJointState"] = <<>> /\ ~rep["getJointState"]
    BY <1>5 DEF Canaux
  <2>2. QED  BY <1>5, <1>6, <2>1 DEF InvBras, ConsigneSuivie, SondeSuivie, BrasArrive, Repondue
<1>10. OrdrePris
  BY <1>3 DEF OrdrePris
<1>11. QED
  BY <1>3, <1>5, <1>7, <1>8, <1>9, <1>10 DEF DemandeSeule, InvMouvement, InvDeplacer, PinceVide

LEMMA RobotToujours == UneALaFois => (Spec => []InvRobot)
<1> SUFFICES ASSUME UneALaFois PROVE Spec => []InvRobot
  OBVIOUS
<1>1. Init => InvRobot
  BY TypesInit, TravailInit, QuestionsInit, RobotInit DEF InvRobot, Inv
<1>2. InvRobot /\ [Next]_vars => InvRobot'
  <2> SUFFICES ASSUME InvRobot, [Next]_vars PROVE InvRobot'
    OBVIOUS
  <2>1. InvTypes' /\ InvTravail' /\ InvQuestions'
    BY TypesPas, TravailPas, QuestionsPas DEF InvRobot, Inv
  <2>2. InvVols' /\ InvBras' /\ InvAttentes'
    BY <2>1, VolsPas, BrasPas DEF InvRobot, Inv
  <2>3. InvMouvement' /\ OrdrePris' /\ DemandeSeule'
    BY <2>1, MouvementPas, OrdresPas DEF InvRobot, Inv
  <2>4. QED  BY <2>1, <2>2, <2>3 DEF InvRobot, Inv
<1>3. QED  BY <1>1, <1>2, PTL DEF Spec

LEMMA BrasEnPlace ==
    ASSUME InvRobot
    PROVE  BrasSurPlace
<1> USE DEF InvRobot, Inv
<1> SUFFICES ASSUME NEW i \in DOMAIN appels,
                    appels[i].op \in {"lirePrise", "lirePose", "peindrePrise", "peindrePose"}
             PROVE  pose = Pose(appels[i].pos, 1)
  BY DEF BrasSurPlace
<1>1. i \in 1..Len(appels) /\ Travail(appels[i])
  BY DEF InvTypes, TypesFiles, Travail
<1>2. demandes = {"deplacer"}
  <2>1. PICK g \in Genres : demandes = {g} /\ appels[i].op \in OpsDe(g)
    BY <1>1 DEF InvTravail, InvEtapes, EtapesAttendues, EtapeDe
  <2>2. g = "deplacer"
    BY <2>1, OpsDuGenre DEF Genres
  <2>3. QED  BY <2>1, <2>2
<1>3. ~Oisif
  BY <1>1 DEF Oisif
<1>4. PICK A \in Positions, B \in Positions : Deroule(A, B)
  BY <1>2, <1>3, TravailDuDeplacer DEF InvMouvement
<1>5. AuTravail(i) /\ Tenue(A, B, Len(appels) - i, appels[i].op, appels[i].pos, Rpos)
  <2>1. ~Intacte(A, B, Len(appels) - i, appels[i].op, appels[i].pos)
    BY DEF Intacte
  <2>2. QED  BY <1>1, <1>4, <2>1 DEF Deroule, Travail
<1>6. Rpos = Pose(appels[i].pos, 1)
  BY <1>5 DEF Tenue
<1>7. Immobile
  <2> SUFFICES ASSUME NEW j \in 1..Len(appels), Mobile(appels[j]) PROVE FALSE
    BY DEF Immobile
  <2>1. ~AuTravail(j)
    <3>1. appels[j].op # "lot" /\ appels[i].op # "lot" /\ i # j
      BY DEF Mobile
    <3>2. QED  BY <1>5, <3>1 DEF AuTravail
  <2>2. Intacte(A, B, Len(appels) - j, appels[j].op, appels[j].pos)
    BY <1>4, <2>1 DEF Deroule, Mobile
  <2>3. QED  BY <2>2 DEF Intacte, Mobile
<1>8. QED  BY <1>6, <1>7 DEF InvBras, BrasArrive

LEMMA FinDuDeplacer ==
    ASSUME InvRobot
    PROVE  FinDeplacerExacte
<1> USE DEF InvRobot, Inv
<1> SUFFICES ASSUME "deplacer" \in demandes, robotMacroDeplacement = 1
             PROVE  couleur_transportee = SansCube /\ pose = Rpos /\ Rpos.bas = 0
  BY DEF FinDeplacerExacte, FinDeplacerPiece
<1>1. demandes = {"deplacer"}
  BY DEF DemandeSeule
<1>2. Vacant
  <2>1. ~Initialise
    BY <1>1 DEF Initialise
  <2>2. \A g \in Genres : ~EnCours(g)
    BY <1>1 DEF EnCours, Signales, Signale
  <2>3. QED  BY <2>1, <2>2 DEF InvTravail, InvFins, UnTravail
<1>3. Rpos.bas = 0
  BY <1>1, <1>2 DEF InvMouvement, InvDeplacer, Vacant
<1>4. couleur_transportee = SansCube
  BY <1>2 DEF InvMouvement, PinceVide, Vacant, Oisif
<1>5. pose = Rpos
  <2>1. Immobile
    BY <1>2 DEF Immobile, Mobile, Vacant, Oisif, Travail
  <2>2. QED  BY <2>1 DEF InvBras, BrasArrive
<1>6. QED  BY <1>3, <1>4, <1>5

(* When orders are given one at a time, whatever the programmes and the    *)
(* scene, the node reads a place and writes it with the arm lowered over   *)
(* that place: setJointState is polled until the pose read is the one      *)
(* asked for, and no other callback moves the arm meanwhile.               *)
THEOREM BrasToujoursSurPlace == UneALaFois => (Spec => []BrasSurPlace)
<1> SUFFICES ASSUME UneALaFois PROVE Spec => []BrasSurPlace
  OBVIOUS
<1>1. InvRobot => BrasSurPlace
  BY BrasEnPlace
<1>2. QED  BY <1>1, RobotToujours, PTL

(* When orders are given one at a time, the command that reads 1 from      *)
(* FinDeplacerPiece finds the gripper empty and the arm up, where it was   *)
(* asked to be: the return 10 is the last thing DeplacerPieceCallback does.*)
THEOREM FinDeplacerToujoursExacte == UneALaFois => (Spec => []FinDeplacerExacte)
<1> SUFFICES ASSUME UneALaFois PROVE Spec => []FinDeplacerExacte
  OBVIOUS
<1>1. InvRobot => FinDeplacerExacte
  BY FinDuDeplacer
<1>2. QED  BY <1>1, RobotToujours, PTL
=============================================================================
