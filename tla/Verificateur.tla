---------------------------- MODULE Verificateur ----------------------------
(***************************************************************************)
(* checker.py: the log of a simulation compared with the configuration.    *)
(* A row of the configuration is a record of a product, its destinations,  *)
(* the times there and how many are ordered.  The lines of the log, reduced*)
(* to the digits the checker reads, are in two parts that it never relates:*)
(* "log", the entries and exits of the products in order, and "tempo", the *)
(* posts and times of the tasks done on each product, in order.            *)
(***************************************************************************)
EXTENDS Integers, Sequences, FiniteSets

MAX_TACHES == 5

NouveauProduit(q) == [ID |-> "NouveauProduit", P |-> q, D |-> <<>>]
(* Only the first four cubes of the product reach the log. *)
Sortie(q, postes) ==
    [ID |-> "Sortie", P |-> q,
     D |-> [i \in 1..3 |-> IF i <= Len(postes) THEN postes[i] ELSE 0]]

(* The configuration is refused as a whole. *)
erreur_config(conf) ==
    \E i \in DOMAIN conf :
        \/ conf[i].produit \notin 1..6
        \/ \E j \in DOMAIN conf[i].destinations : conf[i].destinations[j] \notin 1..8
        \/ Len(conf[i].destinations) > MAX_TACHES
        \/ Len(conf[i].destinations) # Len(conf[i].durees)

Rangs(conf, P) == {i \in DOMAIN conf : conf[i].produit = P}
Completees(D) == [i \in 1..MAX_TACHES |-> IF i <= Len(D) THEN D[i] ELSE 0]
Dernier(I) == CHOOSE i \in I : \A j \in I : j <= i

nb_produit(conf, P) ==
    IF Rangs(conf, P) = {} THEN 0 ELSE conf[Dernier(Rangs(conf, P))].commande
(* A row of the same product writes over the one before, without clearing it. *)
production(conf, P) ==
    [j \in 1..MAX_TACHES |->
        LET I == {i \in Rangs(conf, P) : j <= Len(conf[i].destinations)}
        IN  IF I = {} THEN 0 ELSE conf[Dernier(I)].destinations[j]]

(* The time of a destination that comes twice is that of the last one. *)
temps(conf, P, p) ==
    LET I == {x \in (DOMAIN conf) \X (1..MAX_TACHES) :
                /\ conf[x[1]].produit = P /\ x[2] <= Len(conf[x[1]].destinations)
                /\ conf[x[1]].destinations[x[2]] = p}
    IN  IF I = {} THEN 0
        ELSE LET k == CHOOSE x \in I : \A y \in I : 10 * y[1] + y[2] <= 10 * x[1] + x[2]
             IN  conf[k[1]].durees[k[2]]

Lignes(log, ID, P) == {i \in DOMAIN log : log[i].ID = ID /\ log[i].P = P}
TachesDe(tempo, P, p) == {i \in DOMAIN tempo[P] : tempo[P][i][1] = p}

(* Of the times of a task on a product the last one is kept. *)
temps_log(tempo, P, p) ==
    LET I == TachesDe(tempo, P, p) IN IF I = {} THEN 0 ELSE tempo[P][Dernier(I)][2]

(* An index out of range ends the checker: more exits of a product than    *)
(* entries, or a line "Sortie" after an empty one, whose three zeros were  *)
(* not cleared.                                                            *)
Interrompu(log) ==
    \E i \in DOMAIN log :
        /\ log[i].ID = "Sortie"
        /\ \/ /\ log[i].P # 0
              /\ Cardinality({j \in Lignes(log, "Sortie", log[i].P) : j <= i})
                   > Cardinality({j \in Lignes(log, "NouveauProduit", log[i].P) : j < i})
           \/ \E j \in Lignes(log, "Sortie", 0) : j < i

(* The complaints that make the test fail.  "erreurs" are the errors that  *)
(* the nodes sent to the log; the checker has no case for a product taken  *)
(* from a post at work.  An empty evacuation is reported when the last of  *)
(* the six products is not in the configuration (nb_produit[-1]).          *)
Verdict(conf, log, tempo, erreurs) ==
    IF erreur_config(conf) THEN {<<"config">>}
    ELSE IF Interrompu(log) THEN {<<"IndexError">>}
    ELSE {<<"erreur", e>> :
            e \in erreurs \cap {"poste vide", "produit plein", "ecrasement", "perte navette"}}
      \cup {<<"enchainement", log[i].P>> :
              i \in {k \in DOMAIN log :
                       /\ log[k].ID = "Sortie" /\ log[k].P # 0
                       /\ Cardinality({j \in Lignes(log, "Sortie", log[k].P) : j <= k})
                            <= nb_produit(conf, log[k].P)
                       /\ Completees(log[k].D) # production(conf, log[k].P)}}
      \cup {<<"vide">> : i \in {k \in Lignes(log, "Sortie", 0) : nb_produit(conf, 6) = 0}}
      \cup {<<"duree", x[1], x[2]>> :
              x \in {y \in (1..6) \X (1..8) :
                       /\ nb_produit(conf, y[1]) # 0
                       /\ temps(conf, y[1], y[2]) # 0
                       /\ temps(conf, y[1], y[2]) # temps_log(tempo, y[1], y[2])}}
      \cup {<<"apparitions", P>> :
              P \in {Q \in 1..6 : nb_produit(conf, Q)
                                    # Cardinality(Lignes(log, "NouveauProduit", Q))}}
      \cup {<<"sorties", P>> :
              P \in {Q \in 1..6 : /\ nb_produit(conf, Q) # 0
                                  /\ nb_produit(conf, Q)
                                       # Cardinality(Lignes(log, "Sortie", Q))}}

(* ProductConfiguration.config. *)
ProductConfiguration ==
    << [produit |-> 2, destinations |-> <<1, 4>>, durees |-> <<4, 5>>, commande |-> 1],
       [produit |-> 6, destinations |-> <<7, 6, 5>>, durees |-> <<3, 6, 3>>, commande |-> 1] >>
=============================================================================
