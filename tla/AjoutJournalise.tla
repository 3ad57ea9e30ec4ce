-------------------------- MODULE AjoutJournalise ---------------------------
(***************************************************************************)
(* Products added by the net and by the menu at the same time, the marks   *)
(* they become, and the lines of the log.  The menu waits for the service  *)
(* of the command, and the command for the service of commande_locale;     *)
(* both tell the log.  The rest of the net is one action: a robot takes a  *)
(* marked product, which later leaves the cell.                            *)
(***************************************************************************)
EXTENDS AjoutProduit, Journal

CONSTANTS
    AjoutsDuNet,  \* posts and products of AjouterProduit, in order
    Un,           \* TRUE: one addProduct at a time
    MaxMenu       \* bound: products added by the menu

ASSUME AjoutJournaliseAssumption ==
    /\ AjoutsDuNet \in Seq(Postes \X Produits)
    /\ Un \in BOOLEAN /\ Cadence \in BOOLEAN
    /\ MaxMenu \in Nat

VARIABLES
    menu,               \* "choix", "produit", "push", "spin"
    nbMenu,
    requetePush,        \* request of srv_add_product_push_back, or Rien
    cmd,                \* "libre", "attend" the service, "journal"
    reste,              \* products the net has still to add
    produit_a_ajouter,  \* codes waiting for the net
    M,                  \* marks 500 + code
    publies             \* history: messages for the log, per line

varsCommande == <<menu, nbMenu, requetePush, cmd, reste, produit_a_ajouter, M, publies>>
vars == <<varsPont, varsScene, varsJournal, varsCommande>>

Codes == Postes \X Produits
Lignes == {NouveauProduit(q) : q \in Produits} \cup {Sortie(q) : q \in Produits}

Nombre(s, x) == Cardinality({i \in DOMAIN s : s[i] = x})

Init ==
    /\ InitPont /\ InitScene /\ InitJournal
    /\ menu = "choix" /\ nbMenu = 0 /\ requetePush = Rien
    /\ cmd = "libre" /\ reste = AjoutsDuNet /\ produit_a_ajouter = <<>>
    /\ M = [c \in Codes |-> 0]
    /\ publies = [l \in Lignes |-> 0]

(* publish on a topic of the log manager. *)
Publie(ligne) ==
    /\ Cadence => fileAjout = <<>> /\ fileEvac = <<>>
    /\ publies' = [publies EXCEPT ![ligne] = @ + 1]
    /\ IF ligne[1] = "Sortie"
       THEN fileEvac' = Recoit(ligne) /\ UNCHANGED fileAjout
       ELSE fileAjout' = Recoit(ligne) /\ UNCHANGED fileEvac
    /\ UNCHANGED <<pile, repSim_getTime, demandesTemps, reponsesTemps, monFlux>>
-----------------------------------------------------------------------------
(* Choice 1 of the menu: the log, then the product. *)
MenuAjoute(p, q) ==
    /\ menu = "choix" /\ nbMenu < MaxMenu
    /\ Un => cmd # "attend"
    /\ Publie(NouveauProduit(q))
    /\ Entre("menu", Appel(p, q, "menu"))
    /\ menu' = "produit"
    /\ nbMenu' = nbMenu + 1
    /\ UNCHANGED <<varsScene, msgSim_getColor, msgSim_changeColor, repSim_getColor,
                   valueSim_getColor, repSim_changeColor, requete, erreurs, arrets,
                   requetePush, cmd, reste, produit_a_ajouter, M>>

(* addProduct returns: the menu calls the command, the service answers it. *)
FinAjout(t) ==
    /\ ChangeArrive(t)
    /\ LET a == Last(fils[t]) IN
       IF a.origine = "menu"
       THEN /\ menu' = "push"
            /\ requetePush' = <<a.poste, a.produit>>
            /\ UNCHANGED cmd
       ELSE /\ cmd' = "journal"
            /\ UNCHANGED <<menu, requetePush>>
    /\ UNCHANGED <<varsJournal, nbMenu, reste, produit_a_ajouter, M, publies>>

(* The spinOnce at the end of a turn of the menu is over. *)
MenuTour ==
    /\ menu = "spin" /\ fils["menu"] = <<>>
    /\ menu' = "choix"
    /\ UNCHANGED <<varsPont, varsScene, varsJournal, nbMenu, requetePush, cmd, reste,
                   produit_a_ajouter, M, publies>>

(* AjouterProduit: the service, which blocks the command; then the log and *)
(* the code.                                                               *)
AjouterProduit ==
    /\ cmd = "libre" /\ reste # <<>>
    /\ Un => menu # "produit"
    /\ requete' = Head(reste)
    /\ cmd' = "attend"
    /\ UNCHANGED <<fils, msgSim_getColor, msgSim_changeColor, repSim_getColor,
                   valueSim_getColor, repSim_changeColor, erreurs, arrets, varsScene,
                   varsJournal, menu, nbMenu, requetePush, reste, produit_a_ajouter,
                   M, publies>>

AjouterProduitSuite ==
    /\ cmd = "journal"
    /\ Publie(NouveauProduit(Head(reste)[2]))
    /\ produit_a_ajouter' = Append(produit_a_ajouter, Head(reste))
    /\ reste' = Tail(reste)
    /\ cmd' = "libre"
    /\ UNCHANGED <<varsPont, varsScene, menu, nbMenu, requetePush, M>>

(* The command treats the request of the menu when it spins. *)
ProductAddPushBack ==
    /\ cmd = "libre" /\ requetePush # Rien
    /\ produit_a_ajouter' = Append(produit_a_ajouter, requetePush)
    /\ requetePush' = Rien
    /\ menu' = "spin"
    /\ UNCHANGED <<varsPont, varsScene, varsJournal, nbMenu, cmd, reste, M, publies>>

(* Mutant: "if" for "while", the rest forgotten. *)
MarqueProduitsUn ==
    /\ cmd = "libre" /\ produit_a_ajouter # <<>>
    /\ M' = [M EXCEPT ![Last(produit_a_ajouter)] = @ + 1]
    /\ produit_a_ajouter' = <<>>
    /\ UNCHANGED <<varsPont, varsScene, varsJournal, menu, nbMenu, requetePush, cmd,
                   reste, publies>>

(* AjoutProduitEnAttente until it returns -1. *)
MarqueProduits ==
    /\ cmd = "libre" /\ produit_a_ajouter # <<>>
    /\ M' = [c \in Codes |-> M[c] + Nombre(produit_a_ajouter, c)]
    /\ produit_a_ajouter' = <<>>
    /\ UNCHANGED <<varsPont, varsScene, varsJournal, menu, nbMenu, requetePush, cmd,
                   reste, publies>>

(* A product leaves the cell, long after its line of the log was due. *)
Evacue(c) ==
    /\ M[c] > 0 /\ poste[c[1]] = c[2]
    /\ Pose
    /\ Retire(c[1])
    /\ M' = [M EXCEPT ![c] = @ - 1]
    /\ Publie(Sortie(c[2]))
    /\ UNCHANGED <<menu, nbMenu, requetePush, cmd, reste, produit_a_ajouter>>
-----------------------------------------------------------------------------
Etape(t) == AddProductEtape(t) /\ UNCHANGED <<varsJournal, varsCommande>>

Callback(t) ==
    /\ EnSpin(t, menu = "spin")
    /\ simGetColorCallback \/ simChangeColorCallback \/ AddProduct(t)
    /\ UNCHANGED <<varsJournal, varsCommande>>

SceneRepond ==
    /\ RepondCouleur \/ RepondChange
    /\ UNCHANGED <<varsJournal, varsCommande>>

Log == LogManager /\ UNCHANGED <<varsPont, varsScene, varsCommande>>
LogTemps == RepondTemps /\ UNCHANGED <<varsPont, varsScene, varsCommande>>

Commande == AjouterProduit \/ AjouterProduitSuite \/ ProductAddPushBack \/ MarqueProduits

Next ==
    \/ \E c \in Codes : MenuAjoute(c[1], c[2]) \/ Evacue(c)
    \/ \E t \in Fils : Etape(t) \/ Callback(t) \/ FinAjout(t)
    \/ MenuTour
    \/ SceneRepond
    \/ Log
    \/ LogTemps
    \/ Commande

Spec == Init /\ [][Next]_vars

(* Every thread and process goes on, and the simulator answers. *)
FairSpec ==
    /\ Spec
    /\ \A t \in Fils : WF_vars(Etape(t) \/ FinAjout(t))
    /\ WF_vars(\E t \in Fils : Callback(t))
    /\ WF_vars(MenuTour)
    /\ WF_vars(SceneRepond)
    /\ WF_vars(Commande)
    /\ WF_vars(Log)
    /\ WF_vars(LogTemps)
-----------------------------------------------------------------------------
AppelType == [poste : Postes, produit : Produits, origine : {"menu", "service"},
              etape : Etapes]

TypeOK ==
    /\ \A t \in Fils : \A i \in DOMAIN fils[t] : fils[t][i] \in AppelType
    /\ valueSim_getColor \in Produits \cup {0}
    /\ poste \in [Postes -> Produits \cup {0}]
    /\ requete \in Codes \cup {Rien} /\ requetePush \in Codes \cup {Rien}
    /\ menu \in {"choix", "produit", "push", "spin"}
    /\ cmd \in {"libre", "attend", "journal"}
    /\ M \in [Codes -> Nat]
    /\ \A i \in DOMAIN monFlux : monFlux[i] \in Lignes
    /\ fileAjout \in {<<>>} \cup {<<NouveauProduit(q)>> : q \in Produits}

(* A product overwritten by an addition was reported to the log, and the   *)
(* robot that FaireTache would send to that post told to stop.             *)
RobotEtPosition ==
    << <<1, 4>>, <<1, 1>>, <<2, 1>>, <<2, 4>>, <<3, 4>>, <<3, 1>>, <<4, 1>>, <<4, 4>> >>

EcrasementSignale ==
    \A p \in Postes :
        /\ ecrases[p] <= erreurs[p]
        /\ ecrases[p] > 0 => RobotEtPosition[p] \in arrets

(* A post has no more marks than products put there, and once everything   *)
(* is treated just as many: those overwritten are marks without a product. *)
Somme(f) == f[1] + f[2] + f[3] + f[4] + f[5] + f[6]  \* over the products, 1..6
Marques(p) == Somme([q \in 1..6 |-> IF q \in Produits THEN M[<<p, q>>] ELSE 0])
AuRepos ==
    /\ menu # "produit" /\ requetePush = Rien
    /\ cmd = "libre" /\ produit_a_ajouter = <<>>

MarquesSuivies ==
    \A p \in Postes :
        LET mis == (IF poste[p] # 0 THEN 1 ELSE 0) + ecrases[p] IN
        /\ Marques(p) <= mis
        /\ AuRepos => Marques(p) = mis

(* No line of the log is lost: every message is a line, or will be one, as *)
(* every callback that waits has an answer to come.                        *)
JournalExact ==
    /\ \A l \in Lignes :
         publies[l] = Nombre(monFlux, l) + Nombre(pile, l)
                      + Nombre(fileAjout, l) + Nombre(fileEvac, l)
    /\ Len(pile) <= demandesTemps + reponsesTemps + (IF repSim_getTime THEN 1 ELSE 0)

(* checker.py: "impossible d'avoir dans le log plus de "Sortie" que de     *)
(* "NouveauProduit"".                                                      *)
PasPlusDeSorties ==
    \A q \in Produits : Nombre(monFlux, Sortie(q)) <= Nombre(monFlux, NouveauProduit(q))

(* Every addition ends, although the menu waits for the command and the    *)
(* command for the node of the menu.                                       *)
ToutAjoutFinit ==
    []<>(/\ menu = "choix" /\ cmd = "libre" /\ requete = Rien
         /\ \A t \in Fils : fils[t] = <<>>)
=============================================================================
