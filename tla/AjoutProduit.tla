---------------------------- MODULE AjoutProduit ----------------------------
(***************************************************************************)
(* commande_locale puts a product on a post: it asks the scene for the     *)
(* first cube, reports the product it is about to overwrite, then has the  *)
(* cubes changed.  Two threads of the node call spinOnce, the menu and the *)
(* spinner; addProduct is run by the menu or by the service srv_add_product*)
(* in whichever thread treats the request, and waits in a spinOnce of its  *)
(* own, so that a request of the net may be treated inside the wait of the *)
(* menu.  The two requests and the two flags are shared, without a lock.   *)
(***************************************************************************)
EXTENDS Integers, Sequences, SequencesExt

CONSTANTS Postes,   \* posts where products are added
          Produits  \* products, 1..6

ASSUME AjoutAssumption == Postes \subseteq 1..8 /\ Produits \subseteq 1..6

VARIABLES
    fils,                 \* stack of the calls of addProduct of each thread
    msgSim_getColor,      \* post of the question, written before it is published
    msgSim_changeColor,   \* post and product of the order, likewise
    repSim_getColor, valueSim_getColor, repSim_changeColor,
    demandesCouleur, reponsesCouleur,  \* GetColor of the scene and its answers
    demandesChange, reponsesChange,    \* ChangeColor, and its answers (a number)
    requete,              \* request of srv_add_product not yet treated, or Rien
    poste,                \* first product of each post in the scene, 0 for none
    erreurs,              \* messages 66 for the log, per post
    ecrases,              \* products really overwritten, per post
    arrets                \* orders StopTache: robot and position

varsPont == <<fils, msgSim_getColor, msgSim_changeColor, repSim_getColor,
              valueSim_getColor, repSim_changeColor, requete, erreurs, arrets>>
varsScene == <<demandesCouleur, reponsesCouleur, demandesChange, reponsesChange,
               poste, ecrases>>

Fils == {"menu", "spinner"}
Rien == <<>>
Attentes == {"attendCouleur", "attendChange"}
Etapes == {"question", "demandeCouleur", "lire", "ordre", "demandeChange"} \cup Attentes

Appel(p, q, o) == [poste |-> p, produit |-> q, origine |-> o, etape |-> "question"]

InitPont ==
    /\ fils = [t \in Fils |-> <<>>]
    /\ msgSim_getColor = 0
    /\ msgSim_changeColor = <<0, 0>>
    /\ repSim_getColor = FALSE /\ valueSim_getColor = 0
    /\ repSim_changeColor = FALSE
    /\ requete = Rien
    /\ erreurs = [p \in Postes |-> 0]
    /\ arrets = {}

InitScene ==
    /\ demandesCouleur = <<>> /\ reponsesCouleur = <<>>
    /\ demandesChange = <<>> /\ reponsesChange = 0
    /\ poste = [p \in Postes |-> 0]
    /\ ecrases = [p \in Postes |-> 0]
-----------------------------------------------------------------------------
(* The call that a thread is running. *)
Dans(t, etape) == fils[t] # <<>> /\ Last(fils[t]).etape = etape
Passe(t, etape) == fils' = [fils EXCEPT ![t] = Append(Front(@), [Last(@) EXCEPT !.etape = etape])]
Entre(t, appel) == fils' = [fils EXCEPT ![t] = Append(@, appel)]

(* robot and position of a post, for StopTache. *)
computeNumRobotPosteTache(p) ==
    << <<1, 4>>, <<1, 1>>, <<2, 1>>, <<2, 4>>, <<3, 4>>, <<3, 1>>, <<4, 1>>, <<4, 4>> >>[p]

Question(t) ==
    /\ Dans(t, "question")
    /\ msgSim_getColor' = Last(fils[t]).poste
    /\ Passe(t, "demandeCouleur")
    /\ UNCHANGED <<varsScene, msgSim_changeColor, repSim_getColor, valueSim_getColor,
                   repSim_changeColor, requete, erreurs, arrets>>

DemandeCouleur(t) ==
    /\ Dans(t, "demandeCouleur")
    /\ demandesCouleur' = Append(demandesCouleur, msgSim_getColor)
    /\ Passe(t, "attendCouleur")
    /\ UNCHANGED <<reponsesCouleur, demandesChange, reponsesChange, poste, ecrases,
                   msgSim_getColor, msgSim_changeColor, repSim_getColor,
                   valueSim_getColor, repSim_changeColor, requete, erreurs, arrets>>

(* Mutant: the flag is not lowered when the wait ends. *)
CouleurArriveeLevee(t) ==
    /\ Dans(t, "attendCouleur")
    /\ repSim_getColor
    /\ Passe(t, "lire")
    /\ UNCHANGED <<varsScene, msgSim_getColor, msgSim_changeColor, repSim_getColor,
                   valueSim_getColor, repSim_changeColor, requete, erreurs, arrets>>

CouleurArrivee(t) ==
    /\ Dans(t, "attendCouleur")
    /\ repSim_getColor
    /\ repSim_getColor' = FALSE
    /\ Passe(t, "lire")
    /\ UNCHANGED <<varsScene, msgSim_getColor, msgSim_changeColor,
                   valueSim_getColor, repSim_changeColor, requete, erreurs, arrets>>

Lire(t) ==
    /\ Dans(t, "lire")
    /\ LET p == Last(fils[t]).poste IN
       IF valueSim_getColor # 0
       THEN /\ erreurs' = [erreurs EXCEPT ![p] = @ + 1]
            /\ arrets' = arrets \cup {computeNumRobotPosteTache(p)}
       ELSE UNCHANGED <<erreurs, arrets>>
    /\ Passe(t, "ordre")
    /\ UNCHANGED <<varsScene, msgSim_getColor, msgSim_changeColor, repSim_getColor,
                   valueSim_getColor, repSim_changeColor, requete>>

OrdreChange(t) ==
    /\ Dans(t, "ordre")
    /\ msgSim_changeColor' = <<Last(fils[t]).poste, Last(fils[t]).produit>>
    /\ Passe(t, "demandeChange")
    /\ UNCHANGED <<varsScene, msgSim_getColor, repSim_getColor, valueSim_getColor,
                   repSim_changeColor, requete, erreurs, arrets>>

DemandeChange(t) ==
    /\ Dans(t, "demandeChange")
    /\ demandesChange' = Append(demandesChange, msgSim_changeColor)
    /\ Passe(t, "attendChange")
    /\ UNCHANGED <<demandesCouleur, reponsesCouleur, reponsesChange, poste, ecrases,
                   msgSim_getColor, msgSim_changeColor, repSim_getColor,
                   valueSim_getColor, repSim_changeColor, requete, erreurs, arrets>>

(* addProduct returns to the menu or to the service. *)
ChangeArrive(t) ==
    /\ Dans(t, "attendChange")
    /\ repSim_changeColor
    /\ repSim_changeColor' = FALSE
    /\ fils' = [fils EXCEPT ![t] = Front(@)]
    /\ UNCHANGED <<varsScene, msgSim_getColor, msgSim_changeColor, repSim_getColor,
                   valueSim_getColor, requete, erreurs, arrets>>

AddProductEtape(t) ==
    \/ Question(t) \/ DemandeCouleur(t) \/ CouleurArrivee(t)
    \/ Lire(t) \/ OrdreChange(t) \/ DemandeChange(t)
-----------------------------------------------------------------------------
(* A thread in spinOnce: the spinner between two calls, or in a wait; the  *)
(* menu in a wait or at the end of its turn ("tourMenu").                  *)
EnSpin(t, tourMenu) ==
    \/ Dans(t, "attendCouleur") \/ Dans(t, "attendChange")
    \/ fils[t] = <<>> /\ (t = "spinner" \/ tourMenu)

simGetColorCallback ==
    /\ reponsesCouleur # <<>>
    /\ valueSim_getColor' = Head(reponsesCouleur)
    /\ repSim_getColor' = TRUE
    /\ reponsesCouleur' = Tail(reponsesCouleur)
    /\ UNCHANGED <<fils, msgSim_getColor, msgSim_changeColor, repSim_changeColor, requete,
                   erreurs, arrets, demandesCouleur, demandesChange, reponsesChange,
                   poste, ecrases>>

simChangeColorCallback ==
    /\ reponsesChange > 0
    /\ repSim_changeColor' = TRUE
    /\ reponsesChange' = reponsesChange - 1
    /\ UNCHANGED <<fils, msgSim_getColor, msgSim_changeColor, repSim_getColor,
                   valueSim_getColor, requete, erreurs, arrets, demandesCouleur,
                   reponsesCouleur, demandesChange, poste, ecrases>>

(* Mutants: the post and the product are swapped; there is no spinner. *)
AddProductInverse(t) ==
    /\ requete # Rien
    /\ Entre(t, Appel(requete[2], requete[1], "service"))
    /\ requete' = Rien
    /\ UNCHANGED <<varsScene, msgSim_getColor, msgSim_changeColor, repSim_getColor,
                   valueSim_getColor, repSim_changeColor, erreurs, arrets>>

AddProductMenu(t) ==
    /\ t = "menu"
    /\ requete # Rien
    /\ Entre(t, Appel(requete[1], requete[2], "service"))
    /\ requete' = Rien
    /\ UNCHANGED <<varsScene, msgSim_getColor, msgSim_changeColor, repSim_getColor,
                   valueSim_getColor, repSim_changeColor, erreurs, arrets>>

AddProduct(t) ==
    /\ requete # Rien
    /\ Entre(t, Appel(requete[1], requete[2], "service"))
    /\ requete' = Rien
    /\ UNCHANGED <<varsScene, msgSim_getColor, msgSim_changeColor, repSim_getColor,
                   valueSim_getColor, repSim_changeColor, erreurs, arrets>>
-----------------------------------------------------------------------------
(* The scene. *)
RepondCouleur ==
    /\ demandesCouleur # <<>>
    /\ reponsesCouleur' = Append(reponsesCouleur, poste[Head(demandesCouleur)])
    /\ demandesCouleur' = Tail(demandesCouleur)
    /\ UNCHANGED <<varsPont, demandesChange, reponsesChange, poste, ecrases>>

RepondChange ==
    /\ demandesChange # <<>>
    /\ LET p == Head(demandesChange)[1] IN
       /\ ecrases' = [ecrases EXCEPT ![p] = IF poste[p] # 0 THEN @ + 1 ELSE @]
       /\ poste' = [poste EXCEPT ![p] = Head(demandesChange)[2]]
    /\ demandesChange' = Tail(demandesChange)
    /\ reponsesChange' = reponsesChange + 1
    /\ UNCHANGED <<varsPont, demandesCouleur, reponsesCouleur>>

(* A robot takes the product of a post. *)
Retire(p) ==
    /\ poste[p] # 0
    /\ poste' = [poste EXCEPT ![p] = 0]
    /\ UNCHANGED <<varsPont, demandesCouleur, reponsesCouleur, demandesChange,
                   reponsesChange, ecrases>>
=============================================================================
