------------------------------- MODULE Journal ------------------------------
(***************************************************************************)
(* The log manager.  A line about a product carries the time of the        *)
(* simulation: its callback asks for it and waits in a spinOnce of its own,*)
(* with one flag for all the questions.  Each topic keeps one message.     *)
(***************************************************************************)
EXTENDS Integers, Sequences, SequencesExt

CONSTANT Cadence  \* TRUE: two messages never ask for the time in the same
                  \* step of the simulation

VARIABLES
    fileAjout,      \* /commande_locale/AddProduct: at most one message
    fileEvac,       \* /commande/Simulation/produitEvac: at most one message
    pile,           \* lines of the callbacks that wait for the time
    repSim_getTime,
    demandesTemps, reponsesTemps,  \* GetTime of the scene and its answers
    monFlux         \* lines written

varsJournal == <<fileAjout, fileEvac, pile, repSim_getTime, demandesTemps,
                 reponsesTemps, monFlux>>

NouveauProduit(q) == <<"NouveauProduit", q>>
Sortie(q) == <<"Sortie", q>>

InitJournal ==
    /\ fileAjout = <<>> /\ fileEvac = <<>>
    /\ pile = <<>>
    /\ repSim_getTime = FALSE
    /\ demandesTemps = 0 /\ reponsesTemps = 0
    /\ monFlux = <<>>

(* A queue of size one: the message that is not read yet is lost. *)
Recoit(ligne) == <<ligne>>

(* No message is on its way, and the simulator has answered. *)
Pose ==
    /\ fileAjout = <<>> /\ fileEvac = <<>>
    /\ demandesTemps = 0 /\ reponsesTemps = 0 /\ ~repSim_getTime

(* Mutant: no question while another callback waits. *)
NewProductCallbackSansDemande ==
    /\ fileAjout # <<>>
    /\ pile' = Append(pile, Head(fileAjout))
    /\ fileAjout' = <<>>
    /\ demandesTemps' = IF pile = <<>> THEN demandesTemps + 1 ELSE demandesTemps
    /\ UNCHANGED <<fileEvac, repSim_getTime, reponsesTemps, monFlux>>

(* The beginning of NewProductCallback and of ProduitEvacCallback, in the  *)
(* main loop or in the wait of another one.                                *)
NewProductCallback ==
    /\ fileAjout # <<>>
    /\ pile' = Append(pile, Head(fileAjout))
    /\ fileAjout' = <<>>
    /\ demandesTemps' = demandesTemps + 1
    /\ UNCHANGED <<fileEvac, repSim_getTime, reponsesTemps, monFlux>>

ProduitEvacCallback ==
    /\ fileEvac # <<>>
    /\ pile' = Append(pile, Head(fileEvac))
    /\ fileEvac' = <<>>
    /\ demandesTemps' = demandesTemps + 1
    /\ UNCHANGED <<fileAjout, repSim_getTime, reponsesTemps, monFlux>>

getTimeCallback ==
    /\ reponsesTemps > 0
    /\ repSim_getTime' = TRUE
    /\ reponsesTemps' = reponsesTemps - 1
    /\ UNCHANGED <<fileAjout, fileEvac, pile, demandesTemps, monFlux>>

(* The innermost wait sees the flag first and writes its line. *)
EcritLigne ==
    /\ pile # <<>> /\ repSim_getTime
    /\ repSim_getTime' = FALSE
    /\ monFlux' = Append(monFlux, Last(pile))
    /\ pile' = Front(pile)
    /\ UNCHANGED <<fileAjout, fileEvac, demandesTemps, reponsesTemps>>

RepondTemps ==
    /\ demandesTemps > 0
    /\ Cadence => reponsesTemps = 0 /\ ~repSim_getTime
    /\ demandesTemps' = demandesTemps - 1
    /\ reponsesTemps' = reponsesTemps + 1
    /\ UNCHANGED <<fileAjout, fileEvac, pile, repSim_getTime, monFlux>>

LogManager == NewProductCallback \/ ProduitEvacCallback \/ getTimeCallback \/ EcritLigne
=============================================================================
