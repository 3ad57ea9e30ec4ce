------------------------------ MODULE MC_Ajout ------------------------------
(***************************************************************************)
(* The two additions of main_commande.cpp at its place 0, and the menu on  *)
(* one of the same posts.                                                  *)
(***************************************************************************)
EXTENDS AjoutJournalise

MCPostes == {3, 7}
MCProduits == {2, 6}
MCAjouts == << <<3, 2>>, <<7, 6>> >>
=============================================================================
