------------------------------ MODULE Cellule -------------------------------
(***************************************************************************)
(* The tables of main_ShuttleManager.cpp for the real cell: 24 sections    *)
(* that end at the stop sensors PS1..PS24, then 10 that end at CP1..CP10,  *)
(* and 12 switches.                                                        *)
(***************************************************************************)
EXTENDS Integers, Sequences, FiniteSets

CP(i) == i + 24

(* Row t: switch after the section, successor on its right stop, on its    *)
(* left stop.                                                              *)
liste_file ==
    << <<1, CP(1), CP(2)>>,    <<0, 3, 3>>,            <<0, 5, 5>>,
       <<2, 0, 6>>,            <<2, 6, 0>>,            <<3, CP(3), 20>>,
       <<4, 8, 0>>,            <<5, CP(4), CP(5)>>,    <<0, 10, 10>>,
       <<0, 12, 12>>,          <<6, 0, 13>>,           <<6, 13, 0>>,
       <<7, CP(6), CP(7)>>,    <<0, 15, 15>>,          <<0, 17, 17>>,
       <<8, 0, 18>>,           <<8, 18, 0>>,           <<9, CP(8), 8>>,
       <<10, 20, 0>>,          <<11, CP(9), CP(10)>>,  <<0, 22, 22>>,
       <<0, 24, 24>>,          <<12, 0, 1>>,           <<12, 1, 0>>,
       <<0, 2, 2>>,            <<0, 4, 4>>,            <<0, 7, 7>>,
       <<0, 9, 9>>,            <<0, 11, 11>>,          <<0, 14, 14>>,
       <<0, 16, 16>>,          <<0, 19, 19>>,          <<0, 21, 21>>,
       <<0, 23, 23>> >>

TronconsCellule == DOMAIN liste_file
AiguillagesCellule == 1..12
IdAiguillageCellule == [t \in TronconsCellule |-> liste_file[t][1]]

(* Mutant: row 1 with CP1 on both stops.                                   *)
GaucheLigne1 == [t \in TronconsCellule |-> IF t = 1 THEN CP(1) ELSE liste_file[t][3]]

DroiteCellule == [t \in TronconsCellule |-> liste_file[t][2]]
GaucheCellule == [t \in TronconsCellule |-> liste_file[t][3]]

(* The queues for n shuttles: 0 before PS3, 1..3 before PS19, 4 and 5      *)
(* before PS7; more than 6 would not be followed.                          *)
FilesAuDemarrage(n) ==
    [t \in TronconsCellule |->
       CASE t = 3  -> SelectSeq(<<0>>, LAMBDA i : i < n)
         [] t = 19 -> SelectSeq(<<1, 2, 3>>, LAMBDA i : i < n)
         [] t = 7  -> SelectSeq(<<4, 5>>, LAMBDA i : i < n)
         [] OTHER  -> <<>>]

(* Mutant: robot 3 counted from section 13.                                *)
NumCapteurDecale(robot, position) ==
    CASE robot = 1 -> 19 + position
      [] robot = 2 -> position
      [] robot = 3 -> 13 + position
      [] robot = 4 -> 7 + position

(* shuttle_at_poste: the section of place 2 and of place 3 of each robot. *)
NumCapteur(robot, position) ==
    CASE robot = 1 -> 19 + position
      [] robot = 2 -> position
      [] robot = 3 -> 12 + position
      [] robot = 4 -> 7 + position
=============================================================================
