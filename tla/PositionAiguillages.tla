------------------------ MODULE PositionAiguillages -------------------------
(***************************************************************************)
(* What the command needs of a switch: once asked for a side it goes there *)
(* and stays there until it is asked again; it never moves by itself.      *)
(***************************************************************************)
CONSTANTS Aiguillages, AigInitial

VARIABLES cote,      \* side last asked for
          position   \* "D" or "G" on a stop, "M" in between

Init == cote = AigInitial /\ position = AigInitial

Demande(a) ==
    /\ position[a] = cote[a]
    /\ \E c \in {"D", "G"} : cote' = [cote EXCEPT ![a] = c]
    /\ UNCHANGED position

Quitte(a) ==
    /\ position[a] \notin {cote[a], "M"}
    /\ position' = [position EXCEPT ![a] = "M"]
    /\ UNCHANGED cote

Atteint(a) ==
    /\ position[a] = "M"
    /\ position' = [position EXCEPT ![a] = cote[a]]
    /\ UNCHANGED cote

Next == \E a \in Aiguillages : Demande(a) \/ Quitte(a) \/ Atteint(a)

Spec ==
    /\ Init
    /\ [][Next]_<<cote, position>>
    /\ \A a \in Aiguillages :
         WF_<<cote, position>>(Quitte(a)) /\ WF_<<cote, position>>(Atteint(a))
=============================================================================
