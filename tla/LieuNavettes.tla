---------------------------- MODULE LieuNavettes ----------------------------
(***************************************************************************)
(* What the tracking promises its clients: every shuttle has one place; it *)
(* moves along the rails only, one section at a time; and it is given up   *)
(* (place -1) only with an error in the log, for good.                     *)
(***************************************************************************)
EXTENDS Reseau

VARIABLES lieu,    \* section of each shuttle, 0 before the start, -1 lost
          pertes   \* number of errors reported

Init == lieu = [n \in Navettes |-> 0] /\ pertes = 0

Demarre ==
    /\ \A n \in Navettes : lieu[n] = 0
    /\ lieu' \in [Navettes -> Troncons]
    /\ UNCHANGED pertes

Avance(n) ==
    /\ lieu[n] \in Troncons
    /\ \E s \in Successeurs(lieu[n]) : lieu' = [lieu EXCEPT ![n] = s]
    /\ UNCHANGED pertes

Perd(n) ==
    /\ lieu[n] \in Troncons
    /\ lieu' = [lieu EXCEPT ![n] = -1]
    /\ pertes' = pertes + 1

Next == Demarre \/ \E n \in Navettes : Avance(n) \/ Perd(n)

Spec == Init /\ [][Next]_<<lieu, pertes>>
=============================================================================
