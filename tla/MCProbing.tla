------------------------------- MODULE MCProbing -------------------------------
(* Members a and b of one federation, or of two, that expect each other at      *)
(* ports either may have taken.                                                 *)
EXTENDS Probing

CONSTANTS a, b, e1, e2, f1, f2

OneOrTwo  == {[m \in Members |-> f1], [m \in Members |-> IF m = a THEN f1 ELSE f2]}
PairLists == [m \in Members |-> IF m = a THEN {<<[member |-> b, endpoint |-> e2]>>}
                                ELSE {<<[member |-> a, endpoint |-> e1]>>}]
================================================================================
