----------------------------- MODULE MCMapPage -----------------------------
(* The map of one page, for TLC: at one point a group of two layers and the *)
(* control zones hold up to two features each, at the other only the first  *)
(* group holds one.                                                         *)
EXTENDS MapPage

CONSTANTS p1, p2, parks, homes, ctr

F(l, r) == [layer |-> l, readable |-> r]

Bulk == {<<>>, <<F(homes, FALSE)>>, <<F(parks, TRUE), F(parks, TRUE)>>,
         <<F(parks, FALSE), F(parks, TRUE)>>, <<F(parks, TRUE), F(homes, TRUE)>>}
Airspace == {<<>>, <<F(ctr, TRUE), F(ctr, TRUE)>>}

MCWorld == {[p \in {p1, p2} |-> IF p = p1 THEN <<b, a>> ELSE <<<<F(homes, TRUE)>>, <<>>>>] :
              b \in Bulk, a \in Airspace}
=============================================================================
