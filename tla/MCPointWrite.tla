----------------------------- MODULE MCPointWrite -----------------------------
(***************************************************************************)
(* Model-checking instances of PointWrite: bytes of 2 values, integers of  *)
(* 4, 8 and 16, counted in quarters, with numbers at both ends of each of  *)
(* the six types and just beyond, and halves between them.  A float32      *)
(* expresses neither some of the halves nor the numbers furthest out.      *)
(***************************************************************************)
EXTENDS PointWrite

Ends == {-9, -8, -5, -4, -3, -2, -1, 0, 1, 2, 3, 4, 7, 8, 15, 16}
EndsAndHalves == {4 * n : n \in Ends} \cup {-6, -2, 2, 6, 62}
SingleFloats == {4 * n : n \in Ends \ {-9, 7, 16}} \cup {-2, 2}
HalfOneTwo == {2, 4, 8}
ThreeOrders == {"swap", "", "other"}
=============================================================================
