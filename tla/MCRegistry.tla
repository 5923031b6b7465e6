------------------------------ MODULE MCRegistry ------------------------------
(* Model-checking instance of Registry: three devices, the third with the   *)
(* name of the first; the second has a point of the name of one of the     *)
(* first device's two.                                                     *)
EXTENDS Registry

CONSTANTS one, two, a, b, c

SharedName == <<one, two, one>>
SharedPoint == <<<<a, b>>, <<b>>, <<c>>>>
=============================================================================
