---------------------------- MODULE MCFoodMirror ----------------------------
(* FoodMirror for TLC. *)
EXTENDS FoodMirror

CONSTANTS f1, f2, n1, n2, u1, u2, c1, s1, s2, r1, r2
=============================================================================
