--------------------------- MODULE MCHeaterControl ---------------------------
(***************************************************************************)
(* Temperatures and windows for HeaterControl.  Under the first window 33  *)
(* is too cold, 47 the middle temperature, and 55 is inside but above the  *)
(* rated temperature.  The second is inverted: 33 is below its lower bound *)
(* and above its upper one, 47 and 55 are above both.  The violation runs  *)
(* use the default window; -40, an open sensor, is below it.               *)
(***************************************************************************)
EXTENDS HeaterControl

MCWindows == {[min |-> 44, max |-> 55], [min |-> 40, max |-> 32]}
DefaultWindow == {[min |-> 30, max |-> 40]}
MCTemps == {33, 47, 55}
FewTemps == {-40, 37, 55}
MCGarbage == {0, 1, 2, 77}
NonMode == {77}

=============================================================================
