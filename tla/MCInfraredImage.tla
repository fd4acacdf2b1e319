--------------------------- MODULE MCInfraredImage ---------------------------
(***************************************************************************)
(* Settings for InfraredImage, one of each kind that matters to a run.     *)
(* The values are tenths: 1, the default, with 1.5, or with 2 and 2.5.     *)
(***************************************************************************)
EXTENDS InfraredImage

EveryKind == {"zoom", "saturation", "pal"}
BrightnessAndZoom == {"brightness", "zoom"}
ZoomOnly == {"zoom"}
TwoValues == {10, 15}
ThreeValues == {10, 20, 25}

\* No step depends on the camera, and the properties about the file only ask
\* what a call of this run has set it to: one start of it is enough for them.
\* Only the zoom takes a broken value.
IsWhole(s, v) == v \in Values => ReadBack("zoom", v) = v \/ s = "zoom"
WholeSettings == \A s \in Settings : IsWhole(s, member[s]) /\ IsWhole(s, ini[s])
StoreInit == Init /\ camera = [s \in Settings |-> Default] /\ WholeSettings
StoreNext ==
  /\ Next
  /\ restarts' # restarts => UNCHANGED camera
  /\ WholeSettings' /\ IsWhole(held'.setting, held'.value)
StoreSpec == StoreInit /\ [][StoreNext]_vars /\ WF_vars(Work) /\ WF_vars(Load)

=============================================================================
