---------------------------- MODULE DetectService ----------------------------
(***************************************************************************)
(* What the gas detection pipeline promises about a frame, and nothing     *)
(* about how: a frame offered by a camera is refused or accepted on the    *)
(* spot, and an accepted frame ends in one of two ways, once: its result   *)
(* is reported, or it is lost because memory or the NPU failed.  Frames    *)
(* may overtake each other.                                                *)
(***************************************************************************)
CONSTANT Frames

VARIABLE fate   (* what has become of each frame *)

Fates == {"new", "refused", "accepted", "reported", "lost"}

Init == fate = [f \in Frames |-> "new"]

Refuse(f) == fate[f] = "new"      /\ fate' = [fate EXCEPT ![f] = "refused"]
Accept(f) == fate[f] = "new"      /\ fate' = [fate EXCEPT ![f] = "accepted"]
Report(f) == fate[f] = "accepted" /\ fate' = [fate EXCEPT ![f] = "reported"]
Lose(f)   == fate[f] = "accepted" /\ fate' = [fate EXCEPT ![f] = "lost"]

Next == \E f \in Frames : Refuse(f) \/ Accept(f) \/ Report(f) \/ Lose(f)

Spec == Init /\ [][Next]_fate

=============================================================================
