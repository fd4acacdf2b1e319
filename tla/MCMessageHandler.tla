--------------------------- MODULE MCMessageHandler ---------------------------
(***************************************************************************)
(* Two callers with a request code each, and a code nobody asked for.      *)
(***************************************************************************)
EXTENDS MessageHandler

TwoSenders == {"reset", "format"}
ThreeCodes == {1, 2, 3}
OwnCode == [s \in TwoSenders |-> IF s = "reset" THEN 1 ELSE 2]

=============================================================================
