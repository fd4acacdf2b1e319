---------------------------- MODULE MCConfigFile ----------------------------
(***************************************************************************)
(* Two components that store one value each in the configuration file, in  *)
(* a process that does not die: the smallest instance that shows what      *)
(* overlapping calls of ini_puts() do.                                     *)
(***************************************************************************)
EXTENDS ConfigFile

CONSTANTS i1, i2, i3, i4, i5

TwoComponents == {"vis", "ptz"}
FiveInodes == {i1, i2, i3, i4, i5}
SameWidth == [v \in IniValues |-> 1]

=============================================================================
