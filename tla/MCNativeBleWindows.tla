------------------------- MODULE MCNativeBleWindows -------------------------
(* Instances of NativeBleWindows for TLC. *)
EXTENDS NativeBleWindows

(* "a1:b" and, for the run of the finding, "A1:b". *)
LowerCase == {<<97, 49, 58, 98>>}
MixedCase == {<<65, 49, 58, 98>>}
===============================================================================
