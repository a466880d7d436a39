--------------------------- MODULE MCShadowRunner ---------------------------
(* ShadowRunner for TLC: the cfgs give its constants, a day scaled down to   *)
(* four session bars, with the window and the gate's minimum scaled alike.   *)
EXTENDS ShadowRunner
=============================================================================
