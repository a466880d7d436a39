--------------------------- MODULE MCDayOrchestrator ---------------------------
(* Bars are <<high, low, close>>.  The morning (bars 0 to 4) confirms a swing *)
(* high and a swing low at bar 2; bar 5 raids the low; the bars after it are  *)
(* free: a raid, a wide raid, a bar without range, two breakouts and a dip.   *)
(* A down day is the mirror image of an up day.                               *)
EXTENDS DayOrchestrator

Quiet == <<6, 4, 4>>
Morning == <<Quiet, Quiet, <<8, 2, 4>>, Quiet, Quiet>>
Raiding == {<<4, 0, 2>>, <<16, 0, 10>>}
Free == Raiding \cup {<<6, 6, 6>>, <<12, 8, 10>>, <<14, 10, 12>>, <<12, 4, 6>>}

Closing == <<16, 0, 10>>

BarOf(s) == [high |-> s[1], low |-> s[2], close |-> s[3]]
MirrorOf(s) == [high |-> 20 - s[2], low |-> 20 - s[1], close |-> 20 - s[3]]

MCMarket(t, i) ==
  LET shapes == CASE i < 5 -> {Morning[i + 1]}
                  [] i = 5 -> Raiding
                  [] i > 5 /\ IsSessionBar(i) -> Free
                  [] OTHER -> {Closing}
  IN  {IF t = "up" THEN BarOf(s) ELSE MirrorOf(s) : s \in shapes}
=============================================================================
