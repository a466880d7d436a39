----------------------------- MODULE MCTrendHistory -----------------------------
(* The history is the beginning of a rise.                                     *)
EXTENDS TrendHistory

R(h, l) == [high |-> h, low |-> l]
MCRanges == {R(2, 1), R(3, 2), R(4, 3)}
MCHistory == <<R(2, 1), R(2, 1), R(2, 1), R(3, 2), R(3, 2)>>
=============================================================================
