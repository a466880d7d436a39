-------------------------------- MODULE MCBridge --------------------------------
(* Two models of one account: one places and watches orders, the other handles *)
(* the position it has.                                                        *)
EXTENDS Bridge

CONSTANTS m1, m2
MCCallers == {m1, m2}
MCWants(c) ==
  IF c = m1 THEN {"pending", "orders", "cancel", "market"}
  ELSE {"modify", "partial", "close", "history", "query"}
=============================================================================
