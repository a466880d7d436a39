---------------------------- MODULE MCOrderManager ----------------------------
(* OrderManager for TLC: the cfgs give its constants. *)
EXTENDS OrderManager
=============================================================================
