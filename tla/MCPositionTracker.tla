-------------------------- MODULE MCPositionTracker --------------------------
(* Instances of PositionTracker for TLC. *)
EXTENDS PositionTracker
=============================================================================
