---------------------------- MODULE MCProvisioning ----------------------------
(***************************************************************************)
(* Provisioning with the constants its configurations give it.  The        *)
(* credential ids are numbers because claims take the lowest id.           *)
(***************************************************************************)
EXTENDS Provisioning
=============================================================================
