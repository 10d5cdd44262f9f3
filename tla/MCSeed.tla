-------------------------------- MODULE MCSeed --------------------------------
(* Instances of Seed for TLC. *)
EXTENDS Seed
=============================================================================
