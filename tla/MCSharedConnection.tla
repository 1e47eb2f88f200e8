------------------------- MODULE MCSharedConnection -------------------------
(* Instances of SharedConnection for TLC. *)
EXTENDS SharedConnection, TLC

CONSTANTS a1, a2, a3
=============================================================================
