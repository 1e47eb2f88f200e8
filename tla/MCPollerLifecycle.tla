-------------------------- MODULE MCPollerLifecycle -------------------------
(* Instances of PollerLifecycle for TLC. *)
EXTENDS PollerLifecycle

CONSTANTS x1, x2, u1, u2
=============================================================================
