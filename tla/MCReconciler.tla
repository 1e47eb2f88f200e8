---------------------------- MODULE MCReconciler ----------------------------
(* Instances of Reconciler for TLC. *)
EXTENDS Reconciler, TLC

CONSTANTS b1, b2, u1, u2, c1, c2, t1, t2, d1

(* All units belong to one document. *)
OneDocument == [k \in Key |-> d1]

(* A changed text is listed at a later time; the units tie. *)
LaterWhenChanged == [k \in Key |-> [c \in Content |-> IF c = c1 THEN 1 ELSE 2]]

UnitSymmetry == Permutations(Unit)
DeliverySymmetry == Permutations(Bank) \cup Permutations(Thread)
=============================================================================
