----------------------------- MODULE MCDelivery -----------------------------
(* Instances of Delivery for TLC. *)
EXTENDS Delivery, TLC

CONSTANTS d1, d2, u1, u2, u3, v1, o1

(* Three facts of one document, one of another, and an observation. *)
TwoDocuments == u1 :> d1 @@ u2 :> d1 @@ u3 :> d1 @@ v1 :> d2 @@ o1 :> None

FactSymmetry == Permutations({u1, u2, u3})
=============================================================================
