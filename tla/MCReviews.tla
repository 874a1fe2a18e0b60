------------------------------ MODULE MCReviews ------------------------------
(* Reviews on a small instance: two reviewers, the provider and an           *)
(* administrator, two requests at a time.                                    *)
EXTENDS Reviews, TLC

Symmetry == Permutations(Slots) \union Permutations(Reviews)
=============================================================================
