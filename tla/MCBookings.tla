----------------------------- MODULE MCBookings -----------------------------
(* Bookings on a small instance: the owner, one more user and guests, two   *)
(* requests at a time.                                                      *)
EXTENDS Bookings, TLC

Symmetry == Permutations(Slots) \union Permutations(Bookings) \union Permutations(Blocks)
=============================================================================
