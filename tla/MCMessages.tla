----------------------------- MODULE MCMessages -----------------------------
(* Messages on a small instance: three users, so that one is a stranger to a  *)
(* conversation, two conversations and two requests at a time.               *)
EXTENDS Messages, TLC

Symmetry == Permutations(Users) \union Permutations(Conversations) \union Permutations(Slots)
=============================================================================
