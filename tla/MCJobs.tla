------------------------------- MODULE MCJobs -------------------------------
(* Jobs on a small instance: one job, a client, a provider with a profile    *)
(* and an administrator, two requests at a time.                             *)
EXTENDS Jobs, TLC

Symmetry == Permutations(Slots) \union Permutations(Profiles)
=============================================================================
