-------------------------- MODULE MCAuthorization ---------------------------
(***************************************************************************)
(* Instances of Authorization for TLC.                                     *)
(***************************************************************************)
EXTENDS Authorization, TLC

Symmetry == Permutations(Seeder) \cup Permutations(Request) \cup Permutations(Account)

=============================================================================
