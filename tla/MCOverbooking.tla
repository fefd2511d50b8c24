--------------------------- MODULE MCOverbooking ----------------------------
(***************************************************************************)
(* Instances of Overbooking for TLC.                                       *)
(***************************************************************************)
EXTENDS Overbooking, TLC

\* Students and request slots are interchangeable, also in what a step may do.
Symmetry == Permutations(Student) \cup Permutations(Request)

=============================================================================
