---------------------------- MODULE MCScheduling ----------------------------
(***************************************************************************)
(* Instances of Scheduling for TLC.                                        *)
(***************************************************************************)
EXTENDS Scheduling, TLC

Sized(S, n) == {T \in SUBSET S : Cardinality(T) = n}

\* The loads with so many requests, classes, teachers and rows.
LoadsOf(requests, classes, teachers, slots, minutes, bulk) ==
    [requests: Sized(Request, requests), classes: Sized(Class, classes),
     teachers: Sized(Teacher, teachers), slots: Sized(Slot, slots),
     minutes: {minutes}, bulk: {bulk}]

\* One request at a time on two classes and two teachers, and two overlapping
\* requests on one class.
MCLoads ==
    LoadsOf(1, 2, 2, 3, {0, 1, 2}, 2) \cup LoadsOf(2, 1, 1, 2, {0, 1}, 1)

\* Requests, classes, teachers and rows are interchangeable.
Symmetry ==
    Permutations(Request) \cup Permutations(Class)
      \cup Permutations(Teacher) \cup Permutations(Slot)

=============================================================================
