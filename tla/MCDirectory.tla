---------------------------- MODULE MCDirectory -----------------------------
(***************************************************************************)
(* Instances of Directory for TLC.                                         *)
(***************************************************************************)
EXTENDS Directory, TLC

CONSTANTS b1, b2, b3, k1, t1, x1

\* An organization with a branch, a course, a teacher and no class.
Founded ==
    [x \in Item |-> IF x \in {b1, k1, t1} THEN [status |-> "ACTIVE", code |-> x1] ELSE NoItem]

Start(calls, overlap) ==
    [calls |-> calls, overlap |-> overlap, item |-> Founded,
     class |-> [c \in Class |-> NewClass]]

ClassKept == {<<"teacher", "status">>, <<"branch", "remove">>, <<"class", "remove">>,
              <<"class", "create">>, <<"class", "update">>}

\* What keeps classes and what they refer to together, one request at a time; with
\* overlaps, the endpoints that retire or assign, and those that delete; overlapping
\* writers of branch codes; the writers of all other items.
MCStarts ==
    {Start(ClassKept, FALSE),
     Start({<<"teacher", "status">>, <<"branch", "switch">>, <<"branch", "remove">>,
            <<"class", "create">>, <<"class", "duplicate">>}, TRUE),
     Start({<<"course", "update">>, <<"course", "remove">>, <<"class", "create">>}, TRUE),
     Start({"branch"} \X {"create", "update"}, TRUE),
     Start({"course", "teacher", "student"} \X {"create", "update", "status", "remove"}, FALSE)}

Symmetry == Permutations(Request) \cup Permutations(Class) \cup Permutations({b2, b3})

=============================================================================
