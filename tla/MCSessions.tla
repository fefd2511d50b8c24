----------------------------- MODULE MCSessions -----------------------------
(***************************************************************************)
(* Instances of SessionGeneration for TLC.                                 *)
(***************************************************************************)
EXTENDS SessionGeneration

\* Days 7 and 8 are of the weekdays 0 and 1.
TwoTimetables == {{1}, {0, 1}}

=============================================================================
