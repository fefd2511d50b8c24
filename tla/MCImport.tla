------------------------------ MODULE MCImport ------------------------------
(***************************************************************************)
(* Instances of ImportJob for TLC: the keys of the files.                  *)
(***************************************************************************)
EXTENDS ImportJob

\* Two files of different organizations with an email in common, which the
\* student file repeats.
Codes == [j \in Job |-> IF j \in Teachers THEN <<"t1", "t2">> ELSE <<"s1", "s2">>]
Emails == [j \in Job |-> IF j \in Teachers THEN <<"e1", "e2">> ELSE <<"e1", "e1">>]
Registers == [j \in Job |-> IF j \in Teachers THEN {"t1", "t2"} ELSE {"s1", "s2"}]
Keys == {"s1", "s2", "t1", "t2", "e1", "e2"}

=============================================================================
