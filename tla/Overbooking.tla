---------------------------- MODULE Overbooking -----------------------------
(***************************************************************************)
(* What overlapping requests leave of the capacity of a class.  Each step  *)
(* is one of Roster; two history variables, which no step depends on,      *)
(* remember what overlapped.                                               *)
(***************************************************************************)
EXTENDS Roster

VARIABLES
    overlapped,     \* the requests whose class others wrote since they read it
    peak            \* the largest capacity a class has had since it was quiet

history == <<overlapped, peak>>

\* Request r works on class c, and has read something of it.
WorksOn(r, c) == pc[r] \notin {"idle", "error"} /\ loc[r].cls = c
HasRead(r) == pc[r] \notin {"idle", "error", "class"}

\* By how many students a class is over its capacity, if positive.
Excess(c) == Cardinality(Active(c)) - class[c].capacity

Quiet(c) == \A r \in Request : ~WorksOn(r, c)

Writes(c) == class'[c] # class[c] \/ enrollment'[c] # enrollment[c]

\* A request that is answered is forgotten.
RememberOverlaps ==
    overlapped' = {r \in Request :
        /\ HasRead(r) /\ HasRead(r)'
        /\ r \in overlapped \/ Writes(loc[r].cls)}

\* A class that is within its capacity, and that nobody works on, starts anew.
RememberPeak ==
    peak' = [c \in Class |->
        IF (Quiet(c) /\ Excess(c) <= 0)' \/ class'[c].capacity > peak[c]
        THEN class'[c].capacity
        ELSE peak[c]]

OverlapInit ==
    /\ Init
    /\ overlapped = {}
    /\ peak = [c \in Class |-> class[c].capacity]

OverlapNext == Next /\ RememberOverlaps /\ RememberPeak

OverlapSpec == OverlapInit /\ [][OverlapNext]_<<vars, history>>

----------------------------------------------------------------------------
(* Properties *)

\* A class is taken over its capacity, or further over it, only by a request
\* whose class another request wrote after it had read it: the checks of
\* create, updateStatus and update are enough for whoever is not overlapped,
\* whatever the others do, be it that students enter or that the capacity is
\* lowered.
OverbookedByOverlap ==
    [][\A c \in Class :
         Excess(c)' > 0 /\ Excess(c)' > Excess(c)
           => \E r \in overlapped : WorksOn(r, c) /\ pc'[r] # pc[r]]_<<vars, history>>

\* Overlapping requests overbook a class by less than their number: of the
\* seats it has had since it was last quiet and not overbooked, one must have
\* been free when the last student was let in, and besides that student only
\* those of the other requests can have been on their way.
OverbookingBounded ==
    \A c \in Class : Cardinality(Active(c)) < peak[c] + Cardinality(Request)

=============================================================================
