------------------------------- MODULE Registry ------------------------------
(***************************************************************************)
(* What CSimpleSvr's table of clients promises: who joins gets a number    *)
(* nobody had before, and is a member under it until it leaves.            *)
(***************************************************************************)
EXTENDS Naturals

VARIABLES members,  \* the numbers in use
          used      \* how many have been given out

Init == members = {} /\ used = 0

Join == members' = members \cup {used} /\ used' = used + 1

Leave == /\ \E i \in members : members' = members \ {i}
         /\ UNCHANGED used

Spec == Init /\ [][Join \/ Leave]_<<members, used>>
=============================================================================
