--------------------------- MODULE DatabaseUpgrade ---------------------------
(***************************************************************************)
(* What an upgrade of the database promises: the rows that can be read     *)
(* only grow, and the version changes once, with all of them.              *)
(***************************************************************************)
CONSTANT Rows

VARIABLES version, rows

Init == version = 3 /\ rows = {}

Put == /\ \E r \in Rows : rows' = rows \cup {r}
       /\ UNCHANGED version

Upgrade == /\ version = 3 /\ version' = 4
           /\ UNCHANGED rows

Next == Put \/ Upgrade

Spec == Init /\ [][Next]_<<version, rows>>
=============================================================================
