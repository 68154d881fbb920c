-------------------------- MODULE ReadThroughCache --------------------------
(***************************************************************************)
(* What a builder's own cache promises: an ActionCache whose writers       *)
(* overwrite, and whose readers may bring in, from elsewhere, the entry    *)
(* that they are then told.                                                *)
(*                                                                         *)
(* GoCacher and GoCacherServer are shown to implement this specification.  *)
(***************************************************************************)
EXTENDS ActionCache

Stores(a, e) == /\ <<a, e>> \in Offers
                /\ cache' = [cache EXCEPT ![a] = e]

Overwrite(a, e) == Stores(a, e) /\ UNCHANGED reader

Fill(r, a, e) == /\ reader[r].status # "open"
                 /\ Stores(a, e)
                 /\ reader' = [reader EXCEPT ![r] = Open(a, e)]

(* A reader asks something new, or goes away. *)
Leave(r) == /\ reader' = [reader EXCEPT ![r] = Idle]
            /\ UNCHANGED cache

ReadThroughNext ==
    \/ Next
    \/ \E a \in ActionIDs, e \in Entries : Overwrite(a, e)
    \/ \E r \in Readers, a \in ActionIDs, e \in Entries : Fill(r, a, e)
    \/ \E r \in Readers : Leave(r)

ReadThroughSpec == Init /\ [][ReadThroughNext]_vars
=============================================================================
