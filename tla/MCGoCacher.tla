----------------------------- MODULE MCGoCacher -----------------------------
(***************************************************************************)
(* Small instances of GoCacher for TLC: an action that two builders built  *)
(* differently, and an output that two actions share.                      *)
(***************************************************************************)
EXTENDS GoCacher

CONSTANTS a1, a2, o1, o2

MCActionIDs == {a1, a2}
MCOutputIDs == {o1, o2}
MCOffers    == {<<a1, o1>>, <<a1, o2>>, <<a2, o2>>}
=============================================================================
