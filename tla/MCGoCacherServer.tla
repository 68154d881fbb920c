-------------------------- MODULE MCGoCacherServer --------------------------
(***************************************************************************)
(* GoCacherServer for TLC: an action that is put with two outputs, one of  *)
(* which has a longer record.                                              *)
(***************************************************************************)
EXTENDS GoCacherServer, TLC

CONSTANTS a1, o1, o2

MCOffers    == {a1} \X {o1, o2}
MCRecordLen == (o1 :> 1) @@ (o2 :> 2)
MCFaultSets == {{"exit"}, {"exit", "error"}, {"wrong"}}

WriterSymmetry == Permutations(Writers)
=============================================================================
