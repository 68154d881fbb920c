--------------------------- MODULE MCGocachedFlush ---------------------------
(***************************************************************************)
(* The instance of GocachedFlush for TLC: requests, callbacks, timers and  *)
(* actions are interchangeable.                                            *)
(***************************************************************************)
EXTENDS GocachedFlush, TLC

FlushSymmetry == Permutations(Getters) \cup Permutations(Callbacks)
                 \cup Permutations(Timers) \cup Permutations(ActionIDs)
=============================================================================
