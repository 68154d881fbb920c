---------------------------- MODULE MCGocached ----------------------------
(***************************************************************************)
(* Small instances of Gocached for TLC.  The three bodies stand on the two *)
(* sides of both thresholds: inline, in a plain file, in an lz4 file.      *)
(***************************************************************************)
EXTENDS Gocached, TLC

CONSTANTS a1, a2,          \* actions
          small, plain, big,   \* bodies
          alt              \* an output ID that is no body's hash

MCSize    == (small :> 1) @@ (plain :> 3) @@ (big :> 8)
MCLZ4Size == (small :> 2) @@ (plain :> 4) @@ (big :> 4)

Req(a, o, c) == [action |-> a, output |-> o, content |-> c]

(* One action with two outputs, two actions with one body, and an output   *)
(* ID that is not the hash.                                                *)
MCRequests == {Req(a1, big, big), Req(a2, alt, big), Req(a1, plain, plain)}

(* As above, with an inline body, where faults are what matters. *)
MCInlineRequests == MCRequests \cup {Req(a2, small, small)}

OneRequest == {Req(a1, big, big)}

(* Two outputs of one action: the second PUT leaves its blob to no one. *)
TwoOutputs == {Req(a1, big, big), Req(a1, plain, plain)}

PutterSymmetry == Permutations(Putters)
=============================================================================
