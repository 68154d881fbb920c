--------------------------- MODULE MCGocachedFiles ---------------------------
(***************************************************************************)
(* An instance of GocachedFiles for TLC: an inline body, one in a plain    *)
(* file and two in lz4 files, of which one has a frame as long as itself.  *)
(***************************************************************************)
EXTENDS GocachedFiles, MCGocached

CONSTANT even  \* the body as long as its frame

MCFileSize    == (even :> 8) @@ MCSize
MCFileLZ4Size == (even :> 8) @@ MCLZ4Size

MCFileRequests == {Req(a1, big, big), Req(a2, even, even),
                   Req(a2, alt, big), Req(a1, plain, plain), Req(a1, small, small)}
=============================================================================
