-------------------------- MODULE MCGocachedUses --------------------------
(***************************************************************************)
(* An instance of GocachedUses for TLC: two actions that may name one body *)
(* or two, of which MaxSize lets one stay.                                 *)
(***************************************************************************)
EXTENDS GocachedUses, MCGocached

MCUses == {Req(a1, big, big), Req(a2, alt, big), Req(a2, plain, plain)}
=============================================================================
