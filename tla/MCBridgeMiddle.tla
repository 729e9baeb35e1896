--------------------------- MODULE MCBridgeMiddle ---------------------------
(* Two threads that use one Bridge for a tin, a split16 and two ViT        *)
(* launches; launch 58 maps the caller weights, launch 59 reads them.      *)
EXTENDS BridgeMiddle

MCOwnerOf == [l \in Launch |-> CASE l \in 3 .. 24  -> "tin"
                                 [] l \in 25 .. 57 -> "split16"
                                 [] l \in 58 .. 99 -> "vit"]
=============================================================================
