---------------------------- MODULE MCBackendAbi ----------------------------
(***************************************************************************)
(* Two threads over one launch of each kind, and two of the entry and tail *)
(* owners so that tables of the wrong launch can exist.                    *)
(***************************************************************************)
EXTENDS BackendAbi

MCOwnerOf == [l \in Launch |->
  CASE l \in {1, 2, 100} -> "entry" [] l \in 3 .. 24  -> "tin"
    [] l \in 25 .. 57    -> "split16" [] l \in 58 .. 99 -> "vit"
    [] l \in 155 .. 157  -> "outtail"]
=============================================================================
