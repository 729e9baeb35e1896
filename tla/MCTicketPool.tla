---------------------------- MODULE MCTicketPool ----------------------------
(***************************************************************************)
(* Small instances of TicketPool: three tasks, three cells and the store   *)
(* maps that matter: a cell each, an uneven split that leaves one task     *)
(* without a store, two owners of one cell, and a cell without owner.      *)
(***************************************************************************)
EXTENDS TicketPool, TLC

CONSTANTS t1, t2, t3, c1, c2, c3

MCMaps == {(t1 :> {c1}) @@ (t2 :> {c2}) @@ (t3 :> {c3}),
           (t1 :> {c1, c2}) @@ (t2 :> {}) @@ (t3 :> {c3}),
           (t1 :> {c1, c2}) @@ (t2 :> {c2}) @@ (t3 :> {c3}),
           (t1 :> {c1}) @@ (t2 :> {}) @@ (t3 :> {c3})}
=============================================================================
