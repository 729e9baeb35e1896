----------------------------- MODULE MCDevkitRuns -----------------------------
(***************************************************************************)
(* A small payload of the shape of the shipped one: a board configuration, *)
(* a plan and the seal are rewritten; two mirrored directories, one inside *)
(* the other, hold the copied and generated files of the loader, a third   *)
(* holds an installed input beside a shipped table; the table has another  *)
(* name.  The kits differ in what pins what: in order, in a cycle that     *)
(* goes through an original, and from the plan only.                       *)
(***************************************************************************)
EXTENDS DevkitRuns, TLC

MCMap  == <<"loader", "M", "map">>
MCPins == <<"loader", "M", "pins">>
MCSeal == <<"seal">>
Board  == <<"board">>
Plan   == <<"plan">>
Input  == <<"split", "bundle", "weights">>
Table  == <<"split", "bundle", "table">>
Other  == <<"old-name">>
Later  == <<"inputs-f1">>

Kit(records, derived) ==
  [rewrite |-> <<Board, Plan, MCSeal>>, copy |-> <<<<"loader", "M", "abi">>, MCPins>>,
   external |-> <<Later, Input>>, required |-> <<Input>>,
   mirrors |-> <<<<"loader">>, <<"loader", "M">>, <<"split">>>>,
   aliases |-> Other :> Table, names |-> <<Other>>,
   plain |-> {Table, <<"split", "other">>, <<"loader", "head">>},
   records |-> records @@ MCPins :> {<<MCMap, "shipped">>}
                       @@ MCSeal :> {<<MCMap, "shipped">>, <<MCPins, "shipped">>, <<Board, "shipped">>},
   derived |-> derived, code |-> {Board, Plan, Table}]

InOrder == Kit(Board :> {<<Plan, "original">>, <<Input, "supplied">>, <<Later, "supplied">>, <<Other, "shipped">>}
                 @@ Plan :> {<<Table, "original">>}, {Plan, Table})
(* The payload holds the input as well. *)
Cyclic  == [Kit(Board :> {<<Plan, "original">>, <<Input, "supplied">>} @@ Plan :> {<<Board, "shipped">>}, {Plan})
              EXCEPT !.plain = @ \cup {Input}]
Leaf    == Kit(Board :> {} @@ Plan :> {<<Board, "shipped">>, <<Input, "supplied">>}, {Plan, Board})

MCKits == {InOrder, Cyclic, Leaf}
Zero(k, runs, edits) == [driver |-> "f0", kit |-> k, diff |-> {}, verify |-> FALSE, runs |-> runs, edits |-> edits]
Two(d, v) == [driver |-> "two", kit |-> InOrder, diff |-> d, verify |-> v, runs |-> 0, edits |-> 0]
MCSessions == {Zero(InOrder, 2, 0), Zero(Cyclic, 2, 0), Zero(Leaf, 2, 0), Zero(Leaf, 1, 2)}
    \cup {Two({}, TRUE), Two({<<1, 0>>}, TRUE)}
    \cup {Two(d, FALSE) : d \in {s \in SUBSET (Frames \X (0 .. Last + 1)) : Cardinality(s) <= 2}}
===============================================================================
