----------------------------- MODULE MCWiringEval -----------------------------
(***************************************************************************)
(* Four nodes: a map site, nodes that read any node, results of one or two *)
(* MMA stages, and a node of any kind with any arguments, so that cycles,  *)
(* self-references, operands that wait for their own stage, a second M     *)
(* node of a stage and values that mix all of them are present.  At most   *)
(* one site is absent, in one lane of one of the two tasks.                *)
(***************************************************************************)
EXTENDS PlanEvents

MCNode == 1 .. 4
MCLane == {1, 2}
MCTasks == <<1, 2>>
MCClass == {1, 2}
MCClassOf == <<<<1, 2>>, <<2, 1>>>>

Site    == [kind |-> "site", args |-> <<>>, stage |-> 0]
M(k)    == [kind |-> "M", args |-> <<>>, stage |-> k]
One     == {[kind |-> "shuffle", args |-> <<a>>, stage |-> 0] : a \in MCNode}
Two     == {[kind |-> k, args |-> <<a, b>>, stage |-> 0] :
              k \in {"pick", "join"}, a \in MCNode, b \in MCNode}
Forms   == {Site, M(1), M(2)} \cup One \cup Two

OneStage ==
  {[form |-> <<Site, second, third, fourth>>,
    operands |-> <<<<op>>>>, atom |-> <<store, 4>>] :
      second \in {Site} \cup One, third \in {M(1), Site}, fourth \in Forms,
      op \in MCNode, store \in {2, 3}}
TwoStages ==
  {[form |-> <<Site, M(1), M(2), fourth>>,
    operands |-> <<<<op>>, <<1, later>>>>, atom |-> <<store, 4>>] :
      fourth \in Forms, op \in MCNode, later \in MCNode, store \in {2, 3}}
MCWirings == OneStage \cup TwoStages

MCAbsents == {{}} \cup {{<<t, i, l>>} : t \in {1, 2}, i \in {1, 2, 4}, l \in MCLane}
MCPicks == {<<TRUE, FALSE>>}
=============================================================================
