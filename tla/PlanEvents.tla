------------------------------ MODULE PlanEvents ------------------------------
(***************************************************************************)
(* first_evaluation_events of plan_format.py: the builder of a plan walks  *)
(* the wiring once and writes the table of first evaluations, "Mirror      *)
(* original Worker::val/mma/run calls" (lines 119-123).  Nothing executes  *)
(* the table: it is the evidence that the shipped index describes what the *)
(* worker does, so the two recursions, one in Python and one in C++, must  *)
(* agree.                                                                  *)
(***************************************************************************)
EXTENDS WiringEval

(* A walk: the marks, the events so far, and why it raised, "" if not. *)
Start == [seen |-> [i \in Node |-> 0], events |-> <<>>, error |-> ""]
Mark(walk, i, m)  == [walk EXCEPT !.seen[i] = m]
Emit(walk, event) == [walk EXCEPT !.events = Append(@, event)]
Raise(walk, why)  == [walk EXCEPT !.error = why]

RECURSIVE Val(_, _), Vals(_, _)
(* val: an error ends the walk. *)
Val(walk, i) ==
  IF walk.error # "" \/ walk.seen[i] = 2 THEN walk
  ELSE IF walk.seen[i] = 1 THEN Raise(walk, "cycle in wiring DAG")
  ELSE IF Kind(i) = "M" THEN Raise(walk, "MMA value before its stage")
  ELSE LET deps == Vals(Emit(Mark(walk, i, 1), <<"ENTER", i>>), Args(i))
       IN IF deps.error # "" THEN deps ELSE Mark(Emit(deps, <<"EVAL", i>>), i, 2)
Vals(walk, nodes) ==
  IF nodes = <<>> THEN walk ELSE Vals(Val(walk, Head(nodes)), Tail(nodes))

Publish_Unmarked(walk, k) == Emit(walk, <<"PUBLISH", Atom(k)>>)
Publish(walk, k) == Mark(Emit(walk, <<"PUBLISH", Atom(k)>>), Atom(k), 2)

(* The walk up to the end of step n: the stages, then the class stores. *)
Walk[n \in Nat] ==
  IF n = 0 THEN Start
  ELSE LET before == Walk[n - 1]
           k      == n - NumStages
           after  == Vals(before, IF k <= 0 THEN w.operands[n] ELSE <<w.atom[k]>>)
       IN IF after.error # "" THEN after
          ELSE IF k <= 0 THEN Publish(Emit(after, <<"MMA", n>>), n)
          ELSE Emit(after, <<"STORE", k>>)
Table == Walk[NumSteps]

(* Whatever tasks came before, the worker's first evaluations in a task    *)
(* are those of the table, in its order: all of them when the task         *)
(* returns, the table's own refusal when the worker meets a cycle or a     *)
(* premature operand, and a prefix when an absent site ends the task.      *)
EventsMirrorWorker ==
  /\ status = "next" /\ at > 0 => Table.error = "" /\ log = Table.events
  /\ status \in {"cycle in wiring DAG", "MMA value before its stage"} =>
       Table.error = status /\ log = Table.events
  /\ status \in {"MMA depends on absent class site", "class store depends on absent site"} =>
       Len(log) < Len(Table.events) /\ log = SubSeq(Table.events, 1, Len(log))
===============================================================================
