----------------------------- MODULE ParallelFor -----------------------------
(***************************************************************************)
(* What every fork-join pool of the C++ modules promises its caller: the   *)
(* call is rejected before anything ran, or it performs tasks, each at     *)
(* most once and in any order, and either returns when none is left or     *)
(* reports an error.  A failed thread start may also end the process.      *)
(***************************************************************************)
CONSTANT Task

VARIABLES plan,    \* the tasks of this call, fixed when it is admitted
          done,    \* the tasks performed to their end
          result   \* "new", "running", "ok", "error" or "abort"

vars == <<plan, done, result>>

Init == plan = {} /\ done = {} /\ result = "new"

Reject == result = "new" /\ result' = "error" /\ UNCHANGED <<plan, done>>

Admit == /\ result = "new"
         /\ plan' \in SUBSET Task
         /\ result' = "running"
         /\ UNCHANGED done

Perform(t) == /\ result = "running"
              /\ t \in plan \ done
              /\ done' = done \cup {t}
              /\ UNCHANGED <<plan, result>>

Succeed == /\ result = "running"
           /\ done = plan
           /\ result' = "ok"
           /\ UNCHANGED <<plan, done>>

Fail == /\ result = "running"
        /\ result' \in {"error", "abort"}
        /\ UNCHANGED <<plan, done>>

Next == Reject \/ Admit \/ (\E t \in Task : Perform(t)) \/ Succeed \/ Fail

Spec == Init /\ [][Next]_vars
=============================================================================
