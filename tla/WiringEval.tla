------------------------------ MODULE WiringEval ------------------------------
(***************************************************************************)
(* Worker::run of the map executors (scalar_map.hpp, mapexec_base.hpp; the *)
(* WorkerA of the attention family has the same shape): one worker         *)
(* evaluates its tasks one after another over one wiring DAG, with a memo  *)
(* it keeps between tasks.  A task resets the seen marks, works the MMA    *)
(* stages in order, then evaluates and publishes its stores.               *)
(*                                                                         *)
(* A value is abstracted, lane by lane, to the set of map sites it was     *)
(* computed from: a source <<task, node, lane>>.  A source in absent is a  *)
(* site the map does not have for this thread class (the codes -7 and -2): *)
(* the code computes with a zero and marks the lane invalid.  The bytes of *)
(* a value and its arithmetic are left out; what is kept is which values   *)
(* flow where, when, and what is refused.                                  *)
(***************************************************************************)
EXTENDS Naturals, Sequences, FiniteSets

CONSTANTS Node,     \* node ids, numbers
          Lane,     \* lanes of a warp, numbers
          Tasks,    \* the tasks this worker takes, in order
          Class,    \* thread classes, numbers 1 .. Cardinality(Class)
          ClassOf,  \* [task -> [lane -> class]]
          Wirings,  \* the wirings: [form, operands, atom]
          Absents,  \* the sets of absent sources
          Picks     \* psel: [lane -> BOOLEAN], TRUE takes the first argument

(* The arguments a kind has (parse_spec), and more lanes than one. *)
Shapes == [kind : {"site", "shuffle", "pick", "join", "M"}, args : Seq(Node), stage : Nat]
ASSUME WiringAssumption ==
  /\ Node \subseteq Nat /\ IsFiniteSet(Node)
  /\ Lane \subseteq Nat /\ Lane # {} /\ \A l \in Lane : \E m \in Lane : m # l
  /\ IsFiniteSet(Class) /\ Class = 1 .. Cardinality(Class)
  /\ \A w \in Wirings :
       /\ DOMAIN w.form = Node /\ \A i \in Node : w.form[i] \in Shapes
       /\ \A i \in Node : /\ w.form[i].kind = "shuffle" => Len(w.form[i].args) >= 1
                          /\ w.form[i].kind = "pick" => Len(w.form[i].args) >= 2
                          /\ w.form[i].kind = "M" => w.form[i].stage >= 1
       /\ w.operands \in Seq(Seq(Node)) /\ w.atom \in [Class -> Node]
  /\ Picks \subseteq [Lane -> BOOLEAN]

VARIABLES w,       \* the wiring of this call
          absent,  \* the absent sources of this call
          psel,    \* the select predicates of this call
          at,      \* how many tasks have been begun
          step,    \* the MMA stage or, after the stages, the store at work
          seen,    \* 0 not evaluated, 1 under evaluation, 2 in the memo
          mem,     \* the memo, kept from task to task
          invalid, \* the lanes of a memo value that depend on an absent site
          stack,   \* the active calls of val
          out,     \* the published values
         log,     \* history: the first evaluations, stages and stores of the task
          status   \* "setup", "run", "done", or why run threw

input == <<w, absent, psel>>
memo  == <<seen, mem, invalid>>
vars  == <<input, at, step, memo, stack, out, log, status>>

task      == Tasks[at]
Kind(i)   == w.form[i].kind
Args(i)   == w.form[i].args
NumStages == Len(w.operands)
NumSteps  == NumStages + Cardinality(Class)

(* setup_atoms: a later M node of a stage replaces an earlier one. *)
AtomsOf(k) == {i \in Node : Kind(i) = "M" /\ w.form[i].stage = k}
Atom(k)    == CHOOSE i \in AtomsOf(k) : \A j \in AtomsOf(k) : j <= i

Working == status = "run" /\ step <= NumSteps

Roots == IF step <= NumStages THEN w.operands[step]
                              ELSE <<w.atom[step - NumStages]>>

Blank == [i \in Node |-> [l \in Lane |-> {}]]
Clean == [i \in Node |-> [l \in Lane |-> FALSE]]

Init == /\ w \in Wirings /\ absent \in Absents /\ psel \in Picks
        /\ at = 0 /\ step = 1
        /\ seen = [i \in Node |-> 0] /\ mem = Blank /\ invalid = Clean
        /\ stack = <<>>
        /\ out = [t \in {Tasks[i] : i \in DOMAIN Tasks} |-> [l \in Lane |-> {}]]
        /\ log = <<>> /\ status = "setup"

Throw(why) == /\ status' = why
              /\ UNCHANGED <<input, at, step, memo, stack, out, log>>

(* "bad M atom", "missing M atom" *)
SetupAtoms == /\ status = "setup"
              /\ LET inRange == \A i \in Node : Kind(i) = "M" => w.form[i].stage <= NumStages
                     all     == \A k \in 1 .. NumStages : AtomsOf(k) # {}
                 IN status' = IF inRange /\ all THEN "next" ELSE "bad atoms"
              /\ UNCHANGED <<input, at, step, memo, stack, out, log>>

Begin_KeepSeen == /\ status = "next" /\ at < Len(Tasks)
                  /\ at' = at + 1 /\ step' = 1 /\ log' = <<>>
                  /\ UNCHANGED <<input, memo, stack, out>>
                  /\ status' = "run"
(* run(ci, yi): the marks are cleared, the memo is not. *)
Begin == /\ status = "next" /\ at < Len(Tasks)
         /\ at' = at + 1 /\ step' = 1 /\ log' = <<>>
         /\ seen' = [i \in Node |-> 0] /\ invalid' = Clean
         /\ status' = "run"
         /\ UNCHANGED <<input, mem, stack, out>>

-----------------------------------------------------------------------------
(* The nodes the running code asks val for: the arguments of the innermost *)
(* call, or the operands of the stage or store.  Wanted is the first that  *)
(* is not in the memo.                                                     *)
Asked  == IF stack = <<>> THEN Roots ELSE Args(Head(stack))
Ready  == \A n \in DOMAIN Asked : seen[Asked[n]] = 2
Wanted == Asked[CHOOSE n \in DOMAIN Asked :
                  /\ seen[Asked[n]] # 2
                  /\ \A m \in 1 .. n - 1 : seen[Asked[m]] = 2]

(* val(i) up to its first argument *)
Call ==
  /\ Working /\ ~Ready
  /\ \/ seen[Wanted] = 1 /\ Throw("cycle in wiring DAG")
     \/ seen[Wanted] = 0 /\ Kind(Wanted) = "M" /\ Throw("MMA value before its stage")
     \/ /\ seen[Wanted] = 0 /\ Kind(Wanted) # "M"
        /\ seen' = [seen EXCEPT ![Wanted] = 1]
        /\ stack' = <<Wanted>> \o stack
        /\ log' = Append(log, <<"ENTER", Wanted>>)
        /\ UNCHANGED <<input, at, step, mem, invalid, out, status>>

(* What one node computes in lane l.  "site" stands for the kinds that     *)
(* read a map (W, S, X, XH), "shuffle" for B and SI, "pick" for PS, "join" *)
(* for the kinds that combine all their arguments (E, Q, HB, MV, WI, F).   *)
Own(i, l)    == <<task, i, l>>
Missing(i, l) == Own(i, l) \in absent
First        == CHOOSE l \in Lane : \A m \in Lane : l <= m
From(i, l)   == IF Missing(i, l) THEN First
                ELSE CHOOSE m \in Lane : m # l
Chosen(i, l) == IF psel[l] /\ ~Missing(i, l) THEN Args(i)[1] ELSE Args(i)[2]

Value(i, l) ==
  CASE Kind(i) = "site"    -> {Own(i, l)}
    [] Kind(i) = "shuffle" -> {Own(i, l)} \cup mem[Args(i)[1]][From(i, l)]
    [] Kind(i) = "pick"    -> {Own(i, l)} \cup mem[Chosen(i, l)][l]
    [] Kind(i) = "join"    -> UNION {mem[Args(i)[n]][l] : n \in DOMAIN Args(i)}

Taint_BothArms(i, l) ==
  CASE Kind(i) = "site"    -> Missing(i, l)
    [] Kind(i) = "shuffle" -> Missing(i, l) \/ invalid[Args(i)[1]][From(i, l)]
    [] OTHER -> Missing(i, l) \/ \E n \in DOMAIN Args(i) : invalid[Args(i)[n]][l]
Taint(i, l) ==
  CASE Kind(i) = "site"    -> Missing(i, l)
    [] Kind(i) = "shuffle" -> Missing(i, l) \/ invalid[Args(i)[1]][From(i, l)]
    [] Kind(i) = "pick"    -> Missing(i, l) \/ invalid[Chosen(i, l)][l]
    [] Kind(i) = "join"    -> \E n \in DOMAIN Args(i) : invalid[Args(i)[n]][l]

(* val(i) from its last argument to its return *)
Compute == /\ Working /\ stack # <<>> /\ Ready
           /\ LET i == Head(stack)
              IN /\ mem' = [mem EXCEPT ![i] = [l \in Lane |-> Value(i, l)]]
                 /\ invalid' = [invalid EXCEPT ![i] = [l \in Lane |-> Taint(i, l)]]
                 /\ seen' = [seen EXCEPT ![i] = 2]
           /\ stack' = Tail(stack)
           /\ log' = Append(log, <<"EVAL", Head(stack)>>)
           /\ UNCHANGED <<input, at, step, out, status>>

-----------------------------------------------------------------------------
(* mma(o): every lane of every operand reaches every lane of the result.   *)
Mixed == UNION {mem[Roots[n]][l] : n \in DOMAIN Roots, l \in Lane}
Stage == /\ Working /\ step <= NumStages /\ stack = <<>> /\ Ready
         /\ IF \E n \in DOMAIN Roots, l \in Lane : invalid[Roots[n]][l]
              THEN Throw("MMA depends on absent class site")
              ELSE /\ mem' = [mem EXCEPT ![Atom(step)] = [l \in Lane |-> Mixed]]
                   /\ seen' = [seen EXCEPT ![Atom(step)] = 2]
                   /\ step' = step + 1
                   /\ log' = log \o <<<<"MMA", step>>, <<"PUBLISH", Atom(step)>>>>
                   /\ UNCHANGED <<input, at, invalid, stack, out, status>>

(* The class store, lane by lane: it throws at the first lane that depends *)
(* on an absent site, the lanes before it are already in the output.       *)
Store == /\ Working /\ step > NumStages /\ stack = <<>> /\ Ready
         /\ LET i    == Roots[1]
                mine == {l \in Lane : ClassOf[task][l] = step - NumStages}
                good == {l \in mine : \A m \in mine : m <= l => ~invalid[i][m]}
            IN /\ out' = [out EXCEPT ![task] =
                            [l \in Lane |-> IF l \in good THEN mem[i][l] ELSE @[l]]]
               /\ IF good = mine
                    THEN /\ step' = step + 1 /\ UNCHANGED status
                         /\ log' = Append(log, <<"STORE", step - NumStages>>)
                    ELSE status' = "class store depends on absent site" /\ UNCHANGED <<step, log>>
         /\ UNCHANGED <<input, at, memo, stack>>

(* run returns; the worker takes its next ticket. *)
Return == /\ status = "run" /\ step > NumSteps
          /\ status' = "next"
          /\ UNCHANGED <<input, at, step, memo, stack, out, log>>

Next == SetupAtoms \/ Begin \/ Call \/ Compute \/ Stage \/ Store \/ Return

Spec == Init /\ [][Next]_vars

-----------------------------------------------------------------------------
(***************************************************************************)
(* The reference: what a node means in a task, by recursion on the wiring  *)
(* alone, with no memo, no marks and no order.  Fuel bounds the recursion; *)
(* a value that needs more than one level per node contains Endless.       *)
(***************************************************************************)
Endless == <<"endless">>
Nothing == [i \in Node |-> [l \in Lane |-> {Endless}]]
Meant(t, V, i, l) ==
  LET gone == <<t, i, l>> \in absent
  IN CASE Kind(i) = "site" -> {<<t, i, l>>}
       [] Kind(i) = "shuffle" -> {<<t, i, l>>} \cup
            V[Args(i)[1]][IF gone THEN First ELSE CHOOSE m \in Lane : m # l]
       [] Kind(i) = "pick" -> {<<t, i, l>>} \cup
            V[IF psel[l] /\ ~gone THEN Args(i)[1] ELSE Args(i)[2]][l]
       [] Kind(i) = "join" -> UNION {V[Args(i)[n]][l] : n \in DOMAIN Args(i)}
       [] Kind(i) = "M" ->
            LET ops == w.operands[w.form[i].stage]
            IN UNION {V[ops[n]][m] : n \in DOMAIN ops, m \in Lane}
Level(t, V) == [i \in Node |-> [l \in Lane |-> Meant(t, V, i, l)]]
Levels(t) == LET V[d \in 0 .. Cardinality(Node)] ==
                   Level(t, IF d = 0 THEN Nothing ELSE V[d - 1])
             IN V
Meaning(t) == Levels(t)[Cardinality(Node)]

(* The nodes val visits from root i: it does not look behind an M node. *)
Grow(S)  == S \cup UNION {{Args(j)[n] : n \in DOMAIN Args(j)} : j \in {k \in S : Kind(k) # "M"}}
Reach(i) == LET G[d \in 0 .. Cardinality(Node)] == IF d = 0 THEN {i} ELSE Grow(G[d - 1])
            IN G
Visits(i) == Reach(i)[Cardinality(Node)]
Circular(i) == \E j \in Visits(i) : Kind(j) # "M" /\
                 \E m \in {Args(j)[n] : n \in DOMAIN Args(j)} : j \in Visits(m)
Premature(i) == \E j \in Visits(i) : Kind(j) = "M" /\
                  ~\E k \in 1 .. step - 1 : k <= NumStages /\ j = Atom(k)

(* A byte the worker publishes is what the wiring means for the byte's own *)
(* task: it holds nothing a previous task left in the memo, nothing of a   *)
(* stage that had not run, and nothing an absent site went into            *)
(* (scalar_map.hpp:299,313,316).                                           *)
StoredIsMeant ==
  \A t \in DOMAIN out : \A l \in Lane : out[t][l] # {} =>
    /\ out[t][l] = Meaning(t)[w.atom[ClassOf[t][l]]][l]
    /\ out[t][l] \cap absent = {}

(* A task is refused only for its own reason: a wiring without cycles whose *)
(* stages are in order, and whose operands and stored lanes need no absent *)
(* site, is never thrown out, whatever the tasks before it met.            *)
RefusedForCause ==
  LET roots == {Roots[n] : n \in DOMAIN Roots}
  IN /\ status = "cycle in wiring DAG" => \E i \in roots : Circular(i)
     /\ status = "MMA value before its stage" => \E i \in roots : Premature(i)
     /\ status = "MMA depends on absent class site" =>
          \E i \in roots, l \in Lane : Meaning(task)[i][l] \cap absent # {}
     /\ status = "class store depends on absent site" =>
          \E i \in roots, l \in Lane : /\ ClassOf[task][l] = step - NumStages
                                       /\ Meaning(task)[i][l] \cap absent # {}
=============================================================================
