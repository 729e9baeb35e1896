---------------------------- MODULE ExecutorProofs ----------------------------
(***************************************************************************)
(* Two results about what the executors compute.                           *)
(*                                                                         *)
(* A worker publishes what the wiring means, whatever the tasks before     *)
(* left in its memo, and refuses a task only for the task's own reason:    *)
(* for every wiring, every set of nodes, lanes and classes, every sequence *)
(* of tasks and every choice of absent sites.                              *)
(*                                                                         *)
(* And a staged launch with sound maps publishes the sums in stage order,  *)
(* each half rounded to nearest, or throws because a number is too large:  *)
(* for every set of workers and launches, all numbers and all widths of    *)
(* the formats, under every interleaving.  On the way: the three roundings *)
(* of the executors are to nearest, and the maps that ffn_contract makes   *)
(* for full halves store each cell once, in one CTA.                       *)
(***************************************************************************)
EXTENDS WiringEval, StagedReduce, Arithmetic

Size == Cardinality(Node)
LEMMA SizeType == Size \in Nat
  BY WiringAssumption, FS_CardinalityType DEF WiringAssumption, Size

(* The levels of meaning are the function their recursion describes. *)
LEMMA LevelsFact ==
  ASSUME NEW t
  PROVE  Levels(t) = [d \in 0 .. Size |-> Level(t, IF d = 0 THEN Nothing ELSE Levels(t)[d - 1])]
<1> DEFINE Is(f, n) == f = [d \in 0 .. n |-> Level(t, IF d = 0 THEN Nothing ELSE f[d - 1])]
           T == {n \in Nat : \E f : Is(f, n)}
<1>1. 0 \in T
  <2> DEFINE f == [d \in 0 .. 0 |-> Level(t, Nothing)]
  <2>1. Is(f, 0)
    OBVIOUS
  <2> QED BY <2>1
<1>2. ASSUME NEW n \in Nat, n \in T PROVE n + 1 \in T
  <2>1. PICK f : Is(f, n)
    BY <1>2
  <2> DEFINE g == [d \in 0 .. n + 1 |-> IF d <= n THEN f[d] ELSE Level(t, f[n])]
  <2>2. ASSUME NEW d \in 0 .. n + 1
        PROVE  g[d] = Level(t, IF d = 0 THEN Nothing ELSE g[d - 1])
    <3>1. CASE d = 0
      BY <2>1, <3>1
    <3>2. CASE d # 0 /\ d <= n
      <4>1. g[d] = f[d] /\ g[d - 1] = f[d - 1] /\ f[d] = Level(t, f[d - 1])
        BY <2>1, <3>2
      <4> QED BY <3>2, <4>1
    <3>3. CASE d = n + 1
      <4>1. g[d] = Level(t, f[n]) /\ g[d - 1] = f[n] /\ d # 0
        BY <3>3
      <4> QED BY <4>1
    <3> QED BY <3>1, <3>2, <3>3
  <2>3. g = [d \in 0 .. n + 1 |-> g[d]]
    OBVIOUS
  <2> HIDE DEF g
  <2>4. Is(g, n + 1)
    BY <2>2, <2>3
  <2> QED BY <2>4
<1>3. Size \in T
  <2>1. Nat \subseteq T
    <3> HIDE DEF T
    <3> QED BY <1>1, <1>2, Counting
  <2> QED BY <2>1, SizeType
<1>4. Levels(t) = CHOOSE f : Is(f, Size)
  BY DEF Levels, Size
<1>5. Is(Levels(t), Size)
  <2>1. \E f : Is(f, Size)
    BY <1>3
  <2> HIDE DEF Is
  <2> QED BY <1>4, <2>1
<1> QED BY <1>5

(* So are the sets val reaches, and they grow with the distance. *)
LEMMA ReachFact ==
  ASSUME NEW i
  PROVE  Reach(i) = [d \in 0 .. Size |-> IF d = 0 THEN {i} ELSE Grow(Reach(i)[d - 1])]
<1> DEFINE Is(f, n) == f = [d \in 0 .. n |-> IF d = 0 THEN {i} ELSE Grow(f[d - 1])]
           T == {n \in Nat : \E f : Is(f, n)}
<1>1. 0 \in T
  <2> DEFINE f == [d \in 0 .. 0 |-> {i}]
  <2>1. Is(f, 0)
    OBVIOUS
  <2> QED BY <2>1
<1>2. ASSUME NEW n \in Nat, n \in T PROVE n + 1 \in T
  <2>1. PICK f : Is(f, n)
    BY <1>2
  <2> DEFINE g == [d \in 0 .. n + 1 |-> IF d <= n THEN f[d] ELSE Grow(f[n])]
  <2>2. ASSUME NEW d \in 0 .. n + 1
        PROVE  g[d] = IF d = 0 THEN {i} ELSE Grow(g[d - 1])
    <3>1. CASE d = 0
      BY <2>1, <3>1
    <3>2. CASE d # 0 /\ d <= n
      <4>1. d \in 0 .. n /\ d - 1 \in 0 .. n /\ d \in 0 .. n + 1 /\ d - 1 \in 0 .. n + 1
        BY <3>2
      <4>2. g[d] = f[d] /\ g[d - 1] = f[d - 1]
        BY <4>1
      <4>3. f[d] = IF d = 0 THEN {i} ELSE Grow(f[d - 1])
        <5> HIDE DEF g
        <5> QED BY <2>1, <4>1
      <4> HIDE DEF g
      <4> QED BY <3>2, <4>2, <4>3
    <3>3. CASE d = n + 1
      <4>1. g[d] = Grow(f[n]) /\ g[d - 1] = f[n] /\ d # 0
        BY <3>3
      <4> QED BY <4>1
    <3> QED BY <3>1, <3>2, <3>3
  <2>3. g = [d \in 0 .. n + 1 |-> g[d]]
    OBVIOUS
  <2> HIDE DEF g
  <2>4. Is(g, n + 1)
    BY <2>2, <2>3
  <2> QED BY <2>4
<1>3. Size \in T
  <2>1. Nat \subseteq T
    <3> HIDE DEF T
    <3> QED BY <1>1, <1>2, Counting
  <2> QED BY <2>1, SizeType
<1>4. Reach(i) = CHOOSE f : Is(f, Size)
  BY DEF Reach, Size
<1>5. Is(Reach(i), Size)
  <2>1. \E f : Is(f, Size)
    BY <1>3
  <2> HIDE DEF Is
  <2> QED BY <1>4, <2>1
<1> QED BY <1>5

LEMMA ReachStep ==
  ASSUME NEW i, NEW d \in Nat, d < Size
  PROVE  Reach(i)[0] = {i} /\ Reach(i)[d + 1] = Grow(Reach(i)[d])
<1>1. 0 \in 0 .. Size /\ d + 1 \in 0 .. Size /\ (d + 1) - 1 = d /\ d + 1 # 0
  BY SizeType
<1>2. PICK R : R = Reach(i)
  OBVIOUS
<1>3. \A e \in 0 .. Size : R[e] = IF e = 0 THEN {i} ELSE Grow(R[e - 1])
  BY <1>2, ReachFact
<1>4. R[0] = {i}
  BY <1>1, <1>3
<1>5. R[d + 1] = Grow(R[(d + 1) - 1])
  BY <1>1, <1>3
<1> QED BY <1>1, <1>2, <1>4, <1>5

LEMMA ReachVisits ==
  ASSUME NEW i, NEW d \in 0 .. Size
  PROVE  Reach(i)[d] \subseteq Visits(i)
<1> DEFINE T == {n \in Nat : n <= Size => Reach(i)[Size - n] \subseteq Visits(i)}
<1>1. 0 \in T
  <2>1. Size - 0 = Size
    BY SizeType
  <2> QED BY <2>1 DEF Visits, Size
<1>2. ASSUME NEW n \in Nat, n \in T PROVE n + 1 \in T
  <2> SUFFICES ASSUME n + 1 <= Size PROVE Reach(i)[Size - (n + 1)] \subseteq Visits(i)
    OBVIOUS
  <2>1. Reach(i)[Size - n] \subseteq Visits(i)
    BY <1>2, SizeType
  <2>2. PICK e \in Nat : e = Size - (n + 1) /\ e < Size /\ e + 1 = Size - n
    BY SizeType
  <2>3. Reach(i)[e + 1] = Grow(Reach(i)[e])
    BY <2>2, ReachStep
  <2>4. Reach(i)[e] \subseteq Reach(i)[e + 1]
    BY <2>3 DEF Grow
  <2> QED BY <2>1, <2>2, <2>4
<1>3. Nat \subseteq T
  <2> HIDE DEF T
  <2> QED BY <1>1, <1>2, Counting
<1>4. Size - d \in Nat /\ Size - d <= Size /\ Size - (Size - d) = d
  BY SizeType
<1> QED BY <1>3, <1>4

-----------------------------------------------------------------------------
(* What depends on the call's input alone. *)
LEMMA SameInput ==
  ASSUME UNCHANGED input
  PROVE  /\ \A t : Levels(t)' = Levels(t) /\ Meaning(t)' = Meaning(t)
         /\ \A i : /\ Reach(i)' = Reach(i) /\ Visits(i)' = Visits(i)
                   /\ Kind(i)' = Kind(i) /\ Args(i)' = Args(i)
         /\ \A k : Atom(k)' = Atom(k) /\ AtomsOf(k)' = AtomsOf(k)
         /\ NumStages' = NumStages /\ NumSteps' = NumSteps
<1> USE DEF input
<1>1. \A i : Kind(i)' = Kind(i) /\ Args(i)' = Args(i)
  BY DEF Kind, Args
<1>2. \A t, V : Level(t, V)' = Level(t, V)
  BY DEF Level, Meant, Kind, Args
<1>3. \A t : Levels(t)' = Levels(t)
  BY <1>2 DEF Levels
<1>4. \A S : Grow(S)' = Grow(S)
  BY DEF Grow, Kind, Args
<1>5. \A i : Reach(i)' = Reach(i)
  BY <1>4 DEF Reach
<1>6. \A k : AtomsOf(k)' = AtomsOf(k)
  BY DEF AtomsOf, Kind
<1>7. \A k : Atom(k)' = Atom(k)
  BY <1>6 DEF Atom
<1>8. NumStages' = NumStages /\ NumSteps' = NumSteps
  BY DEF NumStages, NumSteps
<1> QED BY <1>1, <1>3, <1>5, <1>6, <1>7, <1>8 DEF Meaning, Visits

-----------------------------------------------------------------------------
(* What WiringAssumption says of the wiring of a call. *)
LEMMA Wired ==
  ASSUME w \in Wirings
  PROVE  /\ \A i \in Node : /\ Kind(i) \in {"site", "shuffle", "pick", "join", "M"}
                            /\ Args(i) \in Seq(Node)
                            /\ w.form[i].stage \in Nat
                            /\ Kind(i) = "shuffle" => 1 \in DOMAIN Args(i)
                            /\ Kind(i) = "pick" => 1 \in DOMAIN Args(i) /\ 2 \in DOMAIN Args(i)
         /\ w.operands \in Seq(Seq(Node)) /\ NumStages \in Nat
         /\ NumSteps \in Nat /\ NumStages <= NumSteps
         /\ \A k \in 1 .. NumSteps : k > NumStages => w.atom[k - NumStages] \in Node
<1> USE WiringAssumption DEF WiringAssumption
<1>1. ASSUME NEW i \in Node
      PROVE  /\ Kind(i) \in {"site", "shuffle", "pick", "join", "M"}
             /\ Args(i) \in Seq(Node) /\ w.form[i].stage \in Nat
  <2>1. w.form[i] \in Shapes
    OBVIOUS
  <2> QED BY <2>1 DEF Shapes, Kind, Args
<1>2. ASSUME NEW i \in Node
      PROVE  /\ Kind(i) = "shuffle" => 1 \in DOMAIN Args(i)
             /\ Kind(i) = "pick" => 1 \in DOMAIN Args(i) /\ 2 \in DOMAIN Args(i)
  <2>1. /\ Kind(i) = "shuffle" => Len(Args(i)) >= 1
        /\ Kind(i) = "pick" => Len(Args(i)) >= 2
    BY DEF Kind, Args
  <2>2. Args(i) \in Seq(Node)
    BY <1>1
  <2>3. Len(Args(i)) \in Nat /\ DOMAIN Args(i) = 1 .. Len(Args(i))
    BY <2>2
  <2> QED BY <2>1, <2>3
<1>3. w.operands \in Seq(Seq(Node)) /\ w.atom \in [Class -> Node]
  OBVIOUS
<1>4. NumStages \in Nat
  BY <1>3 DEF NumStages
<1>5. Cardinality(Class) \in Nat /\ Class = 1 .. Cardinality(Class)
  BY FS_CardinalityType
<1>6. NumSteps \in Nat /\ NumStages <= NumSteps
  BY <1>4, <1>5 DEF NumSteps
<1>7. ASSUME NEW k \in 1 .. NumSteps, k > NumStages PROVE w.atom[k - NumStages] \in Node
  <2>1. k - NumStages \in Class
    BY <1>4, <1>5, <1>7 DEF NumSteps
  <2> QED BY <1>3, <2>1
<1> QED BY <1>1, <1>2, <1>3, <1>4, <1>6, <1>7

(* The M node of a stage is one of its M nodes. *)
LEMMA AtomFact ==
  ASSUME w \in Wirings, NEW k, AtomsOf(k) # {}
  PROVE  /\ Atom(k) \in Node /\ Kind(Atom(k)) = "M"
         /\ w.form[Atom(k)].stage = k
<1>1. AtomsOf(k) \subseteq Nat /\ IsFiniteSet(AtomsOf(k))
  BY WiringAssumption, FS_Subset DEF WiringAssumption, AtomsOf
<1>2. \E i \in AtomsOf(k) : \A j \in AtomsOf(k) : j <= i
  BY <1>1, Greatest
<1>3. Atom(k) \in AtomsOf(k)
  BY <1>2 DEF Atom
<1> QED BY <1>3 DEF AtomsOf

LEMMA LaneFact ==
  /\ First \in Lane
  /\ \A l \in Lane : (CHOOSE m \in Lane : m # l) \in Lane
<1>1. Lane \subseteq Nat /\ Lane # {} /\ \A l \in Lane : \E m \in Lane : m # l
  BY WiringAssumption DEF WiringAssumption
<1>2. \E l \in Lane : \A m \in Lane : l <= m
  BY <1>1, Least
<1> QED BY <1>1, <1>2 DEF First

(* A sequence with an element put before it. *)
LEMMA Pushed ==
  ASSUME NEW S, NEW s \in Seq(S), NEW x \in S
  PROVE  /\ <<x>> \o s \in Seq(S) /\ Len(<<x>> \o s) = Len(s) + 1
         /\ (<<x>> \o s)[1] = x
         /\ \A n \in 1 .. Len(s) : (<<x>> \o s)[n + 1] = s[n]
  OBVIOUS

LEMMA Popped ==
  ASSUME NEW S, NEW s \in Seq(S), s # <<>>
  PROVE  /\ Len(s) \in Nat /\ Len(s) >= 1 /\ Head(s) = s[1] /\ s[1] \in S
         /\ Tail(s) \in Seq(S) /\ Len(Tail(s)) = Len(s) - 1
         /\ \A n \in 1 .. Len(s) - 1 : Tail(s)[n] = s[n + 1]
  OBVIOUS

-----------------------------------------------------------------------------
TypeInv == /\ w \in Wirings
           /\ step \in 1 .. NumSteps + 1
           /\ seen \in [Node -> 0 .. 2]
           /\ DOMAIN mem = Node
           /\ invalid \in [Node -> [Lane -> BOOLEAN]]
           /\ stack \in Seq(Node)

Known == {i \in Node : seen[i] = 2}

(* The stages of a call that runs have their M nodes. *)
SetupInv == status \notin {"setup", "bad atoms"} => \A k \in 1 .. NumStages : AtomsOf(k) # {}

(* The active calls of val are the nodes under evaluation, each once. *)
StackInv ==
  /\ \A n \in 1 .. Len(stack) : Kind(stack[n]) # "M"
  /\ \A n \in 1 .. Len(stack) : seen[stack[n]] = 1
  /\ \A i \in Node : seen[i] = 1 => \E n \in 1 .. Len(stack) : stack[n] = i
  /\ \A m, n \in 1 .. Len(stack) : stack[m] = stack[n] => m = n
  /\ status \in {"setup", "bad atoms", "next"} \/ step > NumSteps => stack = <<>>

(* They are a path of the wiring from an operand or a stored node. *)
PathInv ==
  /\ stack # <<>> => \E n \in DOMAIN Roots : Roots[n] = stack[Len(stack)]
  /\ \A n \in 1 .. Len(stack) : n < Len(stack) =>
       \E k \in DOMAIN Args(stack[n + 1]) : Args(stack[n + 1])[k] = stack[n]
  /\ \A a, b \in 1 .. Len(stack) : b <= a => stack[b] \in Reach(stack[a])[a - b]

(* The M nodes in the memo are those of the stages that ran. *)
AtomInv ==
  /\ \A i \in Node : Kind(i) = "M" /\ seen[i] = 2 => w.form[i].stage < step
  /\ \A k \in 1 .. NumStages : k < step => seen[Atom(k)] = 2

(* A value in the memo is what its node means, at every level of the       *)
(* recursion that is as deep as the memo is large.                         *)
MeaningInv ==
  \A i \in Known : \A d \in 0 .. Size :
    Cardinality(Known) <= d + 1 => mem[i] = Levels(task)[d][i]

(* A lane is marked exactly when an absent site went into it. *)
TaintInv ==
  \A i \in Node : \A l \in Lane :
    /\ seen[i] = 2 => (invalid[i][l] <=> mem[i][l] \cap absent # {})
    /\ seen[i] # 2 => ~invalid[i][l]

IInv == /\ TypeInv /\ SetupInv /\ StackInv /\ PathInv /\ AtomInv
        /\ MeaningInv /\ TaintInv

-----------------------------------------------------------------------------
LEMMA KnownFact == IsFiniteSet(Known) /\ Cardinality(Known) \in Nat /\ Cardinality(Known) <= Size
<1>1. Known \subseteq Node
  BY DEF Known
<1> QED BY <1>1, WiringAssumption, FS_Subset, FS_CardinalityType DEF WiringAssumption, Size

LEMMA RootsFact ==
  ASSUME TypeInv, step <= NumSteps
  PROVE  Roots \in Seq(Node)
<1>1. CASE step <= NumStages
  <2>1. step \in DOMAIN w.operands
    BY <1>1, Wired DEF TypeInv, NumStages
  <2>2. w.operands[step] \in Seq(Node)
    BY <2>1, Wired DEF TypeInv
  <2> QED BY <1>1, <2>2 DEF Roots
<1>2. CASE ~(step <= NumStages)
  <2>1. w.atom[step - NumStages] \in Node
    BY <1>2, Wired DEF TypeInv
  <2> QED BY <1>2, <2>1 DEF Roots
<1> QED BY <1>1, <1>2

LEMMA AskedFact ==
  ASSUME TypeInv, Working
  PROVE  Asked \in Seq(Node)
<1>1. CASE stack = <<>>
  BY <1>1, RootsFact DEF Asked, Working
<1>2. CASE stack # <<>>
  <2>1. Head(stack) \in Node
    BY <1>2, Popped DEF TypeInv
  <2> QED BY <1>2, <2>1, Wired DEF Asked, TypeInv
<1> QED BY <1>1, <1>2

LEMMA WantedFact ==
  ASSUME TypeInv, Working, ~Ready
  PROVE  /\ Wanted \in Node /\ seen[Wanted] # 2
         /\ \E n \in DOMAIN Asked : Asked[n] = Wanted
<1> DEFINE T == {n \in DOMAIN Asked : seen[Asked[n]] # 2}
<1>1. Asked \in Seq(Node)
  BY AskedFact
<1>2. DOMAIN Asked = 1 .. Len(Asked) /\ Len(Asked) \in Nat
  BY <1>1
<1>3. T \subseteq Nat /\ T # {}
  BY <1>2 DEF Ready
<1>4. PICK n \in T : \A m \in T : n <= m
  <2> HIDE DEF T
  <2> QED BY <1>3, Least
<1>5. \A m \in 1 .. n - 1 : seen[Asked[m]] = 2
  BY <1>2, <1>4
<1> DEFINE P(q) == /\ seen[Asked[q]] # 2
                   /\ \A m \in 1 .. q - 1 : seen[Asked[m]] = 2
           c == CHOOSE q \in DOMAIN Asked : P(q)
<1>6. c \in DOMAIN Asked /\ P(c)
  <2>1. n \in DOMAIN Asked /\ P(n)
    BY <1>4, <1>5
  <2> HIDE DEF P
  <2> QED BY <2>1
<1>7. Wanted = Asked[c]
  BY DEF Wanted
<1>8. Asked[c] \in Node
  BY <1>1, <1>2, <1>6
<1> QED BY <1>6, <1>7, <1>8

(* A node's value in the memo is one level above those of its arguments. *)
LEMMA ValueLevel ==
  ASSUME TypeInv, NEW i \in Node, Kind(i) # "M", NEW V,
         \A n \in DOMAIN Args(i) : mem[Args(i)[n]] = V[Args(i)[n]]
  PROVE  [l \in Lane |-> Value(i, l)] = Level(task, V)[i]
<1> SUFFICES ASSUME NEW l \in Lane PROVE Value(i, l) = Meant(task, V, i, l)
  BY DEF Level
<1>1. /\ Kind(i) = "shuffle" => 1 \in DOMAIN Args(i)
      /\ Kind(i) = "pick" => 1 \in DOMAIN Args(i) /\ 2 \in DOMAIN Args(i)
      /\ Kind(i) \in {"site", "shuffle", "pick", "join"}
  BY Wired DEF TypeInv
<1>2. CASE Kind(i) = "site"
  BY <1>2 DEF Value, Meant, Own
<1>3. CASE Kind(i) = "shuffle"
  BY <1>1, <1>3 DEF Value, Meant, Own, From, Missing
<1>4. CASE Kind(i) = "pick"
  BY <1>1, <1>4 DEF Value, Meant, Own, Chosen, Missing
<1>5. CASE Kind(i) = "join"
  <2>1. Value(i, l) = UNION {mem[Args(i)[n]][l] : n \in DOMAIN Args(i)}
    BY <1>5 DEF Value
  <2>2. Meant(task, V, i, l) = UNION {V[Args(i)[n]][l] : n \in DOMAIN Args(i)}
    BY <1>5 DEF Meant
  <2> QED BY <2>1, <2>2
<1> QED BY <1>1, <1>2, <1>3, <1>4, <1>5

(* A lane is marked as its value deserves if those of the arguments are. *)
LEMMA TaintValue ==
  ASSUME TypeInv, NEW i \in Node, Kind(i) # "M", NEW l \in Lane,
         \A n \in DOMAIN Args(i) : \A m \in Lane :
           invalid[Args(i)[n]][m] <=> mem[Args(i)[n]][m] \cap absent # {}
  PROVE  Taint(i, l) \in BOOLEAN /\ (Taint(i, l) <=> Value(i, l) \cap absent # {})
<1>1. /\ Kind(i) = "shuffle" => 1 \in DOMAIN Args(i)
      /\ Kind(i) = "pick" => 1 \in DOMAIN Args(i) /\ 2 \in DOMAIN Args(i)
      /\ Kind(i) \in {"site", "shuffle", "pick", "join"}
      /\ Args(i) \in Seq(Node)
  BY Wired DEF TypeInv
<1>2. From(i, l) \in Lane
  BY LaneFact DEF From
<1>3. Missing(i, l) <=> {Own(i, l)} \cap absent # {}
  BY DEF Missing
<1>4. \A n \in DOMAIN Args(i) : \A m \in Lane : invalid[Args(i)[n]][m] \in BOOLEAN
  BY <1>1 DEF TypeInv
<1>5. CASE Kind(i) = "site"
  BY <1>3, <1>5 DEF Value, Taint, Missing
<1>6. CASE Kind(i) = "shuffle"
  <2>1. Value(i, l) = {Own(i, l)} \cup mem[Args(i)[1]][From(i, l)]
    BY <1>6 DEF Value
  <2>2. Taint(i, l) = (Missing(i, l) \/ invalid[Args(i)[1]][From(i, l)])
    BY <1>6 DEF Taint
  <2>3. invalid[Args(i)[1]][From(i, l)] <=> mem[Args(i)[1]][From(i, l)] \cap absent # {}
    BY <1>1, <1>2, <1>6
  <2> QED BY <1>3, <2>1, <2>2, <2>3
<1>7. CASE Kind(i) = "pick"
  <2>1. Value(i, l) = {Own(i, l)} \cup mem[Chosen(i, l)][l]
    BY <1>7 DEF Value
  <2>2. Taint(i, l) = (Missing(i, l) \/ invalid[Chosen(i, l)][l])
    BY <1>7 DEF Taint
  <2>3. invalid[Chosen(i, l)][l] <=> mem[Chosen(i, l)][l] \cap absent # {}
    BY <1>1, <1>7 DEF Chosen
  <2> QED BY <1>3, <2>1, <2>2, <2>3
<1>8. CASE Kind(i) = "join"
  <2>1. Value(i, l) = UNION {mem[Args(i)[n]][l] : n \in DOMAIN Args(i)}
    BY <1>8 DEF Value
  <2>2. Taint(i, l) = \E n \in DOMAIN Args(i) : invalid[Args(i)[n]][l]
    BY <1>8 DEF Taint
  <2> QED BY <2>1, <2>2
<1> QED BY <1>1, <1>5, <1>6, <1>7, <1>8

(* What the memo holds of the nodes it knows, one level below. *)
LEMMA Deeper ==
  ASSUME MeaningInv, NEW d \in 0 .. Size, Cardinality(Known) <= d
  PROVE  \A i \in Known : mem[i] = (IF d = 0 THEN Nothing ELSE Levels(task)[d - 1])[i]
<1>1. CASE d = 0
  <2>1. Known = {}
    BY <1>1, KnownFact, FS_EmptySet
  <2> QED BY <2>1
<1>2. CASE d # 0
  <2>1. d - 1 \in 0 .. Size /\ Cardinality(Known) <= (d - 1) + 1
    BY <1>2, SizeType
  <2> QED BY <1>2, <2>1 DEF MeaningInv
<1> QED BY <1>1, <1>2

LEMMA LevelAt ==
  ASSUME NEW t, NEW d \in 0 .. Size
  PROVE  Levels(t)[d] = Level(t, IF d = 0 THEN Nothing ELSE Levels(t)[d - 1])
  BY LevelsFact

(* What is in the memo means what the wiring says. *)
LEMMA KnownIsMeant ==
  ASSUME MeaningInv, NEW i \in Known
  PROVE  mem[i] = Meaning(task)[i]
<1>1. Size \in 0 .. Size /\ Cardinality(Known) <= Size + 1
  BY SizeType, KnownFact
<1> QED BY <1>1 DEF MeaningInv, Meaning, Size

(* No more calls are active than there are nodes. *)
LEMMA StackBound ==
  ASSUME TypeInv, StackInv
  PROVE  Len(stack) \in Nat /\ Len(stack) <= Size
<1> DEFINE f == [n \in 1 .. Len(stack) |-> stack[n]]
<1>1. Len(stack) \in Nat /\ \A n \in 1 .. Len(stack) : stack[n] \in Node
  BY DEF TypeInv
<1>2. f \in Injection(1 .. Len(stack), Node)
  <2>1. f \in [1 .. Len(stack) -> Node]
    BY <1>1
  <2>2. IsInjective(f)
    BY DEF StackInv, IsInjective
  <2> QED BY <2>1, <2>2 DEF Injection
<1>3. IsFiniteSet(Node)
  BY WiringAssumption DEF WiringAssumption
<1>4. Cardinality(1 .. Len(stack)) <= Cardinality(Node)
  <2> HIDE DEF f
  <2> QED BY <1>2, <1>3, FS_Injection
<1>5. Cardinality(1 .. Len(stack)) = Len(stack)
  <2>1. PICK n \in Nat : n = Len(stack)
    BY <1>1
  <2>2. Cardinality(1 .. n) = IF 1 > n THEN 0 ELSE n - 1 + 1
    BY FS_Interval
  <2>3. Cardinality(1 .. n) = n
    BY <2>1, <2>2
  <2> QED BY <2>1, <2>3
<1> QED BY <1>1, <1>4, <1>5 DEF Size

-----------------------------------------------------------------------------
LEMMA InitInv == Init => IInv
<1> SUFFICES ASSUME Init PROVE IInv
  OBVIOUS
<1> USE DEF Init
<1>1. TypeInv
  <2>1. 1 \in 1 .. NumSteps + 1
    BY Wired
  <2>2. DOMAIN mem = Node /\ invalid \in [Node -> [Lane -> BOOLEAN]]
    BY DEF Blank, Clean
  <2> QED BY <2>1, <2>2 DEF TypeInv
<1>2. SetupInv /\ StackInv /\ PathInv
  BY DEF SetupInv, StackInv, PathInv
<1>3. AtomInv
  BY Wired DEF AtomInv
<1>4. MeaningInv
  BY DEF MeaningInv, Known
<1>5. TaintInv
  BY DEF TaintInv, Clean
<1> QED BY <1>1, <1>2, <1>3, <1>4, <1>5 DEF IInv

(* The status says little: what does not touch the rest keeps IInv. *)
LEMMA Frozen ==
  ASSUME IInv, UNCHANGED <<input, at, step, memo, stack>>, SetupInv',
         status' \in {"setup", "bad atoms", "next"} => stack = <<>>
  PROVE  IInv'
<1> USE DEF IInv, memo
<1>1. UNCHANGED <<input, at, step, seen, mem, invalid, stack>>
  OBVIOUS
<1>2. UNCHANGED <<w, absent, psel>> /\ task' = task /\ Known' = Known /\ Roots' = Roots
  BY <1>1 DEF input, task, Known, Roots, NumStages
<1>3. \A i : Kind(i)' = Kind(i) /\ Args(i)' = Args(i) /\ Reach(i)' = Reach(i)
  BY SameInput
<1>4. NumSteps' = NumSteps /\ NumStages' = NumStages /\ \A k : Atom(k)' = Atom(k)
  BY SameInput
<1>5. \A t : Levels(t)' = Levels(t)
  BY SameInput
<1>6. TypeInv'
  BY <1>1, <1>2, <1>4 DEF TypeInv
<1>7. StackInv'
  BY <1>1, <1>3, <1>4 DEF StackInv
<1>8. PathInv'
  BY <1>1, <1>2, <1>3 DEF PathInv
<1>9. AtomInv'
  BY <1>1, <1>2, <1>3, <1>4 DEF AtomInv
<1>10. MeaningInv'
  BY <1>1, <1>2, <1>5 DEF MeaningInv
<1>11. TaintInv'
  BY <1>1, <1>2 DEF TaintInv
<1> QED BY <1>6, <1>7, <1>8, <1>9, <1>10, <1>11

LEMMA SetupAtomsInv == IInv /\ SetupAtoms => IInv'
<1> SUFFICES ASSUME IInv, SetupAtoms PROVE IInv'
  OBVIOUS
<1>1. UNCHANGED <<input, at, step, memo, stack>> /\ stack = <<>>
  BY DEF SetupAtoms, IInv, StackInv
<1>2. SetupInv'
  BY <1>1, SameInput DEF SetupAtoms, SetupInv
<1> QED BY <1>1, <1>2, Frozen

LEMMA ThrowInv ==
  ASSUME IInv, Working, NEW why, Throw(why),
         why \notin {"setup", "bad atoms", "next"}
  PROVE  IInv'
<1>1. UNCHANGED <<input, at, step, memo, stack>>
  BY DEF Throw
<1>2. SetupInv'
  BY <1>1, SameInput DEF IInv, SetupInv, Working
<1> QED BY <1>1, <1>2, Frozen DEF Throw

LEMMA ReturnInv == IInv /\ Return => IInv'
<1> SUFFICES ASSUME IInv, Return PROVE IInv'
  OBVIOUS
<1>1. UNCHANGED <<input, at, step, memo, stack>> /\ stack = <<>>
  BY DEF Return, IInv, StackInv
<1>2. SetupInv'
  BY <1>1, SameInput DEF Return, IInv, SetupInv
<1> QED BY <1>1, <1>2, Frozen

LEMMA BeginInv == IInv /\ Begin => IInv'
<1> SUFFICES ASSUME IInv, Begin PROVE IInv'
  OBVIOUS
<1> USE DEF IInv
<1>1. /\ UNCHANGED input /\ mem' = mem /\ stack' = stack /\ stack = <<>>
      /\ step' = 1 /\ status' = "run" /\ status = "next"
      /\ seen' = [i \in Node |-> 0] /\ invalid' = Clean
  BY DEF Begin, StackInv
<1>2. w' = w /\ absent' = absent
  BY <1>1 DEF input
<1>3. TypeInv'
  <2>1. 1 \in 1 .. NumSteps + 1
    BY Wired DEF TypeInv
  <2>2. Clean \in [Node -> [Lane -> BOOLEAN]]
    BY DEF Clean
  <2> QED BY <1>1, <1>2, <2>1, <2>2, SameInput DEF TypeInv
<1>4. SetupInv'
  BY <1>1, SameInput DEF SetupInv
<1>5. StackInv' /\ PathInv'
  BY <1>1 DEF StackInv, PathInv
<1>6. AtomInv'
  <2>1. NumStages \in Nat
    BY Wired DEF TypeInv
  <2> QED BY <1>1, <2>1, SameInput DEF AtomInv
<1>7. MeaningInv'
  BY <1>1 DEF MeaningInv, Known
<1>8. TaintInv'
  BY <1>1 DEF TaintInv, Clean
<1> QED BY <1>3, <1>4, <1>5, <1>6, <1>7, <1>8

(* val enters a node that is neither in the memo nor under evaluation. *)
LEMMA EnterInv ==
  ASSUME IInv, Working, ~Ready, seen[Wanted] = 0, Kind(Wanted) # "M",
         seen' = [seen EXCEPT ![Wanted] = 1],
         stack' = <<Wanted>> \o stack,
         UNCHANGED <<input, at, step, mem, invalid, out, status>>
  PROVE  IInv'
<1> USE DEF IInv
<1>0. /\ \A i : Kind(i)' = Kind(i) /\ Args(i)' = Args(i) /\ Reach(i)' = Reach(i)
      /\ NumSteps' = NumSteps /\ NumStages' = NumStages
      /\ \A k : Atom(k)' = Atom(k)
  BY SameInput
<1>1. PICK x \in Node : x = Wanted /\ \E n \in DOMAIN Asked : Asked[n] = x
  BY WantedFact
<1>2. /\ \A i \in Node : seen[i] \in 0 .. 2
      /\ seen' = [seen EXCEPT ![x] = 1] /\ seen[x] = 0 /\ Kind(x) # "M"
      /\ \A i \in Node : seen'[i] = IF i = x THEN 1 ELSE seen[i]
  BY <1>1 DEF TypeInv
<1>3. /\ stack \in Seq(Node) /\ Len(stack) \in Nat
      /\ stack' \in Seq(Node) /\ Len(stack') = Len(stack) + 1 /\ stack' # <<>>
      /\ stack'[1] = x
      /\ \A n \in 1 .. Len(stack) : stack'[n + 1] = stack[n]
  <2>1. stack \in Seq(Node)
    BY DEF TypeInv
  <2>2. stack' = <<x>> \o stack
    BY <1>1
  <2> QED BY <2>1, <2>2, Pushed
<1>4. \A n \in 1 .. Len(stack') : n = 1 \/ (n - 1 \in 1 .. Len(stack) /\ stack'[n] = stack[n - 1])
  BY <1>3
<1>5. \A n \in 1 .. Len(stack) : stack[n] \in Node /\ stack[n] # x
  <2>1. \A n \in 1 .. Len(stack) : seen[stack[n]] = 1
    BY DEF StackInv
  <2>2. \A n \in 1 .. Len(stack) : stack[n] \in Node
    BY DEF TypeInv
  <2> QED BY <1>2, <2>1, <2>2
<1>6. w' = w /\ absent' = absent /\ task' = task /\ step' = step /\ Roots' = Roots
  BY DEF input, task, Roots, NumStages
<1>7. TypeInv'
  BY <1>2, <1>3, <1>6, SameInput DEF TypeInv
<1>8. SetupInv'
  BY SameInput DEF SetupInv
<1>9. StackInv'
  <2>1. (\A n \in 1 .. Len(stack) : Kind(stack[n]) # "M" /\ seen[stack[n]] = 1)'
    <3> SUFFICES ASSUME NEW n \in 1 .. Len(stack')
                 PROVE  Kind(stack'[n]) # "M" /\ seen'[stack'[n]] = 1
      BY <1>0
    <3>1. CASE n = 1
      BY <1>2, <1>3, <3>1
    <3>2. CASE n - 1 \in 1 .. Len(stack) /\ stack'[n] = stack[n - 1]
      <4>1. Kind(stack[n - 1]) # "M" /\ seen[stack[n - 1]] = 1
        BY <3>2 DEF StackInv
      <4>2. seen'[stack[n - 1]] = 1
        BY <1>2, <1>5, <3>2, <4>1
      <4> QED BY <3>2, <4>1, <4>2
    <3> QED BY <1>4, <3>1, <3>2
  <2>2. ASSUME NEW i \in Node, seen'[i] = 1 PROVE \E n \in 1 .. Len(stack') : stack'[n] = i
    <3>1. CASE i = x
      BY <1>3, <3>1
    <3>2. CASE i # x
      <4>1. PICK n \in 1 .. Len(stack) : stack[n] = i
        BY <1>2, <2>2, <3>2 DEF StackInv
      <4>2. n + 1 \in 1 .. Len(stack') /\ stack'[n + 1] = i
        BY <1>3, <4>1
      <4> QED BY <4>2
    <3> QED BY <3>1, <3>2
  <2>3. ASSUME NEW m \in 1 .. Len(stack'), NEW n \in 1 .. Len(stack'), stack'[m] = stack'[n]
        PROVE  m = n
    <3>1. CASE m = 1
      BY <1>3, <1>4, <1>5, <2>3, <3>1
    <3>2. CASE n = 1
      BY <1>3, <1>4, <1>5, <2>3, <3>2
    <3>3. CASE m # 1 /\ n # 1
      <4>1. m - 1 \in 1 .. Len(stack) /\ n - 1 \in 1 .. Len(stack) /\ stack[m - 1] = stack[n - 1]
        BY <1>4, <2>3, <3>3
      <4>2. m - 1 = n - 1
        BY <4>1 DEF StackInv
      <4> QED BY <4>2
    <3> QED BY <3>1, <3>2, <3>3
  <2>4. status' \notin {"setup", "bad atoms", "next"} /\ ~(step' > NumSteps')
    <3>1. NumSteps \in Nat /\ step \in Nat
      BY Wired DEF TypeInv
    <3> QED BY <1>0, <1>6, <3>1 DEF Working
  <2> QED BY <2>1, <2>2, <2>3, <2>4 DEF StackInv
<1>10. PathInv'
  <2>1. \E n \in DOMAIN Roots' : Roots'[n] = stack'[Len(stack')]
    <3>1. CASE stack = <<>>
      <4>1. Len(stack') = 1 /\ Asked = Roots
        BY <1>3, <3>1 DEF Asked
      <4> QED BY <1>1, <1>3, <1>6, <4>1
    <3>2. CASE stack # <<>>
      <4>1. Len(stack) \in 1 .. Len(stack)
        BY <1>3, <3>2, Popped
      <4>2. stack'[Len(stack')] = stack[Len(stack)]
        BY <1>3, <4>1
      <4> QED BY <1>6, <3>2, <4>2 DEF PathInv
    <3> QED BY <3>1, <3>2
  <2>2. stack # <<>> => /\ Asked = Args(stack[1]) /\ 1 \in 1 .. Len(stack)
                        /\ \E k \in DOMAIN Args(stack[1]) : Args(stack[1])[k] = x
    BY <1>1, <1>3, Popped DEF Asked
  <2>3. ASSUME NEW n \in 1 .. Len(stack'), n < Len(stack')
        PROVE  \E k \in DOMAIN Args(stack'[n + 1]) : Args(stack'[n + 1])[k] = stack'[n]
    <3>1. n \in 1 .. Len(stack) /\ stack'[n + 1] = stack[n] /\ stack # <<>>
      BY <1>3, <2>3
    <3>2. CASE n = 1
      BY <1>3, <2>2, <3>1, <3>2
    <3>3. CASE n # 1
      <4>1. n - 1 \in 1 .. Len(stack) /\ n - 1 < Len(stack) /\ (n - 1) + 1 = n /\ stack'[n] = stack[n - 1]
        BY <1>3, <1>4, <3>1, <3>3
      <4> QED BY <3>1, <4>1 DEF PathInv
    <3> QED BY <3>2, <3>3
  <2>4. ASSUME NEW a \in 1 .. Len(stack'), NEW b \in 1 .. Len(stack'), b <= a
        PROVE  stack'[b] \in Reach(stack'[a])[a - b]
    <3>1. CASE a = b
      <4>1. a - b = 0 /\ Reach(stack'[a])[0] = {stack'[a]}
        <5>1. 0 < Size
          <6>1. Node # {}
            BY <1>1
          <6> QED BY <6>1, SizeType, FS_EmptySet, WiringAssumption DEF Size, WiringAssumption
        <5> QED BY <3>1, <5>1, ReachStep
      <4> QED BY <3>1, <4>1
    <3>2. CASE a # b
      <4>1. /\ a - 1 \in 1 .. Len(stack) /\ stack'[a] = stack[a - 1]
            /\ a # 1 /\ Len(stack) # 0 /\ stack # <<>>
        BY <1>3, <1>4, <2>4, <3>2
      <4>2. CASE b = 1
        <5>1. PICK e \in Nat : e = a - 2 /\ e = (a - 1) - 1 /\ e + 1 = a - 1 /\ e < Size
          <6>1. Len(stack) <= Size
            BY StackBound
          <6> QED BY <1>3, <4>1, <6>1, SizeType
        <5>2. stack[1] \in Reach(stack[a - 1])[e]
          <6>1. 1 \in 1 .. Len(stack) /\ 1 <= a - 1
            BY <1>3, <4>1
          <6> QED BY <4>1, <5>1, <6>1 DEF PathInv
        <5>3. Kind(stack[1]) # "M"
          BY <2>2, <4>1 DEF StackInv
        <5>4. x \in Grow(Reach(stack[a - 1])[e])
          BY <2>2, <4>1, <5>2, <5>3 DEF Grow
        <5>5. Reach(stack[a - 1])[e + 1] = Grow(Reach(stack[a - 1])[e])
          BY <5>1, ReachStep
        <5>6. a - b = e + 1
          BY <4>2, <5>1
        <5> QED BY <1>3, <4>1, <4>2, <5>4, <5>5, <5>6
      <4>3. CASE b # 1
        <5>1. b - 1 \in 1 .. Len(stack) /\ stack'[b] = stack[b - 1]
          BY <1>4, <4>3
        <5>2. b - 1 <= a - 1 /\ (a - 1) - (b - 1) = a - b
          BY <2>4
        <5> QED BY <4>1, <5>1, <5>2 DEF PathInv
      <4> QED BY <4>2, <4>3
    <3> QED BY <3>1, <3>2
  <2> QED BY <1>0, <2>1, <2>3, <2>4 DEF PathInv
<1>11. AtomInv'
  <2>1. \A i \in Node : seen'[i] = 2 <=> seen[i] = 2
    BY <1>2
  <2>2. \A k \in 1 .. NumStages : k < step => seen'[Atom(k)] = 2
    <3> SUFFICES ASSUME NEW k \in 1 .. NumStages, k < step PROVE seen'[Atom(k)] = 2
      OBVIOUS
    <3>1. AtomsOf(k) # {}
      BY DEF SetupInv, Working
    <3>2. Atom(k) \in Node
      BY <3>1, AtomFact DEF TypeInv
    <3> QED BY <2>1, <3>2 DEF AtomInv
  <2> QED BY <1>0, <1>6, <2>1, <2>2 DEF AtomInv
<1>12. Known' = Known
  BY <1>2 DEF Known
<1>13. MeaningInv'
  BY <1>6, <1>12, SameInput DEF MeaningInv
<1>14. TaintInv'
  BY <1>2, <1>6 DEF TaintInv
<1> QED BY <1>7, <1>8, <1>9, <1>10, <1>11, <1>13, <1>14

(* One more value in the memo, one level above those it was made of. *)
LEMMA Learned ==
  ASSUME TypeInv, MeaningInv, UNCHANGED <<input, at>>, NEW i \in Node, seen[i] # 2,
         seen' = [seen EXCEPT ![i] = 2],
         NEW v, mem' = [mem EXCEPT ![i] = v],
         \A V : (\A a \in Known : mem[a] = V[a]) => v = Level(task, V)[i]
  PROVE  MeaningInv'
<1>1. /\ \A j \in Node : seen'[j] = IF j = i THEN 2 ELSE seen[j]
      /\ \A j \in Node : mem'[j] = IF j = i THEN v ELSE mem[j]
  BY DEF TypeInv
<1>2. Known' = Known \cup {i} /\ i \notin Known
  BY <1>1 DEF Known
<1>3. Cardinality(Known') = Cardinality(Known) + 1
  BY <1>2, KnownFact, FS_AddElement
<1>4. task' = task /\ \A t : Levels(t)' = Levels(t)
  BY SameInput DEF task
<1>5. ASSUME NEW j \in Known', NEW d \in 0 .. Size, Cardinality(Known') <= d + 1
      PROVE  mem'[j] = Levels(task)[d][j]
  <2>1. Cardinality(Known) <= d /\ Cardinality(Known) <= d + 1
    BY <1>3, <1>5, KnownFact, SizeType
  <2>2. CASE j = i
    <3>1. v = Level(task, IF d = 0 THEN Nothing ELSE Levels(task)[d - 1])[i]
      BY <2>1, Deeper
    <3> QED BY <1>1, <2>2, <3>1, LevelAt
  <2>3. CASE j # i
    <3>1. j \in Known
      BY <1>2, <2>3
    <3>2. mem'[j] = mem[j]
      BY <1>1, <2>3, <3>1 DEF Known
    <3> QED BY <2>1, <3>1, <3>2 DEF MeaningInv
  <2> QED BY <2>2, <2>3
<1> QED BY <1>4, <1>5 DEF MeaningInv

LEMMA ComputeInv == IInv /\ Compute => IInv'
<1> SUFFICES ASSUME IInv, Compute PROVE IInv'
  OBVIOUS
<1> USE DEF IInv
<1>0. /\ \A j : Kind(j)' = Kind(j) /\ Args(j)' = Args(j) /\ Reach(j)' = Reach(j)
      /\ NumSteps' = NumSteps /\ NumStages' = NumStages
      /\ \A k : Atom(k)' = Atom(k) /\ AtomsOf(k)' = AtomsOf(k)
      /\ UNCHANGED <<input, at, step, status>>
  BY SameInput DEF Compute
<1>1. /\ Working /\ stack # <<>> /\ Ready /\ stack' = Tail(stack)
      /\ mem' = [mem EXCEPT ![Head(stack)] = [l \in Lane |-> Value(Head(stack), l)]]
      /\ invalid' = [invalid EXCEPT ![Head(stack)] = [l \in Lane |-> Taint(Head(stack), l)]]
      /\ seen' = [seen EXCEPT ![Head(stack)] = 2]
  BY DEF Compute
<1>2. /\ stack \in Seq(Node) /\ Len(stack) \in Nat /\ Len(stack) >= 1
      /\ stack' \in Seq(Node) /\ Len(stack') = Len(stack) - 1
      /\ Head(stack) = stack[1] /\ stack[1] \in Node
      /\ \A n \in 1 .. Len(stack') : stack'[n] = stack[n + 1]
  BY <1>1, Popped DEF TypeInv
<1>3. PICK i \in Node : i = stack[1] /\ i = Head(stack)
  BY <1>2
<1>4. Kind(i) # "M" /\ seen[i] = 1
  <2>1. 1 \in 1 .. Len(stack)
    BY <1>2
  <2>2. Kind(stack[1]) # "M" /\ seen[stack[1]] = 1
    BY <2>1 DEF StackInv
  <2> QED BY <1>3, <2>2
<1>5. /\ \A j \in Node : seen'[j] = IF j = i THEN 2 ELSE seen[j]
      /\ \A j \in Node : mem'[j] = IF j = i THEN [l \in Lane |-> Value(i, l)] ELSE mem[j]
      /\ \A j \in Node : invalid'[j] = IF j = i THEN [l \in Lane |-> Taint(i, l)] ELSE invalid[j]
  BY <1>1, <1>3 DEF TypeInv
<1>6. /\ Args(i) \in Seq(Node)
      /\ \A n \in DOMAIN Args(i) : Args(i)[n] \in Node /\ Args(i)[n] \in Known
  <2>1. Args(i) \in Seq(Node)
    BY Wired DEF TypeInv
  <2>2. Asked = Args(i)
    BY <1>1, <1>3 DEF Asked
  <2>3. \A n \in DOMAIN Args(i) : Args(i)[n] \in Node
    BY <2>1
  <2> QED BY <1>1, <2>1, <2>2, <2>3 DEF Ready, Known
<1>7. w' = w /\ absent' = absent /\ psel' = psel /\ task' = task /\ Roots' = Roots
  BY <1>0 DEF input, task, Roots, NumStages
<1>8. \A l \in Lane : Taint(i, l) \in BOOLEAN /\ (Taint(i, l) <=> Value(i, l) \cap absent # {})
  <2>1. \A n \in DOMAIN Args(i) : \A m \in Lane :
          invalid[Args(i)[n]][m] <=> mem[Args(i)[n]][m] \cap absent # {}
    BY <1>6 DEF TaintInv, Known
  <2> QED BY <1>4, <2>1, TaintValue
<1>9. TypeInv'
  <2>1. seen' \in [Node -> 0 .. 2]
    BY <1>1, <1>3 DEF TypeInv
  <2>2. invalid' \in [Node -> [Lane -> BOOLEAN]]
    <3>1. [l \in Lane |-> Taint(i, l)] \in [Lane -> BOOLEAN]
      BY <1>8
    <3> QED BY <1>1, <1>3, <3>1 DEF TypeInv
  <2>3. DOMAIN mem' = Node
    BY <1>1 DEF TypeInv
  <2> QED BY <1>0, <1>2, <1>7, <2>1, <2>2, <2>3 DEF TypeInv
<1>10. SetupInv'
  BY <1>0 DEF SetupInv
<1>11. StackInv'
  <2>1. \A n \in 1 .. Len(stack') : n + 1 \in 1 .. Len(stack) /\ n + 1 # 1
    BY <1>2
  <2>2. ASSUME NEW n \in 1 .. Len(stack')
        PROVE  stack'[n] \in Node /\ stack'[n] # i /\ Kind(stack'[n]) # "M" /\ seen'[stack'[n]] = 1
    <3>1. stack[n + 1] \in Node
      BY <1>2, <2>1
    <3>2. Kind(stack[n + 1]) # "M" /\ seen[stack[n + 1]] = 1
      BY <2>1 DEF StackInv
    <3>3. stack[n + 1] # i
      <4>1. 1 \in 1 .. Len(stack) /\ n + 1 \in 1 .. Len(stack) /\ n + 1 # 1
        BY <1>2, <2>1
      <4>2. stack[n + 1] = stack[1] => n + 1 = 1
        BY <4>1 DEF StackInv
      <4> QED BY <1>3, <4>1, <4>2
    <3> QED BY <1>2, <1>5, <3>1, <3>2, <3>3
  <2>3. ASSUME NEW j \in Node, seen'[j] = 1 PROVE \E n \in 1 .. Len(stack') : stack'[n] = j
    <3>1. j # i /\ seen[j] = 1
      BY <1>5, <2>3
    <3>2. PICK n \in 1 .. Len(stack) : stack[n] = j
      BY <3>1 DEF StackInv
    <3>3. n # 1
      BY <1>3, <3>1, <3>2
    <3>4. n - 1 \in 1 .. Len(stack') /\ (n - 1) + 1 = n
      BY <1>2, <3>3
    <3> QED BY <1>2, <3>2, <3>4
  <2>4. ASSUME NEW m \in 1 .. Len(stack'), NEW n \in 1 .. Len(stack'), stack'[m] = stack'[n]
        PROVE  m = n
    <3>1. stack[m + 1] = stack[n + 1]
      BY <1>2, <2>4
    <3>2. m + 1 = n + 1
      BY <2>1, <3>1 DEF StackInv
    <3> QED BY <3>2
  <2>5. status' \notin {"setup", "bad atoms", "next"} /\ ~(step' > NumSteps')
    <3>1. NumSteps \in Nat /\ step \in Nat
      BY Wired DEF TypeInv
    <3> QED BY <1>0, <1>1, <3>1 DEF Working
  <2>6. (\A n \in 1 .. Len(stack) : Kind(stack[n]) # "M" /\ seen[stack[n]] = 1)'
    BY <1>0, <2>2
  <2> QED BY <2>3, <2>4, <2>5, <2>6 DEF StackInv
<1>12. PathInv'
  <2>1. \A n \in 1 .. Len(stack') : n + 1 \in 1 .. Len(stack)
    BY <1>2
  <2>2. stack' # <<>> => \E n \in DOMAIN Roots' : Roots'[n] = stack'[Len(stack')]
    <3> SUFFICES ASSUME stack' # <<>> PROVE \E n \in DOMAIN Roots' : Roots'[n] = stack'[Len(stack')]
      OBVIOUS
    <3>1. Len(stack') \in 1 .. Len(stack')
      BY <1>2, Popped
    <3>2. stack'[Len(stack')] = stack[Len(stack)]
      <4>1. Len(stack') + 1 = Len(stack)
        BY <1>2
      <4> QED BY <1>2, <3>1, <4>1
    <3>3. \E n \in DOMAIN Roots : Roots[n] = stack[Len(stack)]
      BY <1>1 DEF PathInv
    <3> QED BY <1>7, <3>2, <3>3
  <2>3. ASSUME NEW n \in 1 .. Len(stack'), n < Len(stack')
        PROVE  \E k \in DOMAIN Args(stack'[n + 1]) : Args(stack'[n + 1])[k] = stack'[n]
    <3>1. n + 1 \in 1 .. Len(stack') /\ stack'[n] = stack[n + 1] /\ stack'[n + 1] = stack[(n + 1) + 1]
      BY <1>2, <2>3
    <3>2. n + 1 \in 1 .. Len(stack) /\ n + 1 < Len(stack)
      BY <1>2, <2>3
    <3>3. \E k \in DOMAIN Args(stack[(n + 1) + 1]) : Args(stack[(n + 1) + 1])[k] = stack[n + 1]
      BY <3>2 DEF PathInv
    <3> QED BY <3>1, <3>3
  <2>4. ASSUME NEW a \in 1 .. Len(stack'), NEW b \in 1 .. Len(stack'), b <= a
        PROVE  stack'[b] \in Reach(stack'[a])[a - b]
    <3>1. stack'[a] = stack[a + 1] /\ stack'[b] = stack[b + 1]
      BY <1>2
    <3>2. b + 1 <= a + 1 /\ (a + 1) - (b + 1) = a - b
      BY <2>4
    <3>3. stack[b + 1] \in Reach(stack[a + 1])[(a + 1) - (b + 1)]
      BY <2>1, <3>2 DEF PathInv
    <3> QED BY <3>1, <3>2, <3>3
  <2> QED BY <1>0, <2>2, <2>3, <2>4 DEF PathInv
<1>13. AtomInv'
  <2>1. \A j \in Node : Kind(j) = "M" /\ seen'[j] = 2 => w.form[j].stage < step
    BY <1>4, <1>5 DEF AtomInv
  <2>2. ASSUME NEW k \in 1 .. NumStages, k < step PROVE seen'[Atom(k)] = 2
    <3>1. AtomsOf(k) # {}
      BY <1>1 DEF SetupInv, Working
    <3>2. Atom(k) \in Node
      BY <3>1, AtomFact DEF TypeInv
    <3>3. seen[Atom(k)] = 2
      BY <2>2 DEF AtomInv
    <3> QED BY <1>5, <3>2, <3>3
  <2> QED BY <1>0, <1>7, <2>1, <2>2 DEF AtomInv
<1>14. MeaningInv'
  <2>1. PICK v : v = [l \in Lane |-> Value(i, l)]
    OBVIOUS
  <2>2. ASSUME NEW V, \A a \in Known : mem[a] = V[a]
        PROVE  v = Level(task, V)[i]
    BY <1>4, <1>6, <2>1, <2>2, ValueLevel
  <2>3. UNCHANGED <<input, at>>
    BY <1>0
  <2>4. seen[i] # 2 /\ seen' = [seen EXCEPT ![i] = 2] /\ mem' = [mem EXCEPT ![i] = v]
    BY <1>1, <1>3, <1>4, <2>1
  <2> QED BY <2>2, <2>3, <2>4, Learned
<1>15. TaintInv'
  <2>1. ASSUME NEW j \in Node, NEW l \in Lane
        PROVE  /\ seen'[j] = 2 => (invalid'[j][l] <=> mem'[j][l] \cap absent # {})
               /\ seen'[j] # 2 => ~invalid'[j][l]
    <3>1. CASE j = i
      <4>1. seen'[j] = 2 /\ mem'[j][l] = Value(i, l)
        BY <1>5, <3>1
      <4>2. invalid'[j][l] = Taint(i, l)
        BY <1>5, <3>1
      <4> QED BY <1>8, <4>1, <4>2
    <3>2. CASE j # i
      BY <1>5, <3>2 DEF TaintInv
    <3> QED BY <3>1, <3>2
  <2> QED BY <1>7, <2>1 DEF TaintInv
<1> QED BY <1>9, <1>10, <1>11, <1>12, <1>13, <1>14, <1>15

(* Between two calls of val nothing is under evaluation, and what a stage  *)
(* or a store asks for is in the memo. *)
LEMMA Idle ==
  ASSUME IInv, Working, stack = <<>>, Ready
  PROVE  /\ \A i \in Node : seen[i] # 1
         /\ Roots \in Seq(Node)
         /\ \A n \in DOMAIN Roots : Roots[n] \in Node /\ Roots[n] \in Known
<1>1. \A i \in Node : seen[i] # 1
  BY DEF IInv, StackInv
<1>2. Roots \in Seq(Node)
  BY RootsFact DEF IInv, Working
<1>3. Asked = Roots
  BY DEF Asked
<1>4. \A n \in DOMAIN Roots : Roots[n] \in Node
  BY <1>2
<1> QED BY <1>1, <1>2, <1>3, <1>4 DEF Ready, Known

(* An MMA stage that is not refused. *)
LEMMA StageInv ==
  ASSUME IInv, Stage, status' = status
  PROVE  IInv'
<1> USE DEF IInv
<1>0. /\ Working /\ step <= NumStages /\ stack = <<>> /\ Ready /\ status = "run"
  <2>1. Working /\ step <= NumStages /\ stack = <<>> /\ Ready
    BY DEF Stage
  <2> QED BY <2>1 DEF Working
<1>1. /\ ~\E n \in DOMAIN Roots, l \in Lane : invalid[Roots[n]][l]
      /\ mem' = [mem EXCEPT ![Atom(step)] = [l \in Lane |-> Mixed]]
      /\ seen' = [seen EXCEPT ![Atom(step)] = 2]
      /\ step' = step + 1
      /\ UNCHANGED <<input, at, invalid, stack>>
  BY <1>0 DEF Stage, Throw
<1>2. /\ \A j : Kind(j)' = Kind(j)
      /\ NumSteps' = NumSteps /\ NumStages' = NumStages
      /\ \A k : Atom(k)' = Atom(k) /\ AtomsOf(k)' = AtomsOf(k)
  BY <1>1, SameInput
<1>3. w' = w /\ absent' = absent /\ task' = task
  BY <1>1 DEF input, task
<1>4. /\ step \in 1 .. NumStages /\ step \in Nat /\ NumStages \in Nat
      /\ NumSteps \in Nat /\ NumStages <= NumSteps
  BY <1>0, Wired DEF TypeInv
<1>5. PICK i \in Node : i = Atom(step) /\ Kind(i) = "M" /\ w.form[i].stage = step
  <2>1. AtomsOf(step) # {}
    BY <1>0, <1>4 DEF SetupInv
  <2> QED BY <2>1, AtomFact DEF TypeInv
<1>6. seen[i] # 2
  BY <1>4, <1>5 DEF AtomInv
<1>7. /\ \A j \in Node : seen'[j] = IF j = i THEN 2 ELSE seen[j]
      /\ \A j \in Node : mem'[j] = IF j = i THEN [l \in Lane |-> Mixed] ELSE mem[j]
  BY <1>1, <1>5 DEF TypeInv
<1>8. /\ \A j \in Node : seen[j] # 1
      /\ \A n \in DOMAIN Roots : Roots[n] \in Node /\ Roots[n] \in Known
  BY <1>0, Idle
<1>9. TypeInv'
  <2>1. seen' \in [Node -> 0 .. 2] /\ DOMAIN mem' = Node
    BY <1>1, <1>5 DEF TypeInv
  <2>2. step' \in 1 .. NumSteps' + 1
    BY <1>1, <1>2, <1>4
  <2> QED BY <1>1, <1>3, <2>1, <2>2 DEF TypeInv
<1>10. SetupInv'
  BY <1>0, <1>2 DEF SetupInv
<1>11. StackInv' /\ PathInv'
  <2>1. \A j \in Node : seen'[j] # 1
    BY <1>7, <1>8
  <2> QED BY <1>0, <1>1, <2>1 DEF StackInv, PathInv
<1>12. AtomInv'
  <2>1. ASSUME NEW j \in Node, Kind(j) = "M", seen'[j] = 2 PROVE w.form[j].stage < step'
    <3>1. w.form[j].stage \in Nat
      BY Wired DEF TypeInv
    <3>2. j # i => w.form[j].stage < step
      BY <1>7, <2>1 DEF AtomInv
    <3> QED BY <1>1, <1>4, <1>5, <3>1, <3>2
  <2>2. ASSUME NEW k \in 1 .. NumStages, k < step' PROVE seen'[Atom(k)] = 2
    <3>1. AtomsOf(k) # {}
      BY <1>0 DEF SetupInv
    <3>2. Atom(k) \in Node
      BY <3>1, AtomFact DEF TypeInv
    <3>3. k = step \/ k < step
      BY <1>1, <1>4, <2>2
    <3>4. k < step => seen[Atom(k)] = 2
      BY DEF AtomInv
    <3> QED BY <1>5, <1>7, <3>2, <3>3, <3>4
  <2> QED BY <1>2, <1>3, <2>1, <2>2 DEF AtomInv
<1>13. MeaningInv'
  <2>1. PICK v : v = [l \in Lane |-> Mixed]
    OBVIOUS
  <2>2. ASSUME NEW V, \A a \in Known : mem[a] = V[a]
        PROVE  v = Level(task, V)[i]
    <3>1. Roots = w.operands[w.form[i].stage]
      BY <1>0, <1>5 DEF Roots
    <3>2. Mixed = UNION {V[Roots[n]][m] : n \in DOMAIN Roots, m \in Lane}
      BY <1>8, <2>2 DEF Mixed
    <3>3. \A l \in Lane : Meant(task, V, i, l) = Mixed
      BY <1>5, <3>1, <3>2 DEF Meant
    <3> QED BY <2>1, <3>3 DEF Level
  <2>3. UNCHANGED <<input, at>>
    BY <1>1
  <2>4. seen' = [seen EXCEPT ![i] = 2] /\ mem' = [mem EXCEPT ![i] = v]
    BY <1>1, <1>5, <2>1
  <2> QED BY <1>6, <2>2, <2>3, <2>4, Learned
<1>14. TaintInv'
  <2>1. Mixed \cap absent = {}
    BY <1>1, <1>8 DEF TaintInv, Known, Mixed
  <2>2. ASSUME NEW j \in Node, NEW l \in Lane
        PROVE  /\ seen'[j] = 2 => (invalid[j][l] <=> mem'[j][l] \cap absent # {})
               /\ seen'[j] # 2 => ~invalid[j][l]
    <3>1. CASE j = i
      <4>1. mem'[j][l] = Mixed /\ seen'[j] = 2
        BY <1>7, <3>1
      <4>2. ~invalid[j][l]
        BY <1>6, <3>1 DEF TaintInv
      <4> QED BY <2>1, <4>1, <4>2
    <3>2. CASE j # i
      BY <1>7, <3>2 DEF TaintInv
    <3> QED BY <3>1, <3>2
  <2> QED BY <1>1, <1>3, <2>2 DEF TaintInv
<1> QED BY <1>9, <1>10, <1>11, <1>12, <1>13, <1>14

LEMMA StoreInv == IInv /\ Store => IInv'
<1> SUFFICES ASSUME IInv, Store PROVE IInv'
  OBVIOUS
<1> USE DEF IInv
<1>1. /\ Working /\ step > NumStages /\ stack = <<>> /\ Ready /\ status = "run"
      /\ UNCHANGED <<input, at, memo, stack>>
      /\ \/ step' = step + 1 /\ status' = status
         \/ step' = step /\ status' = "class store depends on absent site"
  BY DEF Store, Working
<1>2. /\ step \in Nat /\ step >= 1 /\ NumStages \in Nat
      /\ NumSteps \in Nat /\ NumStages <= NumSteps /\ step <= NumSteps
  <2>1. NumStages \in Nat /\ NumSteps \in Nat /\ NumStages <= NumSteps
    BY Wired DEF TypeInv
  <2>2. step \in 1 .. NumSteps + 1
    BY DEF TypeInv
  <2>3. step <= NumSteps
    BY <1>1 DEF Working
  <2> QED BY <2>1, <2>2, <2>3
<1>3. CASE step' = step /\ status' = "class store depends on absent site"
  <2>1. SetupInv'
    BY <1>1, SameInput DEF SetupInv
  <2> QED BY <1>1, <1>3, <2>1, Frozen
<1>4. CASE step' = step + 1 /\ status' = status
  <2>1. /\ \A j : Kind(j)' = Kind(j)
        /\ NumSteps' = NumSteps /\ NumStages' = NumStages
        /\ \A k : Atom(k)' = Atom(k) /\ AtomsOf(k)' = AtomsOf(k)
        /\ \A t : Levels(t)' = Levels(t)
    BY <1>1, SameInput
  <2>2. /\ w' = w /\ absent' = absent /\ task' = task
        /\ seen' = seen /\ mem' = mem /\ invalid' = invalid /\ stack' = <<>> /\ Known' = Known
    BY <1>1 DEF input, task, memo, Known
  <2>3. TypeInv'
    BY <1>2, <1>4, <2>1, <2>2, <1>1 DEF TypeInv
  <2>4. SetupInv'
    BY <1>1, <1>4, <2>1 DEF SetupInv
  <2>5. StackInv' /\ PathInv'
    <3>1. \A j \in Node : seen[j] # 1
      BY <1>1, Idle
    <3>2. \A j \in Node : seen'[j] # 1
      BY <2>2, <3>1
    <3>3. stack' = <<>> /\ 1 .. Len(stack') = {}
      BY <2>2
    <3>4. StackInv'
      BY <3>2, <3>3 DEF StackInv
    <3>5. PathInv'
      BY <3>3 DEF PathInv
    <3> QED BY <3>4, <3>5
  <2>6. AtomInv'
    <3>1. \A j \in Node : w.form[j].stage \in Nat
      BY Wired DEF TypeInv
    <3>2. \A j \in Node : Kind(j) = "M" /\ seen[j] = 2 => w.form[j].stage < step + 1
      BY <1>2, <3>1 DEF AtomInv
    <3>3. \A k \in 1 .. NumStages : k < step
      <4>1. step > NumStages
        BY <1>1
      <4> QED BY <1>2, <4>1
    <3>4. \A k \in 1 .. NumStages : seen[Atom(k)] = 2
      BY <3>3 DEF AtomInv
    <3> QED BY <1>4, <2>1, <2>2, <3>2, <3>4 DEF AtomInv
  <2>7. MeaningInv'
    BY <2>1, <2>2 DEF MeaningInv
  <2>8. TaintInv'
    BY <2>2 DEF TaintInv
  <2> QED BY <2>3, <2>4, <2>5, <2>6, <2>7, <2>8
<1> QED BY <1>1, <1>3, <1>4

(* No step of a worker, whatever it throws, disturbs the memo's account. *)
LEMMA StepInv == IInv /\ [Next]_vars => IInv'
<1> SUFFICES ASSUME IInv, [Next]_vars PROVE IInv'
  OBVIOUS
<1>1. CASE SetupAtoms
  BY <1>1, SetupAtomsInv
<1>2. CASE Begin
  BY <1>2, BeginInv
<1>3. CASE Call
  <2>1. CASE seen[Wanted] = 1 /\ Throw("cycle in wiring DAG")
    BY <1>3, <2>1, ThrowInv DEF Call
  <2>2. CASE seen[Wanted] = 0 /\ Kind(Wanted) = "M" /\ Throw("MMA value before its stage")
    BY <1>3, <2>2, ThrowInv DEF Call
  <2>3. CASE /\ seen[Wanted] = 0 /\ Kind(Wanted) # "M"
             /\ seen' = [seen EXCEPT ![Wanted] = 1]
             /\ stack' = <<Wanted>> \o stack
             /\ UNCHANGED <<input, at, step, mem, invalid, out, status>>
    BY <1>3, <2>3, EnterInv DEF Call
  <2> QED BY <1>3, <2>1, <2>2, <2>3 DEF Call
<1>4. CASE Compute
  BY <1>4, ComputeInv
<1>5. CASE Stage
  <2>1. CASE Throw("MMA depends on absent class site")
    BY <1>5, <2>1, ThrowInv DEF Stage
  <2>2. CASE status' = status
    BY <1>5, <2>2, StageInv
  <2> QED BY <1>5, <2>1, <2>2 DEF Stage
<1>6. CASE Store
  BY <1>6, StoreInv
<1>7. CASE Return
  BY <1>7, ReturnInv
<1>8. CASE UNCHANGED vars
  <2>1. UNCHANGED <<input, at, step, memo, stack, status>>
    BY <1>8 DEF vars
  <2>2. SetupInv'
    BY <2>1, SameInput DEF SetupInv, IInv
  <2>3. status' \in {"setup", "bad atoms", "next"} => stack = <<>>
    BY <2>1 DEF IInv, StackInv
  <2> QED BY <2>1, <2>2, <2>3, Frozen
<1> QED BY <1>1, <1>2, <1>3, <1>4, <1>5, <1>6, <1>7, <1>8 DEF Next

-----------------------------------------------------------------------------
LEMMA StoreMeant == IInv /\ StoredIsMeant /\ Store => StoredIsMeant'
<1> SUFFICES ASSUME IInv, StoredIsMeant, Store PROVE StoredIsMeant'
  OBVIOUS
<1> USE DEF IInv
<1> DEFINE i == Roots[1]
           mine == {l \in Lane : ClassOf[task][l] = step - NumStages}
           good == {l \in mine : \A m \in mine : m <= l => ~invalid[i][m]}
<1>1. /\ Working /\ step > NumStages /\ stack = <<>> /\ Ready
      /\ out' = [out EXCEPT ![task] =
                   [l \in Lane |-> IF l \in good THEN mem[i][l] ELSE @[l]]]
      /\ UNCHANGED input
  BY DEF Store
<1>2. i = w.atom[step - NumStages] /\ i \in Known
  <2>1. Roots = <<w.atom[step - NumStages]>>
    <3>1. ~(step <= NumStages)
      BY <1>1, Wired DEF TypeInv
    <3> QED BY <3>1 DEF Roots
  <2>2. 1 \in DOMAIN Roots
    BY <2>1
  <2> QED BY <1>1, <2>1, <2>2, Idle
<1>3. ASSUME NEW l \in good
      PROVE  /\ l \in Lane /\ w.atom[ClassOf[task][l]] = i
             /\ mem[i][l] = Meaning(task)[i][l] /\ mem[i][l] \cap absent = {}
  <2>1. l \in Lane /\ l \in Nat /\ ClassOf[task][l] = step - NumStages /\ ~invalid[i][l]
    BY WiringAssumption DEF WiringAssumption
  <2>2. mem[i] = Meaning(task)[i]
    BY <1>2, KnownIsMeant
  <2>3. mem[i][l] \cap absent = {}
    BY <1>2, <2>1 DEF TaintInv, Known
  <2> QED BY <1>2, <2>1, <2>2, <2>3
<1>4. ASSUME NEW t \in DOMAIN out', NEW l \in Lane, out'[t][l] # {}
      PROVE  /\ out'[t][l] = Meaning(t)[w.atom[ClassOf[t][l]]][l]
             /\ out'[t][l] \cap absent = {}
  <2> HIDE DEF good, i
  <2>1. t \in DOMAIN out
    BY <1>1
  <2>2. CASE t = task /\ l \in good
    <3>1. out'[t][l] = mem[i][l]
      BY <1>1, <2>1, <2>2
    <3> QED BY <1>3, <2>2, <3>1
  <2>3. CASE ~(t = task /\ l \in good)
    <3>1. out'[t][l] = out[t][l]
      BY <1>1, <2>1, <2>3
    <3> QED BY <1>4, <2>1, <3>1 DEF StoredIsMeant
  <2> QED BY <2>2, <2>3
<1>5. /\ \A t : Meaning(t)' = Meaning(t)
      /\ w' = w /\ absent' = absent
  BY <1>1, SameInput DEF input
<1> QED BY <1>4, <1>5 DEF StoredIsMeant

(* Only a store changes what is published. *)
LEMMA MeantStep == IInv /\ StoredIsMeant /\ [Next]_vars => StoredIsMeant'
<1> SUFFICES ASSUME IInv, StoredIsMeant, [Next]_vars PROVE StoredIsMeant'
  OBVIOUS
<1>1. CASE Store
  BY <1>1, StoreMeant
<1>2. CASE UNCHANGED <<input, out>>
  <2>1. \A t : Meaning(t)' = Meaning(t)
    BY <1>2, SameInput
  <2>2. w' = w /\ absent' = absent /\ out' = out
    BY <1>2 DEF input
  <2> QED BY <2>1, <2>2 DEF StoredIsMeant
<1>3. Store \/ UNCHANGED <<input, out>>
  <2>1. CASE UNCHANGED vars
    BY <2>1 DEF vars
  <2>2. SetupAtoms \/ Begin \/ Compute \/ Return => UNCHANGED <<input, out>>
    BY DEF SetupAtoms, Begin, Compute, Return
  <2>3. Call => UNCHANGED <<input, out>>
    BY DEF Call, Throw
  <2>4. Stage => UNCHANGED <<input, out>>
    BY DEF Stage, Throw
  <2> QED BY <2>1, <2>2, <2>3, <2>4 DEF Next
<1> QED BY <1>1, <1>2, <1>3

(* What a worker has published for a task is what the wiring means for     *)
(* that task and holds no absent site, whatever it computed before         *)
(* (scalar_map.hpp:299,313,316). *)
THEOREM PublishedMeaning == Spec => []StoredIsMeant
<1>1. Init => StoredIsMeant
  BY DEF Init, StoredIsMeant
<1> QED BY <1>1, InitInv, StepInv, MeantStep, PTL DEF Spec

-----------------------------------------------------------------------------
(* Why a call of val throws. *)
LEMMA FarthestCall ==
  ASSUME IInv, Working, ~Ready, stack # <<>>,
         NEW p \in 1 .. Len(stack)
  PROVE  Wanted \in Visits(stack[p])
<1> USE DEF IInv
<1>1. /\ Len(stack) \in Nat /\ Len(stack) <= Size /\ 1 \in 1 .. Len(stack)
      /\ Head(stack) = stack[1]
  BY StackBound, Popped DEF TypeInv
<1>2. PICK e \in Nat : e = p - 1 /\ e < Size /\ e + 1 \in 0 .. Size
  BY <1>1, SizeType
<1>3. stack[1] \in Reach(stack[p])[e]
  <2>1. 1 <= p /\ e = p - 1
    BY <1>2
  <2> QED BY <1>1, <2>1 DEF PathInv
<1>4. \E n \in DOMAIN Args(stack[1]) : Args(stack[1])[n] = Wanted
  BY <1>1, WantedFact DEF Asked
<1>5. Kind(stack[1]) # "M"
  BY <1>1 DEF StackInv
<1>6. Wanted \in Grow(Reach(stack[p])[e])
  BY <1>3, <1>4, <1>5 DEF Grow
<1>7. Wanted \in Reach(stack[p])[e + 1]
  BY <1>2, <1>6, ReachStep
<1> QED BY <1>2, <1>7, ReachVisits

LEMMA Itself ==
  ASSUME NEW i \in Node
  PROVE  i \in Visits(i)
<1>1. 0 < Size /\ 0 \in 0 .. Size
  <2>1. Size # 0
    BY FS_EmptySet, WiringAssumption DEF Size, WiringAssumption
  <2> QED BY <2>1, SizeType
<1>2. i \in Reach(i)[0]
  BY <1>1, ReachStep
<1> QED BY <1>1, <1>2, ReachVisits

LEMMA CycleCause ==
  ASSUME IInv, Working, ~Ready, seen[Wanted] = 1
  PROVE  \E i \in {Roots[n] : n \in DOMAIN Roots} : Circular(i)
<1> USE DEF IInv
<1>1. PICK p \in 1 .. Len(stack) : stack[p] = Wanted
  BY WantedFact DEF StackInv
<1>2. stack \in Seq(Node) /\ Len(stack) \in Nat /\ stack # <<>>
  BY <1>1 DEF TypeInv
<1>3. PICK r \in {Roots[n] : n \in DOMAIN Roots} : r = stack[Len(stack)]
  BY <1>2 DEF PathInv
<1>4. Wanted \in Visits(r)
  BY <1>2, <1>3, FarthestCall
<1>5. Kind(Wanted) # "M"
  BY <1>1 DEF StackInv
<1>6. \E m \in {Args(Wanted)[n] : n \in DOMAIN Args(Wanted)} : Wanted \in Visits(m)
  <2>1. CASE p = 1
    <3>1. Head(stack) = Wanted
      BY <1>1, <1>2, <2>1, Popped
    <3>2. \E n \in DOMAIN Args(Wanted) : Args(Wanted)[n] = Wanted
      BY <1>2, <3>1, WantedFact DEF Asked
    <3> QED BY <3>2, Itself, WantedFact
  <2>2. CASE p # 1
    <3>1. PICK q \in 1 .. Len(stack) : q = p - 1 /\ q < Len(stack) /\ q + 1 = p
      BY <1>2, <2>2
    <3>2. \E k \in DOMAIN Args(stack[q + 1]) : Args(stack[q + 1])[k] = stack[q]
      BY <3>1 DEF PathInv
    <3>3. Wanted \in Visits(stack[q])
      BY <1>2, FarthestCall
    <3> QED BY <1>1, <3>1, <3>2, <3>3
  <2> QED BY <2>1, <2>2
<1> QED BY <1>3, <1>4, <1>5, <1>6 DEF Circular

LEMMA PrematureCause ==
  ASSUME IInv, Working, ~Ready, seen[Wanted] = 0, Kind(Wanted) = "M"
  PROVE  \E i \in {Roots[n] : n \in DOMAIN Roots} : Premature(i)
<1> USE DEF IInv
<1>1. PICK r \in {Roots[n] : n \in DOMAIN Roots} : Wanted \in Visits(r)
  <2>1. CASE stack = <<>>
    <3>1. \E n \in DOMAIN Roots : Roots[n] = Wanted
      BY <2>1, WantedFact DEF Asked
    <3> QED BY <3>1, Itself, WantedFact
  <2>2. CASE stack # <<>>
    <3>1. Len(stack) \in 1 .. Len(stack)
      BY <2>2, Popped DEF TypeInv
    <3>2. Wanted \in Visits(stack[Len(stack)])
      BY <2>2, <3>1, FarthestCall
    <3> QED BY <2>2, <3>2 DEF PathInv
  <2> QED BY <2>1, <2>2
<1>2. ASSUME NEW k \in 1 .. step - 1, k <= NumStages, Wanted = Atom(k) PROVE FALSE
  <2>1. k \in 1 .. NumStages /\ k < step
    BY <1>2, Wired DEF TypeInv
  <2>2. seen[Atom(k)] = 2
    BY <2>1 DEF AtomInv
  <2> QED BY <1>2, <2>2
<1> QED BY <1>1, <1>2 DEF Premature

LEMMA StageCause ==
  ASSUME IInv, Working, stack = <<>>, Ready,
         NEW n \in DOMAIN Roots, NEW l \in Lane, invalid[Roots[n]][l]
  PROVE  Meaning(task)[Roots[n]][l] \cap absent # {}
<1>1. Roots[n] \in Known
  BY Idle
<1>2. mem[Roots[n]] = Meaning(task)[Roots[n]]
  BY <1>1, KnownIsMeant DEF IInv
<1>3. mem[Roots[n]][l] \cap absent # {}
  BY <1>1 DEF IInv, TaintInv, Known
<1> QED BY <1>2, <1>3

(* What the reasons are made of stays while the state is only thrown away. *)
LEMMA SameCause ==
  ASSUME UNCHANGED <<input, at, step>>
  PROVE  /\ Roots' = Roots /\ absent' = absent /\ task' = task /\ NumStages' = NumStages
         /\ \A i : Circular(i)' = Circular(i) /\ Premature(i)' = Premature(i)
         /\ Meaning(task)' = Meaning(task)
<1>1. w' = w /\ absent' = absent /\ at' = at /\ step' = step
  BY DEF input
<1>2. Roots' = Roots /\ task' = task /\ NumStages' = NumStages
  BY <1>1 DEF Roots, task, NumStages
<1>3. /\ \A i : Kind(i)' = Kind(i) /\ Args(i)' = Args(i) /\ Visits(i)' = Visits(i)
      /\ \A k : Atom(k)' = Atom(k)
      /\ \A t : Meaning(t)' = Meaning(t)
  BY SameInput
<1>4. \A i : Circular(i)' = Circular(i)
  BY <1>3 DEF Circular
<1>5. \A i : Premature(i)' = Premature(i)
  BY <1>1, <1>2, <1>3 DEF Premature
<1> QED BY <1>1, <1>2, <1>3, <1>4, <1>5

Reasons == {"cycle in wiring DAG", "MMA value before its stage",
            "MMA depends on absent class site", "class store depends on absent site"}

LEMMA CauseStep == IInv /\ RefusedForCause /\ [Next]_vars => RefusedForCause'
<1> SUFFICES ASSUME IInv, RefusedForCause, [Next]_vars PROVE RefusedForCause'
  OBVIOUS
<1>1. CASE status' \notin Reasons
  BY <1>1 DEF RefusedForCause, Reasons
<1>2. CASE UNCHANGED vars
  <2>1. /\ Roots' = Roots /\ absent' = absent /\ task' = task /\ NumStages' = NumStages
        /\ \A i : Circular(i)' = Circular(i) /\ Premature(i)' = Premature(i)
        /\ Meaning(task)' = Meaning(task) /\ status' = status /\ step' = step
    BY <1>2, SameCause DEF vars
  <2> QED BY <2>1 DEF RefusedForCause
<1>3. ASSUME UNCHANGED <<input, at, step>>
      PROVE  /\ Roots' = Roots /\ absent' = absent /\ task' = task /\ NumStages' = NumStages
             /\ \A i : Circular(i)' = Circular(i) /\ Premature(i)' = Premature(i)
             /\ Meaning(task)' = Meaning(task) /\ step' = step
  BY <1>3, SameCause
<1>4. CASE Call /\ status' \in Reasons
  <2>1. Working /\ ~Ready
    BY <1>4 DEF Call
  <2>2. CASE seen[Wanted] = 1 /\ Throw("cycle in wiring DAG")
    <3>1. \E i \in {Roots[n] : n \in DOMAIN Roots} : Circular(i)
      BY <2>1, <2>2, CycleCause
    <3>2. status' = "cycle in wiring DAG" /\ UNCHANGED <<input, at, step>>
      BY <2>2 DEF Throw
    <3> QED BY <1>3, <3>1, <3>2 DEF RefusedForCause
  <2>3. CASE seen[Wanted] = 0 /\ Kind(Wanted) = "M" /\ Throw("MMA value before its stage")
    <3>1. \E i \in {Roots[n] : n \in DOMAIN Roots} : Premature(i)
      BY <2>1, <2>3, PrematureCause
    <3>2. status' = "MMA value before its stage" /\ UNCHANGED <<input, at, step>>
      BY <2>3 DEF Throw
    <3> QED BY <1>3, <3>1, <3>2 DEF RefusedForCause
  <2>4. CASE status' = status
    BY <1>4, <2>1, <2>4 DEF Working, Reasons
  <2> QED BY <1>4, <2>2, <2>3, <2>4 DEF Call
<1>5. CASE Stage /\ status' \in Reasons
  <2>1. Working /\ stack = <<>> /\ Ready
    BY <1>5 DEF Stage
  <2>2. CASE status' = status
    BY <1>5, <2>1, <2>2 DEF Working, Reasons
  <2>3. CASE /\ Throw("MMA depends on absent class site")
             /\ \E n \in DOMAIN Roots, l \in Lane : invalid[Roots[n]][l]
    <3>1. PICK n \in DOMAIN Roots, l \in Lane : invalid[Roots[n]][l]
      BY <2>3
    <3>2. \E i \in {Roots[m] : m \in DOMAIN Roots}, k \in Lane :
            Meaning(task)[i][k] \cap absent # {}
      BY <2>1, <3>1, StageCause
    <3>3. status' = "MMA depends on absent class site" /\ UNCHANGED <<input, at, step>>
      BY <2>3 DEF Throw
    <3> QED BY <1>3, <3>2, <3>3 DEF RefusedForCause
  <2> QED BY <1>5, <2>2, <2>3 DEF Stage
<1>6. CASE Store /\ status' \in Reasons
  <2> DEFINE i == Roots[1]
             mine == {l \in Lane : ClassOf[task][l] = step - NumStages}
             good == {l \in mine : \A m \in mine : m <= l => ~invalid[i][m]}
  <2>1. /\ Working /\ step > NumStages /\ stack = <<>> /\ Ready
        /\ UNCHANGED <<input, at>>
        /\ \/ status' = status
           \/ /\ good # mine /\ step' = step
              /\ status' = "class store depends on absent site"
    BY <1>6 DEF Store
  <2>2. CASE status' = status
    BY <1>6, <2>1, <2>2 DEF Working, Reasons
  <2>3. CASE /\ good # mine /\ step' = step
             /\ status' = "class store depends on absent site"
    <3>1. PICK l \in mine : invalid[i][l]
      BY <2>3
    <3>2. 1 \in DOMAIN Roots
      <4>1. NumStages \in Nat /\ step \in Nat
        BY Wired DEF IInv, TypeInv
      <4>2. ~(step <= NumStages)
        <5>1. step > NumStages
          BY <2>1
        <5> QED BY <4>1, <5>1
      <4>3. Roots = <<w.atom[step - NumStages]>>
        BY <4>2 DEF Roots
      <4> QED BY <4>3
    <3>3. Meaning(task)[i][l] \cap absent # {}
      BY <2>1, <3>1, <3>2, StageCause
    <3>4. \E r \in {Roots[n] : n \in DOMAIN Roots}, k \in Lane :
            ClassOf[task][k] = step - NumStages /\ Meaning(task)[r][k] \cap absent # {}
      BY <3>1, <3>2, <3>3
    <3>5. UNCHANGED <<input, at, step>>
      BY <2>1, <2>3
    <3> QED BY <1>3, <2>3, <3>4, <3>5 DEF RefusedForCause
  <2> QED BY <2>1, <2>2, <2>3
<1>7. CASE SetupAtoms \/ Begin \/ Compute \/ Return
  <2>1. status' \notin Reasons
    BY <1>7 DEF SetupAtoms, Begin, Compute, Return, Working, Reasons
  <2> QED BY <1>1, <2>1
<1> QED BY <1>1, <1>2, <1>4, <1>5, <1>6, <1>7 DEF Next

(* A worker refuses a task only for what the task's own wiring and sites   *)
(* say: a cycle, a value asked for before its stage, an operand or a       *)
(* stored lane that an absent site goes into (scalar_map.hpp:249,250,299,316). *)
THEOREM ThrownForCause == Spec => []RefusedForCause
<1>1. Init => RefusedForCause
  BY DEF Init, RefusedForCause
<1> QED BY <1>1, InitInv, StepInv, CauseStep, PTL DEF Spec

-----------------------------------------------------------------------------
(* The scalar formats: powers of two, logarithms and the codes of a half. *)

(* Pow2 is the function its recursion describes. *)
LEMMA Pow2Fact == Pow2 = [k \in Nat |-> IF k = 0 THEN 1 ELSE 2 * Pow2[k - 1]]
<1> DEFINE Twice(v) == 2 * v
           Is(f, n) == f = [k \in 0 .. n |-> IF k = 0 THEN 1 ELSE Twice(f[k - 1])]
           T == {n \in Nat : \E f : Is(f, n)}
           Agree(k) == \A m, n \in Nat : \A f, g :
                         Is(f, m) /\ Is(g, n) /\ k <= m /\ k <= n => f[k] = g[k]
           Same == {k \in Nat : Agree(k)}
<1> HIDE DEF Twice
<1>1. 0 \in T
  <2>1. Is([k \in 0 .. 0 |-> 1], 0)
    OBVIOUS
  <2> QED BY <2>1
<1>2. ASSUME NEW n \in Nat, n \in T PROVE n + 1 \in T
  <2>1. PICK f : Is(f, n)
    BY <1>2
  <2> DEFINE g == [k \in 0 .. n + 1 |-> IF k <= n THEN f[k] ELSE Twice(f[n])]
  <2>2. ASSUME NEW k \in 0 .. n + 1
        PROVE  g[k] = IF k = 0 THEN 1 ELSE Twice(g[k - 1])
    <3>1. CASE k = 0
      BY <2>1, <3>1
    <3>2. CASE k # 0 /\ k <= n
      <4>1. g[k] = f[k] /\ g[k - 1] = f[k - 1] /\ f[k] = Twice(f[k - 1])
        BY <2>1, <3>2
      <4> QED BY <3>2, <4>1
    <3>3. CASE k = n + 1
      <4>1. g[k] = Twice(f[n]) /\ g[k - 1] = f[n] /\ k # 0
        BY <3>3
      <4> QED BY <4>1
    <3> QED BY <3>1, <3>2, <3>3
  <2>3. g = [k \in 0 .. n + 1 |-> g[k]]
    OBVIOUS
  <2> HIDE DEF g
  <2>4. Is(g, n + 1)
    BY <2>2, <2>3
  <2> QED BY <2>4
<1>3. Nat \subseteq T
  <2> HIDE DEF T
  <2> QED BY <1>1, <1>2, Counting
<1>4. 0 \in Same
  OBVIOUS
<1>5. ASSUME NEW k \in Nat, k \in Same PROVE k + 1 \in Same
  <2>0. Agree(k)
    BY <1>5
  <2> SUFFICES Agree(k + 1)
    <3> HIDE DEF Agree
    <3> QED OBVIOUS
  <2> SUFFICES ASSUME NEW m \in Nat, NEW n \in Nat, NEW f, NEW g,
                      Is(f, m), Is(g, n), k + 1 <= m, k + 1 <= n
               PROVE  f[k + 1] = g[k + 1]
    BY Zenon
  <2>1. f[k] = g[k]
    <3>1. k <= m /\ k <= n
      OBVIOUS
    <3> HIDE DEF Is
    <3> QED BY <2>0, <3>1
  <2>2. k + 1 \in 0 .. m /\ k + 1 \in 0 .. n /\ k + 1 # 0 /\ (k + 1) - 1 = k
    OBVIOUS
  <2>3. f[k + 1] = Twice(f[k]) /\ g[k + 1] = Twice(g[k])
    BY <2>2
  <2> QED BY <2>1, <2>3
<1>6. Nat \subseteq Same
  <2> HIDE DEF Same
  <2> QED BY <1>4, <1>5, Counting
<1> DEFINE F(n) == CHOOSE f : Is(f, n)
           h == [n \in Nat |-> F(n)[n]]
<1>7. \A n \in Nat : Is(F(n), n)
  BY <1>3
<1>8. ASSUME NEW n \in Nat PROVE h[n] = IF n = 0 THEN 1 ELSE Twice(h[n - 1])
  <2>0. h[n] = F(n)[n] /\ (n # 0 => h[n - 1] = F(n - 1)[n - 1])
    OBVIOUS
  <2>1. F(n)[n] = IF n = 0 THEN 1 ELSE Twice(F(n)[n - 1])
    <3> HIDE DEF F
    <3>1. Is(F(n), n) /\ n \in 0 .. n
      BY <1>7
    <3> QED BY <3>1
  <2>2. CASE n = 0
    BY <2>0, <2>1, <2>2
  <2>3. CASE n # 0
    <3>1. n - 1 \in Nat /\ n - 1 <= n
      BY <2>3
    <3>2. Is(F(n), n) /\ Is(F(n - 1), n - 1)
      BY <1>7, <3>1
    <3> HIDE DEF F, Is
    <3>3. F(n)[n - 1] = F(n - 1)[n - 1]
      <4>1. Agree(n - 1)
        <5> HIDE DEF Agree
        <5> QED BY <1>6, <3>1
      <4>2. n - 1 <= n - 1
        BY <3>1
      <4> QED BY <3>1, <3>2, <4>1, <4>2
    <3> QED BY <2>0, <2>1, <2>3, <3>3
  <2> QED BY <2>2, <2>3
<1>9. h = [n \in Nat |-> IF n = 0 THEN 1 ELSE Twice(h[n - 1])]
  <2>1. h = [n \in Nat |-> h[n]]
    OBVIOUS
  <2> HIDE DEF h
  <2> QED BY <1>8, <2>1
<1>10. \E f : f = [n \in Nat |-> IF n = 0 THEN 1 ELSE 2 * f[n - 1]]
  <2> HIDE DEF h
  <2> QED BY <1>9 DEF Twice
<1> QED BY <1>10 DEF Pow2

(* The powers of two, one after the other. *)
LEMMA Pow2Step == Pow2[0] = 1 /\ \A n \in Nat : Pow2[n + 1] = 2 * Pow2[n]
<1>1. ASSUME NEW n \in Nat PROVE Pow2[n + 1] = 2 * Pow2[n]
  <2>1. n + 1 \in Nat /\ n + 1 # 0 /\ (n + 1) - 1 = n
    OBVIOUS
  <2> QED BY <2>1, Pow2Fact
<1>2. Pow2[0] = 1
  BY Pow2Fact
<1> QED BY <1>1, <1>2

(* A power of two is a positive number. *)
LEMMA Pow2Type == \A n \in Nat : Pow2[n] \in Nat /\ Pow2[n] > 0
<1> DEFINE T == {n \in Nat : Pow2[n] \in Nat /\ Pow2[n] > 0}
<1>1. 0 \in T
  BY Pow2Step
<1>2. ASSUME NEW n \in Nat, n \in T PROVE n + 1 \in T
  BY <1>2, Pow2Step
<1>3. Nat \subseteq T
  <2> HIDE DEF T
  <2> QED BY <1>1, <1>2, Counting
<1> QED BY <1>3

(* Powers multiply. *)
LEMMA Pow2Sum == \A m, n \in Nat : Pow2[m + n] = Pow2[m] * Pow2[n]
<1> SUFFICES ASSUME NEW m \in Nat PROVE \A n \in Nat : Pow2[m + n] = Pow2[m] * Pow2[n]
  OBVIOUS
<1> DEFINE T == {n \in Nat : Pow2[m + n] = Pow2[m] * Pow2[n]}
<1>1. 0 \in T
  BY Pow2Step, Pow2Type
<1>2. ASSUME NEW n \in Nat, n \in T PROVE n + 1 \in T
  <2>1. Pow2[m + (n + 1)] = 2 * Pow2[m + n]
    <3>1. m + (n + 1) = (m + n) + 1 /\ m + n \in Nat
      OBVIOUS
    <3> QED BY <3>1, Pow2Step
  <2>2. Pow2[n + 1] = 2 * Pow2[n]
    BY Pow2Step
  <2>3. Pow2[m] * (2 * Pow2[n]) = 2 * (Pow2[m] * Pow2[n])
    <3>1. Pow2[m] \in Nat /\ Pow2[n] \in Nat
      BY Pow2Type
    <3> QED BY <3>1
  <2> QED BY <1>2, <2>1, <2>2, <2>3
<1>3. Nat \subseteq T
  <2> HIDE DEF T
  <2> QED BY <1>1, <1>2, Counting
<1> QED BY <1>3

(* A later power is at least twice an earlier one. *)
LEMMA Pow2Rises == \A m, n \in Nat : m < n => 2 * Pow2[m] <= Pow2[n]
<1> SUFFICES ASSUME NEW m \in Nat, NEW n \in Nat, m < n PROVE 2 * Pow2[m] <= Pow2[n]
  OBVIOUS
<1>1. PICK d \in Nat : n = (m + 1) + d
  <2>1. n - m - 1 \in Nat /\ n = (m + 1) + (n - m - 1)
    OBVIOUS
  <2> QED BY <2>1
<1>2. Pow2[n] = Pow2[m + 1] * Pow2[d]
  BY <1>1, Pow2Sum
<1>3. Pow2[m + 1] = 2 * Pow2[m] /\ Pow2[m] \in Nat /\ Pow2[d] \in Nat /\ Pow2[d] > 0
  BY Pow2Step, Pow2Type
<1>4. \A a \in Nat, b \in Nat : b > 0 => a <= a * b
  <2> SUFFICES ASSUME NEW a \in Nat, NEW b \in Nat, b > 0 PROVE a <= a * b
    OBVIOUS
  <2>1. PICK c \in Nat : b = c + 1
    <3>1. b - 1 \in Nat /\ b = (b - 1) + 1
      OBVIOUS
    <3> QED BY <3>1
  <2>2. a * b = a * c + a /\ a * c \in Nat
    BY <2>1
  <2> QED BY <2>2
<1> QED BY <1>2, <1>3, <1>4

(* The binade of a number. *)
LEMMA Pow2Above == \A n \in Nat : n < Pow2[n]
<1> DEFINE T == {n \in Nat : n < Pow2[n]}
<1>1. 0 \in T
  BY Pow2Step
<1>2. ASSUME NEW n \in Nat, n \in T PROVE n + 1 \in T
  BY <1>2, Pow2Step, Pow2Type
<1>3. Nat \subseteq T
  <2> HIDE DEF T
  <2> QED BY <1>1, <1>2, Counting
<1> QED BY <1>3

(* What the search of Log2 finds, and that it finds something. *)
LEMMA Log2Fact == ASSUME NEW a \in Nat, a > 0
                  PROVE  Log2(a) \in Nat /\ Pow2[Log2(a)] <= a /\ a < Pow2[Log2(a) + 1]
<1> DEFINE S == {k \in Nat : a < Pow2[k + 1]}
<1>1. a \in S
  BY Pow2Above, Pow2Step, Pow2Type
<1>2. PICK k \in S : \A m \in S : k <= m
  <2>1. S \subseteq Nat /\ S # {}
    BY <1>1
  <2> HIDE DEF S
  <2> QED BY <2>1, Least
<1>3. k \in 0 .. a
  BY <1>1, <1>2
<1>4. Pow2[k] <= a
  <2>1. CASE k = 0
    BY <2>1, Pow2Step
  <2>2. CASE k # 0
    <3>1. k - 1 \in Nat /\ (k - 1) + 1 = k /\ k - 1 \notin S
      BY <1>2, <2>2
    <3>2. ~(a < Pow2[k])
      BY <3>1
    <3> QED BY <3>2, Pow2Type
  <2> QED BY <2>1, <2>2
<1>5. \E j \in 0 .. a : Pow2[j] <= a /\ a < Pow2[j + 1]
  BY <1>2, <1>3, <1>4
<1> QED BY <1>5 DEF Log2

(* Only one power fits. *)
LEMMA Log2Is == ASSUME NEW a \in Nat, NEW k \in Nat, Pow2[k] <= a, a < Pow2[k + 1]
                PROVE  Log2(a) = k
<1>0. a > 0
  BY Pow2Type
<1>1. Log2(a) \in Nat /\ Pow2[Log2(a)] <= a /\ a < Pow2[Log2(a) + 1]
  BY <1>0, Log2Fact
<1> DEFINE l == Log2(a)
<1> HIDE DEF l
<1>2. l \in Nat /\ Pow2[l] <= a /\ a < Pow2[l + 1]
  BY <1>1 DEF l
<1>3. Pow2[l + 1] = 2 * Pow2[l] /\ Pow2[k + 1] = 2 * Pow2[k]
  BY <1>2, Pow2Step
<1>4. ~(l < k)
  BY <1>2, <1>3, Pow2Rises, Pow2Type
<1>5. ~(k < l)
  BY <1>2, <1>3, Pow2Rises, Pow2Type
<1>6. l = k
  BY <1>2, <1>4, <1>5
<1> QED BY <1>6 DEF l


(* A table of numbers that grow with their code. *)
Rising(table, n) == /\ n \in Nat /\ table \in [0 .. n -> Nat]
                    /\ \A b, c \in 0 .. n : b < c => table[b] < table[c]

(* There is only one nearest code. *)
LEMMA NearestIs == ASSUME NEW table, NEW n, Rising(table, n), NEW a \in Nat,
                          NEW c \in 0 .. n, IsNearest(table, a, c)
                   PROVE  NearestOf(table, a) = c
<1> SUFFICES ASSUME NEW b \in 0 .. n, IsNearest(table, a, b) PROVE b = c
  <2>1. DOMAIN table = 0 .. n
    BY DEF Rising
  <2>2. NearestOf(table, a) \in 0 .. n /\ IsNearest(table, a, NearestOf(table, a))
    BY <2>1 DEF NearestOf
  <2> QED BY <2>2
<1> DEFINE far(d) == Abs(a - table[d])
<1>1. SUFFICES ASSUME b # c PROVE FALSE
  OBVIOUS
<1>2. /\ far(c) < far(b) \/ (far(c) = far(b) /\ c % 2 = 0)
      /\ far(b) < far(c) \/ (far(b) = far(c) /\ b % 2 = 0)
  BY <1>1 DEF IsNearest, Rising
<1>3. \A d \in 0 .. n : far(d) \in Nat /\ table[d] \in Nat
  BY DEF Rising, Abs
<1>4. far(b) = far(c) /\ b % 2 = 0 /\ c % 2 = 0
  <2> HIDE DEF far
  <2> QED BY <1>2, <1>3
<1>5. ASSUME NEW p \in 0 .. n, NEW q \in 0 .. n, p < q, far(p) = far(q), p % 2 = 0, q % 2 = 0,
             IsNearest(table, a, p)
      PROVE  FALSE
  <2>1. p + 1 \in 0 .. n /\ p + 1 < q
    <3>1. n \in Nat /\ p \in Nat /\ q \in Nat /\ q <= n
      BY DEF Rising
    <3>2. p + 1 # q
      BY <1>5, <3>1
    <3> QED BY <1>5, <3>1, <3>2
  <2>2. table[p] < table[p + 1] /\ table[p + 1] < table[q]
    <3>1. p < p + 1 /\ p \in 0 .. n /\ q \in 0 .. n
      OBVIOUS
    <3> QED BY <1>5, <2>1, <3>1 DEF Rising
  <2>3. far(p + 1) < far(p)
    BY <1>3, <1>5, <2>1, <2>2 DEF Abs
  <2>4. far(p) < far(p + 1) \/ far(p) = far(p + 1)
    BY <1>5, <2>1 DEF IsNearest, Rising
  <2> QED
    <3> HIDE DEF far
    <3> QED BY <1>3, <2>1, <2>3, <2>4
<1> QED
  <2> HIDE DEF far
  <2>1. b < c \/ c < b
    BY <1>1 DEF Rising
  <2> QED BY <1>4, <1>5, <2>1

(* Between two codes the nearer one is the nearest, halfway the even one. *)
LEMMA NearestBetween ==
  ASSUME NEW table, NEW n, Rising(table, n), NEW a \in Nat,
         NEW c \in 0 .. n - 1, table[c] <= a, a <= table[c + 1]
  PROVE  NearestOf(table, a) =
           IF 2 * a > table[c] + table[c + 1] \/ (2 * a = table[c] + table[c + 1] /\ c % 2 = 1)
             THEN c + 1 ELSE c
<1>1. n \in Nat /\ c \in 0 .. n /\ c + 1 \in 0 .. n /\ DOMAIN table = 0 .. n
  BY DEF Rising
<1>2. \A d \in 0 .. n : table[d] \in Nat
  BY DEF Rising
<1>3. table[c] < table[c + 1]
  BY <1>1 DEF Rising
<1>4. ASSUME NEW b \in 0 .. n, b # c, b # c + 1
      PROVE  table[b] < table[c] \/ table[c + 1] < table[b]
  <2>1. b < c \/ c + 1 < b
    BY <1>1, <1>4
  <2> QED BY <1>1, <1>4, <2>1 DEF Rising
<1>5. CASE 2 * a > table[c] + table[c + 1] \/ (2 * a = table[c] + table[c + 1] /\ c % 2 = 1)
  <2>1. ASSUME NEW b \in 0 .. n, b # c + 1
        PROVE  \/ Abs(a - table[c + 1]) < Abs(a - table[b])
               \/ Abs(a - table[c + 1]) = Abs(a - table[b]) /\ (c + 1) % 2 = 0
    <3>1. CASE b = c
      <4>1. c % 2 = 1 => (c + 1) % 2 = 0
        BY <1>1
      <4> QED BY <1>1, <1>2, <1>3, <1>5, <3>1, <4>1 DEF Abs
    <3>2. CASE b # c
      <4>1. PICK x \in Nat, y \in Nat, z \in Nat : x = table[c] /\ y = table[c + 1] /\ z = table[b]
        BY <1>1, <1>2
      <4>2. x < y /\ (z < x \/ y < z) /\ x <= a /\ a <= y /\ 2 * a >= x + y
        BY <1>3, <1>4, <1>5, <2>1, <3>2, <4>1
      <4>3. Abs(a - y) < Abs(a - z)
        BY <4>2 DEF Abs
      <4> QED BY <4>1, <4>3
    <3> QED BY <3>1, <3>2
  <2>2. IsNearest(table, a, c + 1)
    BY <1>1, <2>1 DEF IsNearest
  <2>3. NearestOf(table, a) = c + 1
    BY <1>1, <2>2, NearestIs
  <2> QED BY <1>5, <2>3
<1>6. CASE ~(2 * a > table[c] + table[c + 1] \/ (2 * a = table[c] + table[c + 1] /\ c % 2 = 1))
  <2>0. 2 * a < table[c] + table[c + 1] \/ (2 * a = table[c] + table[c + 1] /\ c % 2 = 0)
    <3>1. c % 2 = 0 \/ c % 2 = 1
      BY <1>1
    <3> QED BY <1>1, <1>2, <1>6, <3>1
  <2>1. ASSUME NEW b \in 0 .. n, b # c
        PROVE  \/ Abs(a - table[c]) < Abs(a - table[b])
               \/ Abs(a - table[c]) = Abs(a - table[b]) /\ c % 2 = 0
    <3>0. PICK x \in Nat, y \in Nat, z \in Nat : x = table[c] /\ y = table[c + 1] /\ z = table[b]
      BY <1>1, <1>2
    <3>1. CASE b = c + 1
      <4>1. x < y /\ y = z /\ x <= a /\ a <= y /\ (2 * a < x + y \/ (2 * a = x + y /\ c % 2 = 0))
        BY <1>3, <2>0, <3>0, <3>1
      <4>2. Abs(a - x) < Abs(a - z) \/ (Abs(a - x) = Abs(a - z) /\ c % 2 = 0)
        BY <4>1 DEF Abs
      <4> QED BY <3>0, <4>2
    <3>2. CASE b # c + 1
      <4>1. x < y /\ (z < x \/ y < z) /\ x <= a /\ a <= y /\ 2 * a <= x + y
        BY <1>3, <1>4, <2>0, <2>1, <3>0, <3>2
      <4>2. Abs(a - x) < Abs(a - z) \/ (y < z /\ Abs(a - x) <= Abs(a - z))
        BY <4>1 DEF Abs
      <4>3. Abs(a - x) < Abs(a - z)
        BY <4>1, <4>2 DEF Abs
      <4> QED BY <3>0, <4>3
    <3> QED BY <3>1, <3>2
  <2>2. IsNearest(table, a, c)
    BY <1>1, <2>1 DEF IsNearest
  <2>3. NearestOf(table, a) = c
    BY <1>1, <2>2, NearestIs
  <2> QED BY <1>6, <2>3
<1> QED BY <1>5, <1>6

(* Beyond the last code the last one is. *)
LEMMA NearestBeyond ==
  ASSUME NEW table, NEW n, Rising(table, n), NEW a \in Nat, table[n] <= a
  PROVE  NearestOf(table, a) = n
<1>1. n \in 0 .. n /\ DOMAIN table = 0 .. n
  BY DEF Rising
<1>2. ASSUME NEW b \in 0 .. n, b # n PROVE Abs(a - table[n]) < Abs(a - table[b])
  <2>1. table[b] < table[n] /\ table[b] \in Nat /\ table[n] \in Nat
    BY <1>1, <1>2 DEF Rising
  <2> QED BY <2>1 DEF Abs
<1>3. IsNearest(table, a, n)
  BY <1>1, <1>2 DEF IsNearest
<1> QED BY <1>1, <1>3, NearestIs

-----------------------------------------------------------------------------
(* The units of a code, by binade. *)
LEMMA UnitsAt == ASSUME NEW mant \in Nat, NEW k \in Nat, NEW n \in Pow2[mant] .. 2 * Pow2[mant]
                 PROVE  Units(mant, k * Pow2[mant] + n) = n * Pow2[k]
<1>1. PICK M \in Nat : M = Pow2[mant] /\ M > 0
  BY Pow2Type
<1>2. n \in Nat /\ M <= n /\ n <= 2 * M
  BY <1>1
<1>3. CASE n < 2 * M
  <2>0. (k + 1) * M = k * M + M /\ k * M \in Nat
    BY <1>1
  <2>1. k * M + n = (k + 1) * M + (n - M) /\ n - M \in Nat /\ n - M < M /\ k + 1 \in Nat
    BY <1>1, <1>2, <1>3, <2>0
  <2>2. (k * M + n) \div M = k + 1 /\ (k * M + n) % M = n - M
    <3> DEFINE q == k + 1
               r == n - M
    <3>1. q \in Nat /\ r \in Nat /\ r < M /\ k * M + n = q * M + r
      BY <2>1
    <3> HIDE DEF q, r
    <3>2. (q * M + r) \div M = q /\ (q * M + r) % M = r
      BY <1>1, <3>1, Remade
    <3> QED BY <3>1, <3>2 DEF q, r
  <2>3. M + (n - M) = n /\ k + 1 # 0 /\ (k + 1) - 1 = k
    BY <1>2
  <2> QED BY <1>1, <2>2, <2>3 DEF Units
<1>4. CASE n = 2 * M
  <2>0. (k + 2) * M = k * M + 2 * M /\ k * M \in Nat
    BY <1>1
  <2>1. k * M + n = (k + 2) * M + 0 /\ k + 2 \in Nat
    BY <1>1, <1>4, <2>0
  <2>2. (k * M + n) \div M = k + 2 /\ (k * M + n) % M = 0
    <3> DEFINE q == k + 2
    <3>1. q \in Nat /\ 0 < M /\ k * M + n = q * M + 0
      BY <1>1, <2>1
    <3> HIDE DEF q
    <3>2. (q * M + 0) \div M = q /\ (q * M + 0) % M = 0
      BY <1>1, <3>1, Remade
    <3> QED BY <3>1, <3>2 DEF q
  <2>3. k + 2 # 0 /\ (k + 2) - 1 = k + 1
    OBVIOUS
  <2>4. Units(mant, k * M + n) = (M + 0) * Pow2[k + 1]
    BY <1>1, <2>2, <2>3 DEF Units
  <2>5. Pow2[k + 1] = 2 * Pow2[k] /\ Pow2[k] \in Nat
    BY Pow2Step, Pow2Type
  <2>6. (M + 0) * (2 * Pow2[k]) = n * Pow2[k]
    <3>1. PICK p \in Nat : p = Pow2[k]
      BY <2>5
    <3>2. M * (2 * p) = (2 * M) * p
      BY <1>1
    <3> QED BY <1>1, <1>4, <3>1, <3>2
  <2> QED BY <1>1, <2>4, <2>5, <2>6
<1> QED BY <1>2, <1>3, <1>4

(* The codes of the first two binades are the numbers they stand for. *)
LEMMA UnitsLow == ASSUME NEW mant \in Nat, NEW n \in 0 .. 2 * Pow2[mant]
                  PROVE  Units(mant, n) = n
<1>1. PICK M \in Nat : M = Pow2[mant] /\ M > 0
  BY Pow2Type
<1>2. CASE n < M
  <2>1. n \in Nat /\ n = 0 * M + n
    BY <1>1
  <2>2. n \div M = 0 /\ n % M = n
    BY <1>1, <1>2, <2>1, Remade
  <2> QED BY <1>1, <2>2 DEF Units
<1>3. CASE n >= M
  <2>1. n \in Pow2[mant] .. 2 * Pow2[mant]
    BY <1>1, <1>3
  <2>2. Units(mant, 0 * Pow2[mant] + n) = n * Pow2[0]
    BY <2>1, UnitsAt
  <2>3. n \in Nat /\ 0 * M + n = n /\ n * 1 = n
    BY <1>1
  <2> QED BY <1>1, <2>2, <2>3, Pow2Step
<1> QED BY <1>1, <1>2, <1>3

(* Every code is in the first binade or in a later one. *)
LEMMA UnitsShape == ASSUME NEW mant \in Nat, NEW c \in Nat
                    PROVE  \/ c < Pow2[mant]
                           \/ \E k \in Nat : \E n \in Pow2[mant] .. 2 * Pow2[mant] - 1 :
                                 c = k * Pow2[mant] + n
<1>1. PICK M \in Nat : M = Pow2[mant] /\ M > 0
  BY Pow2Type
<1>2. PICK q \in Nat, r \in 0 .. M - 1 : c = q * M + r
  <2>1. c \div M \in Nat /\ c % M \in 0 .. M - 1 /\ c = (c \div M) * M + (c % M)
    BY <1>1, Divided
  <2> QED BY <2>1
<1>3. CASE q = 0
  <2>1. 0 * M = 0
    BY <1>1
  <2> QED BY <1>1, <1>2, <1>3, <2>1
<1>4. CASE q # 0
  <2>1. PICK k \in Nat : q = k + 1
    <3>1. q - 1 \in Nat /\ q = (q - 1) + 1
      BY <1>4
    <3> QED BY <3>1
  <2>2. (k + 1) * M = k * M + M /\ k * M \in Nat
    BY <1>1
  <2>3. c = k * M + (M + r) /\ M + r \in M .. 2 * M - 1
    BY <1>1, <1>2, <2>1, <2>2
  <2> QED BY <1>1, <2>3
<1> QED BY <1>3, <1>4

(* The next code stands for a larger number. *)
LEMMA UnitsStep == ASSUME NEW mant \in Nat, NEW c \in Nat
                   PROVE  /\ Units(mant, c) \in Nat /\ Units(mant, c) < Units(mant, c + 1)
<1>1. PICK M \in Nat : M = Pow2[mant] /\ M > 0
  BY Pow2Type
<1>2. CASE c < M
  <2>1. c \in 0 .. 2 * M /\ c + 1 \in 0 .. 2 * M
    BY <1>1, <1>2
  <2> QED BY <1>1, <2>1, UnitsLow
<1>3. CASE ~(c < M)
  <2>1. PICK k \in Nat, n \in M .. 2 * M - 1 : c = k * M + n
    BY <1>1, <1>3, UnitsShape
  <2>2. n \in M .. 2 * M /\ n + 1 \in M .. 2 * M /\ k * M \in Nat /\ c + 1 = k * M + (n + 1)
    BY <1>1, <2>1
  <2>3. Units(mant, c) = n * Pow2[k] /\ Units(mant, c + 1) = (n + 1) * Pow2[k]
    <3>1. n \in Pow2[mant] .. 2 * Pow2[mant] /\ n + 1 \in Pow2[mant] .. 2 * Pow2[mant]
      BY <1>1, <2>2
    <3>2. Units(mant, k * Pow2[mant] + n) = n * Pow2[k]
      BY <3>1, UnitsAt
    <3>3. Units(mant, k * Pow2[mant] + (n + 1)) = (n + 1) * Pow2[k]
      BY <3>1, UnitsAt
    <3> QED BY <1>1, <2>1, <2>2, <3>2, <3>3
  <2>4. PICK p \in Nat : p = Pow2[k] /\ p > 0
    BY Pow2Type
  <2>5. n \in Nat /\ n * p \in Nat /\ (n + 1) * p = n * p + p
    BY <1>1, <2>1
  <2> QED BY <2>3, <2>4, <2>5
<1> QED BY <1>2, <1>3

(* And so does every later one. *)
LEMMA UnitsRise == ASSUME NEW mant \in Nat
                   PROVE  \A b, c \in Nat : b < c => Units(mant, b) < Units(mant, c)
<1> DEFINE T == {c \in Nat : \A b \in Nat : b < c => Units(mant, b) < Units(mant, c)}
<1>1. 0 \in T
  OBVIOUS
<1>2. ASSUME NEW c \in Nat, c \in T PROVE c + 1 \in T
  <2>1. ASSUME NEW b \in Nat, b < c + 1 PROVE Units(mant, b) < Units(mant, c + 1)
    <3>1. Units(mant, c) < Units(mant, c + 1) /\ Units(mant, c) \in Nat
          /\ Units(mant, b) \in Nat /\ Units(mant, c + 1) \in Nat
      <4>1. c + 1 \in Nat
        OBVIOUS
      <4> QED BY <4>1, UnitsStep
    <3>2. CASE b = c
      BY <3>1, <3>2
    <3>3. CASE b < c
      <4>1. Units(mant, b) < Units(mant, c)
        BY <1>2, <3>3
      <4> QED BY <3>1, <4>1
    <3> QED BY <2>1, <3>2, <3>3
  <2> QED BY <2>1
<1>3. Nat \subseteq T
  <2> HIDE DEF T
  <2> QED BY <1>1, <1>2, Counting
<1> QED BY <1>3


(* The larger of two numbers. *)
LEMMA MaxOfTwo == \A x, y \in Int : Max({x, y}) = IF x >= y THEN x ELSE y
<1> SUFFICES ASSUME NEW x \in Int, NEW y \in Int PROVE Max({x, y}) = IF x >= y THEN x ELSE y
  OBVIOUS
<1>1. \E z \in {x, y} : \A u \in {x, y} : z >= u
  OBVIOUS
<1>2. Max({x, y}) \in {x, y} /\ \A u \in {x, y} : Max({x, y}) >= u
  BY <1>1 DEF Max
<1> QED BY <1>2

(* The sizes a half has. *)
Mant == Pow2[MantBits]
Top  == Pow2[ExpBits] - 4
(* The sizes of a half. *)
LEMMA SizesFact ==
  /\ Mant \in Nat /\ Mant > 0 /\ Mant % 2 = 0 /\ MantBits \in Nat /\ Top \in Nat
  /\ Pow2[MantBits + 1] = 2 * Mant /\ Pow2[MantBits + 2] = 4 * Mant
  /\ Pow2[ExpBits] = Top + 4 /\ Inf = Top * Mant + 3 * Mant /\ Inf \in Nat
<1>1. MantBits \in Nat /\ ExpBits \in Nat /\ MantBits - 1 \in Nat /\ ExpBits > 1
  BY FloatAssumption
<1>2. Mant \in Nat /\ Mant > 0
  BY <1>1, Pow2Type DEF Mant
<1>3. Mant = 2 * Pow2[MantBits - 1]
  <2>1. Pow2[(MantBits - 1) + 1] = 2 * Pow2[MantBits - 1] /\ (MantBits - 1) + 1 = MantBits
    BY <1>1, Pow2Step
  <2> QED BY <2>1 DEF Mant
<1>4. Mant % 2 = 0
  <2>1. PICK h \in Nat : Mant = 2 * h
    BY <1>1, <1>3, Pow2Type
  <2> QED BY <2>1
<1>5. Pow2[MantBits + 1] = 2 * Mant /\ Pow2[MantBits + 2] = 4 * Mant
  <2>1. MantBits + 1 \in Nat /\ (MantBits + 1) + 1 = MantBits + 2
    BY <1>1
  <2>2. Pow2[(MantBits + 1) + 1] = 2 * Pow2[MantBits + 1] /\ Pow2[MantBits + 1] = 2 * Mant
    BY <1>1, <2>1, Pow2Step DEF Mant
  <2> QED BY <1>2, <2>1, <2>2
<1>6. Pow2[ExpBits] \in Nat /\ Pow2[ExpBits] >= 4
  <2>1. Pow2[0] = 1 /\ Pow2[0 + 1] = 2 * Pow2[0] /\ 0 + 1 = 1
    BY Pow2Step
  <2>2. 2 * Pow2[1] <= Pow2[ExpBits]
    BY <1>1, Pow2Rises
  <2> QED BY <1>1, <2>1, <2>2, Pow2Type
<1>7. Top \in Nat /\ Pow2[ExpBits] = Top + 4
  BY <1>6 DEF Top
<1>8. Inf = Top * Mant + 3 * Mant /\ Inf \in Nat
  <2>1. Inf = (Top + 3) * Mant
    BY <1>7 DEF Inf, Mant
  <2>2. (Top + 3) * Mant = Top * Mant + 3 * Mant /\ Top * Mant \in Nat
    BY <1>2, <1>7
  <2> QED BY <1>2, <2>1, <2>2
<1> QED BY <1>1, <1>2, <1>4, <1>5, <1>7, <1>8

(* The halves in the order of their codes rise. *)
LEMMA HalvesRise == Rising(Halves, Inf)
<1>1. ASSUME NEW c \in 0 .. Inf PROVE HalfUnits(c) \in Nat
  <2>1. c \in Nat /\ MantBits \in Nat
    BY SizesFact
  <2> QED BY <2>1, UnitsStep DEF HalfUnits
<1>2. \A b, c \in 0 .. Inf : b < c => HalfUnits(b) < HalfUnits(c)
  BY SizesFact, UnitsRise DEF HalfUnits
<1> QED BY <1>1, <1>2, SizesFact DEF Rising, Halves

(* What the infinity's code would stand for, and the half below it.        *)
LEMMA InfUnits == /\ HalfUnits(Inf) = 4 * Mant * Pow2[Top]
                  /\ HalfUnits(Inf - 1) = (4 * Mant - 2) * Pow2[Top]
                  /\ Inf - 1 \in Nat /\ (Inf - 1) % 2 = 1
<1>1. PICK p \in Nat : p = Pow2[Top] /\ p > 0
  BY SizesFact, Pow2Type
<1>2. Top + 1 \in Nat /\ Pow2[Top + 1] = 2 * p
  BY <1>1, SizesFact, Pow2Step
<1>3. Inf = (Top + 1) * Mant + 2 * Mant /\ Top * Mant \in Nat
  <2>1. (Top + 1) * Mant = Top * Mant + Mant /\ Top * Mant \in Nat
    BY SizesFact
  <2> QED BY <2>1, SizesFact
<1>4. 2 * Mant \in Mant .. 2 * Mant /\ 2 * Mant - 1 \in Mant .. 2 * Mant
  BY SizesFact
<1>5. HalfUnits((Top + 1) * Mant + 2 * Mant) = (2 * Mant) * (2 * p)
  BY <1>2, <1>4, SizesFact, UnitsAt DEF HalfUnits, Mant
<1>6. HalfUnits((Top + 1) * Mant + (2 * Mant - 1)) = (2 * Mant - 1) * (2 * p)
  BY <1>2, <1>4, SizesFact, UnitsAt DEF HalfUnits, Mant
<1>7. Inf - 1 = (Top + 1) * Mant + (2 * Mant - 1)
  <2>1. (Top + 1) * Mant \in Nat
    BY <1>2, SizesFact
  <2> QED BY <1>3, <2>1, SizesFact
<1>8. (2 * Mant) * (2 * p) = 4 * Mant * p /\ (2 * Mant - 1) * (2 * p) = (4 * Mant - 2) * p
  BY <1>1, SizesFact
<1>9. (Inf - 1) % 2 = 1 /\ Inf - 1 \in Nat
  <2>1. PICK h \in Nat : Mant = 2 * h
    <3>1. Mant = (Mant \div 2) * 2 + 0 /\ Mant \div 2 \in Nat
      BY SizesFact
    <3> QED BY <3>1
  <2>2. Top * Mant = 2 * (Top * h) /\ Top * h \in Nat
    BY <2>1, SizesFact
  <2>3. PICK g \in Nat : Inf = 2 * g
    <3>1. Inf = 2 * (Top * h + 3 * h)
      BY <2>1, <2>2, SizesFact
    <3> QED BY <2>1, <2>2, <3>1
  <2>4. Inf > 0
    BY <1>3, SizesFact
  <2> QED BY <2>3, <2>4
<1> QED BY <1>1, <1>3, <1>5, <1>6, <1>7, <1>8, <1>9

(* The nearest half of a small number, of one with a binade and of one out *)
(* of range. *)
LEMMA NearestLow == ASSUME NEW a \in 0 .. Mant PROVE Nearest(a) = a
<1>1. a \in 0 .. 2 * Mant /\ a + 1 \in 0 .. 2 * Mant /\ a \in Nat
  BY SizesFact
<1>2. HalfUnits(a) = a /\ HalfUnits(a + 1) = a + 1
  BY <1>1, SizesFact, UnitsLow DEF HalfUnits, Mant
<1>3. a \in 0 .. Inf - 1 /\ a \in 0 .. Inf /\ a + 1 \in 0 .. Inf
  <2>1. Top * Mant \in Nat
    BY SizesFact
  <2> QED BY <1>1, <2>1, SizesFact
<1>4. Halves[a] = a /\ Halves[a + 1] = a + 1
  BY <1>2, <1>3 DEF Halves
<1>5. ~(2 * a > a + (a + 1)) /\ 2 * a # a + (a + 1)
  BY <1>1
<1> QED BY <1>1, <1>3, <1>4, <1>5, HalvesRise, NearestBetween DEF Nearest

(* Where a number is that a half has no bit less for. *)
LEMMA Binade == ASSUME NEW a \in Nat, a >= Mant
                PROVE  \E k \in Nat : \E s \in Nat : \E n \in Mant .. 2 * Mant - 1 : \E r \in Nat :
                          /\ r < s /\ Log2(a) = k + MantBits /\ Pow2[k] = s /\ a = n * s + r
                          /\ a \div s = n /\ a % s = r
<1>1. Log2(a) \in Nat /\ Pow2[Log2(a)] <= a /\ a < Pow2[Log2(a) + 1]
  BY SizesFact, Log2Fact
<1>2. Log2(a) >= MantBits
  <2> SUFFICES ASSUME Log2(a) < MantBits PROVE FALSE
    BY <1>1, SizesFact
  <2>1. 2 * Pow2[Log2(a)] <= Mant
    BY <1>1, SizesFact, Pow2Rises DEF Mant
  <2>2. Pow2[Log2(a) + 1] = 2 * Pow2[Log2(a)]
    BY <1>1, Pow2Step
  <2> QED BY <1>1, <2>1, <2>2, SizesFact, Pow2Type
<1>3. PICK k \in Nat : Log2(a) = k + MantBits
  <2>1. Log2(a) - MantBits \in Nat /\ Log2(a) = (Log2(a) - MantBits) + MantBits
    BY <1>1, <1>2, SizesFact
  <2> QED BY <2>1
<1>4. PICK s \in Nat : s = Pow2[k] /\ s > 0
  BY Pow2Type
<1>5. s * Mant <= a /\ a < 2 * (s * Mant)
  <2>1. Pow2[k + MantBits] = s * Mant
    BY <1>4, SizesFact, Pow2Sum DEF Mant
  <2>2. Pow2[Log2(a) + 1] = 2 * (s * Mant)
    BY <1>1, <1>3, <2>1, Pow2Step
  <2> QED BY <1>1, <1>3, <2>1, <2>2
<1>6. a \div s \in Nat /\ a % s \in 0 .. s - 1 /\ a = (a \div s) * s + (a % s)
  BY <1>4, Divided
<1>7. a \div s < 2 * Mant
  <2>1. 2 * Mant \in Nat /\ (2 * Mant) * s = 2 * (s * Mant)
    BY SizesFact
  <2> QED BY <1>4, <1>5, <2>1, Below
<1>8. ~(a \div s < Mant)
  <2>1. Mant * s = s * Mant /\ s * Mant \in Nat
    BY SizesFact
  <2> QED BY <1>4, <1>5, <2>1, SizesFact, Below
<1>9. a \div s \in Mant .. 2 * Mant - 1
  BY <1>6, <1>7, <1>8, SizesFact
<1>10. a % s \in Nat /\ a % s < s
  BY <1>4, <1>6
<1> QED BY <1>3, <1>4, <1>6, <1>9, <1>10

(* What comparing twice the remainder with the step means. *)
LEMMA Halfway == ASSUME NEW q \in Nat, NEW r \in Nat, NEW s \in Nat
                 PROVE  /\ 2 * (q + r) > q + (q + s) <=> 2 * r > s
                        /\ 2 * (q + r) = q + (q + s) <=> 2 * r = s
  OBVIOUS

(* The nearest half of a number between two neighbours. *)
LEMMA NearestBinade ==
  ASSUME NEW k \in Nat, NEW n \in Mant .. 2 * Mant - 1, NEW s \in Nat, NEW r \in 0 .. s - 1,
         s = Pow2[k], n * s + r < HalfUnits(Inf)
  PROVE  Nearest(n * s + r) =
           k * Mant + (IF 2 * r > s \/ (2 * r = s /\ n % 2 = 1) THEN n + 1 ELSE n)
<1>0. n \in Nat /\ s > 0 /\ n * s \in Nat /\ (n + 1) * s = n * s + s /\ k * Mant \in Nat /\ r \in Nat
  BY SizesFact
<1> DEFINE a == n * s + r
           c == k * Mant + n
<1>1. a \in Nat /\ c \in Nat
  BY <1>0
<1>2. HalfUnits(c) = n * s
  BY SizesFact, UnitsAt DEF HalfUnits, Mant
<1>3. HalfUnits(c + 1) = (n + 1) * s
  <2>1. HalfUnits(k * Mant + (n + 1)) = (n + 1) * s
    <3>1. n + 1 \in Mant .. 2 * Mant
      BY SizesFact
    <3> QED BY <3>1, SizesFact, UnitsAt DEF HalfUnits, Mant
  <2>2. c + 1 = k * Mant + (n + 1)
    BY <1>0
  <2> QED BY <2>1, <2>2
<1>4. c < Inf
  <2>1. HalfUnits(Inf) \in Nat /\ HalfUnits(c) < HalfUnits(Inf)
    <3>1. HalfUnits(Inf) \in Nat
      <4>1. Inf \in Nat /\ MantBits \in Nat
        BY SizesFact
      <4> QED BY <4>1, UnitsStep DEF HalfUnits
    <3> HIDE DEF c
    <3> QED BY <1>0, <1>2, <3>1
  <2>2. Inf < c => HalfUnits(Inf) < HalfUnits(c)
    BY <1>1, SizesFact, UnitsRise DEF HalfUnits
  <2> HIDE DEF c
  <2> QED BY <1>0, <1>1, <1>2, <2>1, <2>2, SizesFact
<1>5. c % 2 = n % 2
  <2>1. PICK h \in Nat : Mant = 2 * h
    <3>1. Mant = (Mant \div 2) * 2 + 0 /\ Mant \div 2 \in Nat
      BY SizesFact
    <3> QED BY <3>1
  <2>2. k * Mant = 2 * (k * h) /\ k * h \in Nat
    BY <2>1
  <2>3. PICK g \in Nat : k * Mant = 2 * g
    BY <2>2
  <2> QED BY <1>0, <2>3
<1>6. c \in 0 .. Inf - 1 /\ c \in 0 .. Inf /\ c + 1 \in 0 .. Inf
  <2> HIDE DEF c
  <2> QED BY <1>1, <1>4, SizesFact
<1>7. Halves[c] = n * s /\ Halves[c + 1] = n * s + s
  BY <1>0, <1>2, <1>3, <1>6 DEF Halves
<1>8. Nearest(a) = IF 2 * a > n * s + (n * s + s) \/ (2 * a = n * s + (n * s + s) /\ c % 2 = 1)
                     THEN c + 1 ELSE c
  <2>1. Halves[c] <= a /\ a <= Halves[c + 1]
    BY <1>0, <1>7
  <2> HIDE DEF a, c
  <2> QED BY <1>1, <1>6, <1>7, <2>1, HalvesRise, NearestBetween DEF Nearest
<1>9. (2 * a > n * s + (n * s + s) <=> 2 * r > s) /\ (2 * a = n * s + (n * s + s) <=> 2 * r = s)
  <2>1. PICK q \in Nat : q = n * s
    BY <1>0
  <2>2. (2 * (q + r) > q + (q + s) <=> 2 * r > s) /\ (2 * (q + r) = q + (q + s) <=> 2 * r = s)
    BY <1>0, Halfway
  <2> QED BY <2>1, <2>2
<1>10. c + 1 = k * Mant + (n + 1)
  BY <1>0
<1> HIDE DEF a
<1>11. Nearest(a) = k * Mant + (IF 2 * r > s \/ (2 * r = s /\ n % 2 = 1) THEN n + 1 ELSE n)
  BY <1>5, <1>8, <1>9, <1>10
<1> QED BY <1>11 DEF a

(* Beyond the largest half the nearest code is Inf. *)
LEMMA NearestHigh == ASSUME NEW a \in Nat, a >= HalfUnits(Inf) PROVE Nearest(a) = Inf
<1>1. Halves[Inf] = HalfUnits(Inf)
  BY SizesFact DEF Halves
<1> QED BY <1>1, HalvesRise, NearestBeyond DEF Nearest

-----------------------------------------------------------------------------
(* half_round finds the nearest half of every number of units. *)
THEOREM HalfRoundNearest == \A a \in Nat : HalfRound(a) = Nearest(a)
<1> SUFFICES ASSUME NEW a \in Nat PROVE HalfRound(a) = Nearest(a)
  OBVIOUS
<1> DEFINE sh  == Max({Log2(a) - MantBits, 0})
           n   == a \div Pow2[sh]
           rem == a % Pow2[sh]
           up  == 2 * rem > Pow2[sh] \/ (2 * rem = Pow2[sh] /\ n % 2 = 1)
           r   == (IF up THEN n + 1 ELSE n) * Pow2[sh]
           limit == (4 * Mant - 1) * Pow2[Top]
           carried == LET e == Log2(r) - MantBits IN e * Mant + r \div Pow2[e]
<1>1. HalfRound(a) = IF a = 0 THEN 0 ELSE
                     CASE a >= limit -> Inf [] r < Mant -> r [] OTHER -> carried
  BY SizesFact DEF HalfRound, Mant, Top
<1> HIDE DEF carried, r, limit
<1>2. limit \in Nat /\ Mant <= limit /\ HalfUnits(Inf) \in Nat
      /\ 2 * limit = HalfUnits(Inf) + HalfUnits(Inf - 1) /\ HalfUnits(Inf - 1) <= limit
      /\ limit <= HalfUnits(Inf)
  <2>1. PICK p \in Nat : p = Pow2[Top] /\ p > 0
    BY SizesFact, Pow2Type
  <2>2. PICK q \in Nat : p = q + 1
    <3>1. p - 1 \in Nat /\ p = (p - 1) + 1
      BY <2>1
    <3> QED BY <3>1
  <2>3. Mant * p = Mant * q + Mant /\ Mant * q \in Nat
    BY <2>2, SizesFact
  <2>4. PICK b \in Nat : b = Mant * p /\ b >= Mant /\ b >= p
    <3>1. Mant * p >= p
      <4>1. PICK m \in Nat : Mant = m + 1
        <5>1. Mant - 1 \in Nat /\ Mant = (Mant - 1) + 1
          BY SizesFact
        <5> QED BY <5>1
      <4>2. Mant * p = m * p + p /\ m * p \in Nat
        BY <4>1
      <4> QED BY <4>2
    <3> QED BY <2>3, <3>1, SizesFact
  <2>5. limit = 4 * b - p /\ HalfUnits(Inf) = 4 * b /\ HalfUnits(Inf - 1) = 4 * b - 2 * p
    <3>1. (4 * Mant - 1) * p = 4 * (Mant * p) - p /\ 4 * Mant * p = 4 * (Mant * p)
          /\ (4 * Mant - 2) * p = 4 * (Mant * p) - 2 * p
      BY SizesFact
    <3> QED BY <2>1, <2>4, <3>1, InfUnits DEF limit
  <2> QED BY <2>1, <2>4, <2>5, SizesFact
<1>3. CASE a = 0
  <2>1. a \in 0 .. Mant
    BY <1>3, SizesFact
  <2> QED BY <1>1, <1>3, <2>1, NearestLow
<1>4. CASE a # 0 /\ a < Mant
  <2>1. Log2(a) \in Nat /\ Log2(a) < MantBits
    <3>1. Log2(a) \in Nat /\ Pow2[Log2(a)] <= a
      BY <1>4, Log2Fact
    <3>2. MantBits < Log2(a) => 2 * Mant <= Pow2[Log2(a)]
      BY <3>1, SizesFact, Pow2Rises DEF Mant
    <3>3. MantBits = Log2(a) => Mant = Pow2[Log2(a)]
      BY DEF Mant
    <3>4. Pow2[Log2(a)] \in Nat
      BY <3>1, Pow2Type
    <3> QED BY <1>4, <3>1, <3>2, <3>3, <3>4, SizesFact
  <2>2. sh = 0
    BY <2>1, SizesFact, MaxOfTwo
  <2>3. r = a
    <3>1. Pow2[sh] = 1
      BY <2>2, Pow2Step
    <3> HIDE DEF sh
    <3>2. n = a /\ rem = 0 /\ ~up
      BY <3>1
    <3> HIDE DEF n, rem, up
    <3> QED BY <3>1, <3>2 DEF r
  <2>4. a \in 0 .. Mant
    BY <1>4, SizesFact
  <2> HIDE DEF up, rem, n, sh
  <2> QED BY <1>1, <1>2, <1>4, <2>3, <2>4, NearestLow, SizesFact
<1>5. CASE a >= Mant
  <2>1. PICK k \in Nat, s \in Nat, m \in Mant .. 2 * Mant - 1, t \in Nat :
           /\ t < s /\ Log2(a) = k + MantBits /\ Pow2[k] = s /\ a = m * s + t
           /\ a \div s = m /\ a % s = t
    BY <1>5, Binade
  <2>2. sh = k
    BY <2>1, SizesFact, MaxOfTwo
  <2> DEFINE q == IF 2 * t > s \/ (2 * t = s /\ m % 2 = 1) THEN m + 1 ELSE m
  <2>3. r = q * s
    <3>1. Pow2[sh] = s
      BY <2>1, <2>2
    <3> HIDE DEF sh
    <3>2. n = m /\ rem = t
      BY <2>1, <3>1
    <3> HIDE DEF n, rem
    <3> QED BY <3>1, <3>2 DEF r
  <2>4. q \in Mant .. 2 * Mant /\ q \in Nat /\ s > 0 /\ m \in Nat
    BY <2>1, SizesFact
  <2> HIDE DEF q, up, rem, n, sh
  <2>5. r \in Nat /\ r >= Mant * s /\ Mant * s >= Mant /\ Mant * s \in Nat
    <3>1. PICK u \in Nat : q = Mant + u
      <4>1. q - Mant \in Nat /\ q = Mant + (q - Mant)
        BY <2>4, SizesFact
      <4> QED BY <4>1
    <3>2. q * s = Mant * s + u * s /\ u * s \in Nat /\ Mant * s \in Nat
      BY <3>1, SizesFact
    <3>3. PICK v \in Nat : s = v + 1
      <4>1. s - 1 \in Nat /\ s = (s - 1) + 1
        BY <2>4
      <4> QED BY <4>1
    <3>4. Mant * s = Mant * v + Mant /\ Mant * v \in Nat
      BY <3>3, SizesFact
    <3>5. PICK b \in Nat, d \in Nat, e \in Nat : b = Mant * s /\ d = u * s /\ e = Mant * v
      BY <3>2, <3>4
    <3>6. r = b + d /\ b = e + Mant
      BY <2>3, <3>2, <3>4, <3>5
    <3> QED BY <3>5, <3>6, SizesFact
  <2>6. HalfRound(a) = IF a >= limit THEN Inf ELSE carried
    BY <1>1, <1>5, <2>5, SizesFact
  <2>7. CASE a >= HalfUnits(Inf)
    BY <1>2, <2>6, <2>7, NearestHigh
  <2>8. CASE a < HalfUnits(Inf) /\ a >= limit
    <3>1. Inf - 1 \in 0 .. Inf - 1 /\ (Inf - 1) + 1 = Inf /\ Inf \in 0 .. Inf /\ Inf - 1 \in 0 .. Inf
      BY InfUnits, SizesFact
    <3>2. Halves[Inf - 1] = HalfUnits(Inf - 1) /\ Halves[Inf] = HalfUnits(Inf)
      BY <3>1 DEF Halves
    <3> DEFINE lo == Halves[Inf - 1]
               hi == Halves[Inf]
    <3>3. lo \in Nat /\ hi \in Nat
      BY <3>1, HalvesRise DEF Rising
    <3>4. lo <= a /\ a <= hi /\ (2 * a > lo + hi \/ 2 * a = lo + hi)
      <4>1. 2 * limit = hi + lo /\ lo <= limit /\ limit <= a /\ a < hi
        BY <1>2, <2>8, <3>2
      <4> HIDE DEF lo, hi
      <4> QED BY <1>2, <3>3, <4>1
    <3>5. Nearest(a) = Inf
      BY <3>1, <3>4, InfUnits, HalvesRise, NearestBetween DEF Nearest
    <3> QED BY <2>6, <2>8, <3>5
  <2>9. CASE a < limit
    <3>1. Nearest(a) = k * Mant + q
      <4>1. m * s + t < HalfUnits(Inf)
        BY <1>2, <2>1, <2>9
      <4>2. t \in 0 .. s - 1
        BY <2>1
      <4> QED BY <2>1, <4>1, <4>2, NearestBinade DEF q
    <3>2. carried = k * Mant + q
      <4>1. CASE q < 2 * Mant
        <5>1. Pow2[k + MantBits] = s * Mant /\ Pow2[(k + MantBits) + 1] = 2 * (s * Mant)
          <6>1. Pow2[k + MantBits] = s * Mant
            BY <2>1, SizesFact, Pow2Sum DEF Mant
          <6> QED BY <6>1, SizesFact, Pow2Step
        <5>2. r < 2 * (s * Mant)
          <6>1. q * s + s <= (2 * Mant) * s
            BY <2>4, <4>1, SizesFact, Rises
          <6>2. (2 * Mant) * s = 2 * (s * Mant) /\ q * s \in Nat /\ s * Mant \in Nat
            BY <2>4, SizesFact
          <6> QED BY <2>3, <2>4, <6>1, <6>2
        <5>3. Log2(r) = k + MantBits
          <6>1. s * Mant <= r
            <7>1. Mant * s = s * Mant
              BY SizesFact
            <7> QED BY <2>5, <7>1
          <6>2. k + MantBits \in Nat
            BY SizesFact
          <6> QED BY <2>5, <5>1, <5>2, <6>1, <6>2, Log2Is
        <5>4. Log2(r) - MantBits = k
          BY <5>3, SizesFact
        <5>5. r \div s = q
          BY <2>3, <2>4, Multiple
        <5> QED BY <2>1, <5>4, <5>5 DEF carried
      <4>2. CASE q = 2 * Mant
        <5>1. Pow2[k + 1] = 2 * s /\ Pow2[(k + 1) + MantBits] = (2 * s) * Mant
          <6>1. Pow2[k + 1] = 2 * s
            BY <2>1, Pow2Step
          <6> QED BY <6>1, SizesFact, Pow2Sum DEF Mant
        <5>2. r = Mant * (2 * s) /\ r = (2 * s) * Mant
          <6>1. (2 * Mant) * s = Mant * (2 * s) /\ (2 * Mant) * s = (2 * s) * Mant
            BY SizesFact
          <6> QED BY <2>3, <4>2, <6>1
        <5>3. Log2(r) = (k + 1) + MantBits
          <6>1. (k + 1) + MantBits \in Nat /\ Pow2[((k + 1) + MantBits) + 1] = 2 * Pow2[(k + 1) + MantBits]
            BY SizesFact, Pow2Step
          <6>2. Pow2[(k + 1) + MantBits] = r /\ r > 0
            BY <2>5, <5>1, <5>2, SizesFact
          <6>3. r < Pow2[((k + 1) + MantBits) + 1]
            BY <2>5, <6>1, <6>2
          <6> QED BY <2>5, <6>1, <6>2, <6>3, Log2Is
        <5>4. Log2(r) - MantBits = k + 1
          BY <5>3, SizesFact
        <5>5. r \div (2 * s) = Mant
          BY <2>4, <5>2, SizesFact, Multiple
        <5>6. (k + 1) * Mant + Mant = k * Mant + 2 * Mant
          BY SizesFact
        <5> QED BY <4>2, <5>1, <5>4, <5>5, <5>6 DEF carried
      <4> QED BY <2>4, <4>1, <4>2, SizesFact
    <3> QED BY <1>2, <2>6, <2>9, <3>1, <3>2
  <2> QED BY <1>2, <2>7, <2>8, <2>9
<1> QED BY <1>3, <1>4, <1>5, SizesFact


(* So does publish of the sm120 build, which carries into the exponent.    *)
THEOREM PublishNearest == \A a \in Nat : Publish(a) = Nearest(a)
<1> SUFFICES ASSUME NEW a \in Nat PROVE Publish(a) = Nearest(a)
  OBVIOUS
<1> DEFINE top  == Log2(a)
           sh   == Max({top - MantBits, 0})
           q0   == a \div Pow2[sh]
           rem  == a % Pow2[sh]
           up   == sh > 0 /\ (rem > Pow2[sh - 1] \/ (rem = Pow2[sh - 1] /\ q0 % 2 = 1))
           q    == IF up THEN q0 + 1 ELSE q0
           over == q >= 2 * Mant
           e    == top + (IF over THEN 1 ELSE 0) - MantBits + 1
           m    == IF over THEN q \div 2 ELSE q
<1>1. Publish(a) = IF a = 0 THEN 0 ELSE
                   CASE e < 1 -> m [] e >= Pow2[ExpBits] - 1 -> Inf [] OTHER -> e * Mant + m - Mant
  BY SizesFact DEF Publish, Mant
<1> HIDE DEF m, e, over, q, up, rem, q0, sh, top
<1>3. CASE a = 0
  <2>1. a \in 0 .. Mant
    BY <1>3, SizesFact
  <2> QED BY <1>1, <1>3, <2>1, NearestLow
<1>4. CASE a # 0 /\ a < Mant
  <2>1. top \in Nat /\ top < MantBits
    <3>1. Log2(a) \in Nat /\ Pow2[Log2(a)] <= a
      BY <1>4, Log2Fact
    <3>2. MantBits < Log2(a) => 2 * Mant <= Pow2[Log2(a)]
      BY <3>1, SizesFact, Pow2Rises DEF Mant
    <3>3. MantBits = Log2(a) => Mant = Pow2[Log2(a)]
      BY DEF Mant
    <3>4. Pow2[Log2(a)] \in Nat
      BY <3>1, Pow2Type
    <3> QED BY <1>4, <3>1, <3>2, <3>3, <3>4, SizesFact DEF top
  <2>2. sh = 0
    BY <2>1, SizesFact, MaxOfTwo DEF sh
  <2>3. q = a
    <3>1. Pow2[sh] = 1
      BY <2>2, Pow2Step
    <3> QED BY <2>2, <3>1 DEF q, up, q0
  <2>4. ~over /\ m = a
    BY <1>4, <2>3, SizesFact DEF m, over
  <2>5. e < 1
    BY <2>1, <2>4, SizesFact DEF e
  <2>6. a \in 0 .. Mant
    BY <1>4, SizesFact
  <2>7. Pow2[ExpBits] - 1 >= 1
    BY SizesFact
  <2>8. e \in Int
    BY <2>1, <2>4, SizesFact DEF e
  <2>9. Publish(a) = m
    <3>1. Pow2[ExpBits] - 1 \in Int /\ ~(e >= Pow2[ExpBits] - 1)
      BY <2>5, <2>7, <2>8, SizesFact
    <3> QED BY <1>1, <1>4, <2>5, <3>1
  <2> QED BY <2>4, <2>6, <2>9, NearestLow
<1>5. CASE a >= Mant
  <2>1. PICK k \in Nat, s \in Nat, n \in Mant .. 2 * Mant - 1, t \in Nat :
           /\ t < s /\ Log2(a) = k + MantBits /\ Pow2[k] = s /\ a = n * s + t
           /\ a \div s = n /\ a % s = t
    BY <1>5, Binade
  <2>2. top = k + MantBits /\ sh = k
    <3>1. top = k + MantBits
      BY <2>1 DEF top
    <3> QED BY <2>1, <3>1, SizesFact, MaxOfTwo DEF sh
  <2> DEFINE p == IF 2 * t > s \/ (2 * t = s /\ n % 2 = 1) THEN n + 1 ELSE n
  <2>3. q = p
    <3>1. q0 = n /\ rem = t
      BY <2>1, <2>2 DEF q0, rem
    <3>2. CASE k = 0
      <4>1. s = 1
        BY <2>1, <3>2, Pow2Step
      <4>2. t = 0
        BY <2>1, <4>1
      <4> QED BY <2>2, <3>1, <3>2, <4>1, <4>2 DEF q, up
    <3>3. CASE k # 0
      <4>1. k - 1 \in Nat /\ (k - 1) + 1 = k
        BY <3>3
      <4>2. PICK h \in Nat : h = Pow2[sh - 1] /\ s = 2 * h
        BY <2>1, <2>2, <4>1, Pow2Step, Pow2Type
      <4>3. sh > 0
        BY <2>2, <3>3
      <4>4. up <=> t > h \/ (t = h /\ n % 2 = 1)
        BY <3>1, <4>2, <4>3 DEF up
      <4>5. (t > h <=> 2 * t > s) /\ (t = h <=> 2 * t = s)
        BY <4>2
      <4> QED BY <3>1, <4>4, <4>5 DEF q
    <3> QED BY <3>2, <3>3
  <2>4. p \in Mant .. 2 * Mant /\ p \in Nat /\ n \in Nat /\ s > 0
    BY <2>1, SizesFact
  <2> HIDE DEF p
  <2>5. /\ p < 2 * Mant => e = k + 1 /\ m = p
        /\ p = 2 * Mant => e = k + 2 /\ m = Mant
    <3>1. CASE p < 2 * Mant
      <4>1. ~over
        BY <2>3, <2>4, <3>1, SizesFact DEF over
      <4> QED BY <2>2, <2>3, <3>1, <4>1, SizesFact DEF e, m
    <3>2. CASE p = 2 * Mant
      <4>1. over
        BY <2>3, <2>4, <3>2, SizesFact DEF over
      <4>2. (2 * Mant) \div 2 = Mant
        BY SizesFact
      <4> QED BY <2>2, <2>3, <3>2, <4>1, <4>2, SizesFact DEF e, m
    <3> QED BY <2>4, <3>1, <3>2, SizesFact
  <2>6. ~(e < 1) /\ e * Mant + m - Mant = k * Mant + p
    <3>0. p < 2 * Mant \/ p = 2 * Mant
      BY <2>4, SizesFact
    <3>1. CASE p < 2 * Mant
      <4>1. (k + 1) * Mant = k * Mant + Mant /\ k * Mant \in Nat
        BY SizesFact
      <4> QED BY <2>4, <2>5, <3>1, <4>1, SizesFact
    <3>2. CASE p = 2 * Mant
      <4>1. (k + 2) * Mant = k * Mant + 2 * Mant /\ k * Mant \in Nat
        BY SizesFact
      <4> QED BY <2>4, <2>5, <3>2, <4>1, SizesFact
    <3> QED BY <3>0, <3>1, <3>2
  <2>7. Publish(a) = IF e >= Top + 3 THEN Inf ELSE k * Mant + p
    <3>1. Pow2[ExpBits] - 1 = Top + 3 /\ a # 0
      BY <1>5, SizesFact
    <3> HIDE DEF p
    <3> QED BY <1>1, <2>6, <3>1
  <2>8. CASE a >= HalfUnits(Inf)
    <3>1. e >= Top + 3
      <4>1. k >= Top + 2
        <5> SUFFICES ASSUME k < Top + 2 PROVE FALSE
          BY SizesFact
        <5>1. k = Top + 1 \/ k < Top + 1
          BY SizesFact
        <5>2. Pow2[k] <= Pow2[Top + 1] /\ Pow2[Top + 1] \in Nat
          <6>1. Top + 1 \in Nat
            BY SizesFact
          <6> QED BY <5>1, <6>1, Pow2Rises, Pow2Type
        <5>3. a < (2 * Mant) * s
          <6>1. n * s + s <= (2 * Mant) * s
            BY <2>4, SizesFact, Rises
          <6>2. n * s \in Nat /\ (2 * Mant) * s \in Nat
            BY <2>4, SizesFact
          <6> QED BY <2>1, <6>1, <6>2
        <5>4. HalfUnits(Inf) = (2 * Mant) * Pow2[Top + 1]
          <6>1. PICK u \in Nat : u = Pow2[Top]
            BY SizesFact, Pow2Type
          <6>2. Pow2[Top + 1] = 2 * u
            BY <6>1, SizesFact, Pow2Step
          <6>3. 4 * Mant * u = (2 * Mant) * (2 * u)
            BY SizesFact
          <6> QED BY <6>1, <6>2, <6>3, InfUnits
        <5>5. \A x, y \in Nat : x <= y => (2 * Mant) * x <= (2 * Mant) * y
          <6> SUFFICES ASSUME NEW x \in Nat, NEW y \in Nat, x <= y PROVE (2 * Mant) * x <= (2 * Mant) * y
            OBVIOUS
          <6>1. PICK d \in Nat : y = x + d
            <7>1. y - x \in Nat /\ y = x + (y - x)
              OBVIOUS
            <7> QED BY <7>1
          <6>2. (2 * Mant) * y = (2 * Mant) * x + (2 * Mant) * d /\ (2 * Mant) * x \in Nat /\ (2 * Mant) * d \in Nat
            BY <6>1, SizesFact
          <6> QED BY <6>2
        <5>6. (2 * Mant) * s <= HalfUnits(Inf)
          BY <2>1, <5>2, <5>4, <5>5
        <5>7. (2 * Mant) * s \in Nat
          BY SizesFact
        <5>8. HalfUnits(Inf) \in Nat
          <6>1. Inf \in Nat /\ MantBits \in Nat
            BY SizesFact
          <6> QED BY <6>1, UnitsStep DEF HalfUnits
        <5> QED BY <2>8, <5>3, <5>6, <5>7, <5>8
      <4> QED BY <2>4, <2>5, <4>1, SizesFact
    <3> QED BY <2>7, <2>8, <3>1, NearestHigh
  <2>9. CASE a < HalfUnits(Inf)
    <3>1. Nearest(a) = k * Mant + p
      <4>1. m = m /\ t \in 0 .. s - 1 /\ n * s + t < HalfUnits(Inf)
        BY <2>1, <2>9
      <4> QED BY <2>1, <4>1, NearestBinade DEF p
    <3>2. k * Mant + p \in 0 .. Inf
      <4>1. DOMAIN Halves = 0 .. Inf /\ Rising(Halves, Inf)
        BY HalvesRise DEF Rising
      <4>2. k * Mant + p \in Nat
        BY <2>4, SizesFact
      <4>3. n * s + t < HalfUnits(Inf) /\ k * Mant + n < Inf
        <5>1. HalfUnits(k * Mant + n) = n * s
          <6>1. n \in Pow2[MantBits] .. 2 * Pow2[MantBits]
            BY SizesFact DEF Mant
          <6> QED BY <2>1, <6>1, SizesFact, UnitsAt DEF HalfUnits, Mant
        <5>2. k * Mant + n \in Nat /\ n * s \in Nat
          BY <2>4, SizesFact
        <5>3. Inf < k * Mant + n => HalfUnits(Inf) < HalfUnits(k * Mant + n)
          BY <5>2, SizesFact, UnitsRise DEF HalfUnits
        <5>4. HalfUnits(Inf) \in Nat
          <6>1. Inf \in Nat /\ MantBits \in Nat
            BY SizesFact
          <6> QED BY <6>1, UnitsStep DEF HalfUnits
        <5>5. n * s < HalfUnits(Inf)
          BY <2>1, <2>9, <5>2, <5>4
        <5>6. Inf # k * Mant + n
          BY <5>1, <5>4, <5>5
        <5>7. ~(Inf < k * Mant + n)
          BY <5>1, <5>2, <5>3, <5>4, <5>5
        <5>8. PICK c \in Nat : c = k * Mant + n
          BY <5>2
        <5>9. c < Inf
          BY <5>6, <5>7, <5>8, SizesFact
        <5> QED BY <2>1, <2>9, <5>8, <5>9
      <4>4. p = n \/ p = n + 1
        BY DEF p
      <4>5. k * Mant \in Nat
        BY SizesFact
      <4> QED BY <2>4, <4>2, <4>3, <4>4, <4>5, SizesFact
    <3>3. e >= Top + 3 => k * Mant + p = Inf
      <4> SUFFICES ASSUME e >= Top + 3 PROVE k * Mant + p = Inf
        OBVIOUS
      <4>1. p = 2 * Mant \/ p < 2 * Mant
        BY <2>4, SizesFact
      <4>2. PICK d \in Nat : d = k - Top /\ k = Top + d
        <5>1. k - Top \in Nat
          BY <2>5, <4>1, SizesFact
        <5> QED BY <5>1, SizesFact
      <4>3. k * Mant = Top * Mant + d * Mant /\ d * Mant \in Nat /\ Top * Mant \in Nat
        BY <4>2, SizesFact
      <4>4. CASE p = 2 * Mant
        <5>1. d >= 1
          BY <2>5, <4>2, <4>4, SizesFact
        <5>2. 1 * Mant <= d * Mant
          <6>1. d = 1 \/ 1 < d
            BY <5>1
          <6>2. 1 < d => 1 * Mant + Mant <= d * Mant
            BY SizesFact, Rises
          <6> QED BY <4>3, <6>1, <6>2, SizesFact
        <5> QED BY <3>2, <4>3, <4>4, <5>2, SizesFact
      <4>5. CASE p < 2 * Mant
        <5>1. d >= 2
          BY <2>5, <4>2, <4>5, SizesFact
        <5>2. 2 * Mant <= d * Mant
          <6>1. d = 2 \/ 2 < d
            BY <5>1
          <6>2. 2 < d => 2 * Mant + Mant <= d * Mant
            BY SizesFact, Rises
          <6> QED BY <4>3, <6>1, <6>2, SizesFact
        <5> QED BY <2>4, <3>2, <4>3, <4>5, <5>2, SizesFact
      <4> QED BY <4>1, <4>4, <4>5
    <3> QED BY <2>7, <3>1, <3>3
  <2> QED
    <3>1. HalfUnits(Inf) \in Nat
      <4>1. Inf \in Nat /\ MantBits \in Nat
        BY SizesFact
      <4> QED BY <4>1, UnitsStep DEF HalfUnits
    <3> QED BY <2>8, <2>9, <3>1
<1> QED BY <1>3, <1>4, <1>5, SizesFact


Scale == Pow2[HalfFrac - E4Frac]

(* The sizes of an E4 code. *)
LEMMA E4Sizes == E4Mant \in Nat /\ E4Max \in Nat /\ E4Max > 0 /\ Scale \in Nat /\ Scale > 0
<1>1. E4Mant \in Nat \ {0} /\ E4Exp \in Nat \ {0} /\ E4Frac \in Nat /\ HalfFrac \in Nat /\ 2 * E4Frac <= HalfFrac
  BY FloatAssumption
<1>2. Scale \in Nat /\ Scale > 0
  <2>1. HalfFrac - E4Frac \in Nat
    BY <1>1
  <2> QED BY <2>1, Pow2Type DEF Scale
<1>3. 2 * Pow2[1] <= Pow2[E4Exp + E4Mant] /\ Pow2[1] = 2
  <2>1. Pow2[0] = 1 /\ Pow2[0 + 1] = 2 * Pow2[0] /\ 0 + 1 = 1
    BY Pow2Step
  <2>2. 1 < E4Exp + E4Mant /\ E4Exp + E4Mant \in Nat
    BY <1>1
  <2> QED BY <2>1, <2>2, Pow2Rises
<1>4. Pow2[E4Exp + E4Mant] \in Nat
  <2>1. E4Exp + E4Mant \in Nat
    BY <1>1
  <2> QED BY <2>1, Pow2Type
<1> QED BY <1>1, <1>2, <1>3, <1>4 DEF E4Max

(* The E4 codes in order rise. *)
LEMMA E4CodesRise == Rising(E4Codes, E4Max)
<1>1. ASSUME NEW c \in 0 .. E4Max PROVE E4Codes[c] = E4Units(c) * Scale /\ E4Units(c) \in Nat /\ E4Codes[c] \in Nat
  <2>1. c \in Nat /\ E4Mant \in Nat
    BY E4Sizes
  <2>2. E4Units(c) \in Nat
    BY <2>1, UnitsStep DEF E4Units
  <2>3. E4Codes[c] = E4Units(c) * Scale
    BY DEF E4Codes, Scale
  <2> QED BY <2>2, <2>3, E4Sizes
<1>2. ASSUME NEW b \in 0 .. E4Max, NEW c \in 0 .. E4Max, b < c PROVE E4Codes[b] < E4Codes[c]
  <2>1. PICK m \in Nat : m = E4Units(b)
    BY <1>1
  <2>2. PICK n \in Nat : n = E4Units(c)
    BY <1>1
  <2>3. m < n
    BY <1>2, <2>1, <2>2, E4Sizes, UnitsRise DEF E4Units
  <2>4. m * Scale + Scale <= n * Scale
    BY <2>3, E4Sizes, Rises
  <2>5. m * Scale \in Nat /\ n * Scale \in Nat
    BY E4Sizes
  <2> QED BY <1>1, <2>1, <2>2, <2>4, <2>5, E4Sizes
<1>3. E4Codes \in [0 .. E4Max -> Nat]
  BY <1>1 DEF E4Codes
<1> QED BY <1>2, <1>3, E4Sizes DEF Rising

(* sat_e4's search is the function its recursion describes. *)
LEMMA SearchFact ==
  ASSUME NEW a
  PROVE  \E f : f = [c \in 0 .. E4Max |->
           IF c = 0 THEN 0
           ELSE LET b == f[c - 1]
                    far(d) == Abs(a - E4Units(d) * Pow2[HalfFrac - E4Frac])
                IN  IF far(c) < far(b) \/ (far(c) = far(b) /\ c % 2 = 0 /\ b % 2 = 1) THEN c ELSE b]
<1> DEFINE far(d) == Abs(a - E4Units(d) * Pow2[HalfFrac - E4Frac])
           Better(c, b) == IF far(c) < far(b) \/ (far(c) = far(b) /\ c % 2 = 0 /\ b % 2 = 1) THEN c ELSE b
           Is(f, n) == f = [c \in 0 .. n |-> IF c = 0 THEN 0 ELSE Better(c, f[c - 1])]
           T == {n \in Nat : \E f : Is(f, n)}
<1> HIDE DEF Better
<1>1. 0 \in T
  <2>1. Is([k \in 0 .. 0 |-> 0], 0)
    OBVIOUS
  <2> QED BY <2>1
<1>2. ASSUME NEW n \in Nat, n \in T PROVE n + 1 \in T
  <2>1. PICK f : Is(f, n)
    BY <1>2
  <2> DEFINE g == [k \in 0 .. n + 1 |-> IF k <= n THEN f[k] ELSE Better(k, f[n])]
  <2>2. ASSUME NEW k \in 0 .. n + 1
        PROVE  g[k] = IF k = 0 THEN 0 ELSE Better(k, g[k - 1])
    <3>1. CASE k = 0
      BY <2>1, <3>1
    <3>2. CASE k # 0 /\ k <= n
      <4>1. g[k] = f[k] /\ g[k - 1] = f[k - 1] /\ f[k] = Better(k, f[k - 1])
        BY <2>1, <3>2
      <4> QED BY <3>2, <4>1
    <3>3. CASE k = n + 1
      <4>1. g[k] = Better(k, f[n]) /\ g[k - 1] = f[n] /\ k # 0
        BY <3>3
      <4> QED BY <4>1
    <3> QED BY <3>1, <3>2, <3>3
  <2>3. g = [k \in 0 .. n + 1 |-> g[k]]
    OBVIOUS
  <2> HIDE DEF g
  <2>4. Is(g, n + 1)
    BY <2>2, <2>3
  <2> QED BY <2>4
<1>3. Nat \subseteq T
  <2> HIDE DEF T
  <2> QED BY <1>1, <1>2, Counting
<1>4. PICK f : Is(f, E4Max)
  BY <1>3, E4Sizes
<1> QED BY <1>4 DEF Better

(* The search over the codes finds the nearest code of E4M3; past the last *)
(* one it is the last. *)
THEOREM SatE4Nearest == \A a \in Nat : SatE4(a) = NearestE4(a)
<1> SUFFICES ASSUME NEW a \in Nat PROVE SatE4(a) = NearestE4(a)
  OBVIOUS
<1> DEFINE far(d) == Abs(a - E4Units(d) * Pow2[HalfFrac - E4Frac])
           Is(f) == f = [c \in 0 .. E4Max |->
             IF c = 0 THEN 0
             ELSE LET b == f[c - 1]
                  IN  IF far(c) < far(b) \/ (far(c) = far(b) /\ c % 2 = 0 /\ b % 2 = 1) THEN c ELSE b]
           B == CHOOSE f : Is(f)
<1>1. SatE4(a) = IF a >= E4Codes[E4Max] THEN E4Max ELSE B[E4Max]
  <2>1. E4Codes[E4Max] = E4Units(E4Max) * Pow2[HalfFrac - E4Frac]
    BY E4Sizes DEF E4Codes
  <2> QED BY <2>1 DEF SatE4
<1>2. Is(B)
  <2>1. \E f : Is(f)
    BY SearchFact
  <2> HIDE DEF Is
  <2> QED BY <2>1
<1> HIDE DEF B
<1>3. \A c \in 0 .. E4Max : far(c) = Abs(a - E4Codes[c]) /\ E4Codes[c] \in Nat /\ far(c) \in Nat
  BY E4CodesRise DEF Rising, E4Codes, Abs
<1> DEFINE Nearby(c, n) == /\ c \in 0 .. n
                           /\ \A d \in 0 .. n \ {c} : far(c) < far(d) \/ (far(c) = far(d) /\ c % 2 = 0)
           T == {n \in Nat : n <= E4Max => Nearby(B[n], n)}
<1>4. 0 \in T
  <2>1. B[0] = 0
    BY <1>2, E4Sizes
  <2>2. 0 .. 0 = {0}
    OBVIOUS
  <2>3. Nearby(0, 0)
    BY <2>2
  <2> HIDE DEF Nearby
  <2> QED BY <2>1, <2>3
<1>5. ASSUME NEW n \in Nat, n \in T PROVE n + 1 \in T
  <2> SUFFICES ASSUME n + 1 <= E4Max PROVE Nearby(B[n + 1], n + 1)
    <3> HIDE DEF Nearby
    <3> QED OBVIOUS
  <2> DEFINE c == n + 1
             b == B[n]
  <2>1. Nearby(b, n)
    <3>1. n <= E4Max
      BY E4Sizes
    <3> HIDE DEF Nearby
    <3> QED BY <1>5, <3>1
  <2>2. b \in 0 .. n /\ b \in 0 .. E4Max /\ c \in 0 .. E4Max /\ b < c /\ c \in 0 .. n + 1 /\ c # 0 /\ c - 1 = n
    BY <2>1, E4Sizes
  <2>3. B[c] = IF far(c) < far(b) \/ (far(c) = far(b) /\ c % 2 = 0 /\ b % 2 = 1) THEN c ELSE b
    <3> HIDE DEF far
    <3> QED BY <1>2, <2>2
  <2>4. \A d \in 0 .. n + 1 : d = c \/ d \in 0 .. n
    OBVIOUS
  <2>5. \A d \in 0 .. n \ {b} : far(b) < far(d) \/ (far(b) = far(d) /\ b % 2 = 0)
    BY <2>1
  <2>6. ASSUME far(c) = far(b), c % 2 = 1, b % 2 = 1 PROVE FALSE
    <3>1. n \in 0 .. E4Max /\ n # b /\ b < n /\ n < c
      BY <2>2, <2>6, E4Sizes
    <3>2. E4Codes[b] < E4Codes[n] /\ E4Codes[n] < E4Codes[c]
      BY <2>2, <3>1, E4CodesRise DEF Rising
    <3>3. far(n) < far(b)
      <4> HIDE DEF far
      <4>1. /\ far(n) = Abs(a - E4Codes[n]) /\ far(b) = Abs(a - E4Codes[b]) /\ far(c) = Abs(a - E4Codes[c])
            /\ E4Codes[n] \in Nat /\ E4Codes[b] \in Nat /\ E4Codes[c] \in Nat
        BY <1>3, <2>2, <3>1
      <4> QED BY <2>6, <3>2, <4>1 DEF Abs
    <3>4. far(b) < far(n) \/ far(b) = far(n)
      <4> HIDE DEF far
      <4> QED BY <2>5, <3>1
    <3> HIDE DEF far
    <3> QED BY <1>3, <2>2, <3>1, <3>3, <3>4
  <2>7. \A d \in 0 .. n + 1 : far(d) \in Nat
    <3> HIDE DEF far
    <3>1. \A d \in 0 .. n + 1 : d \in 0 .. E4Max
      BY E4Sizes
    <3> QED BY <1>3, <3>1
  <2>8. CASE far(c) < far(b) \/ (far(c) = far(b) /\ c % 2 = 0 /\ b % 2 = 1)
    <3>1. B[c] = c
      <4> HIDE DEF far
      <4> QED BY <2>3, <2>8
    <3>2. ASSUME NEW d \in 0 .. n + 1, d # c PROVE far(c) < far(d) \/ (far(c) = far(d) /\ c % 2 = 0)
      <4>1. d \in 0 .. n
        BY <2>4, <3>2
      <4> HIDE DEF far
      <4> QED BY <2>2, <2>5, <2>7, <2>8, <4>1
    <3> HIDE DEF far, c
    <3> QED BY <2>2, <3>1, <3>2 DEF c
  <2>9. CASE ~(far(c) < far(b) \/ (far(c) = far(b) /\ c % 2 = 0 /\ b % 2 = 1))
    <3>1. B[c] = b /\ b \in 0 .. n + 1
      <4> HIDE DEF far
      <4> QED BY <2>2, <2>3, <2>9
    <3>2. ASSUME NEW d \in 0 .. n + 1, d # b PROVE far(b) < far(d) \/ (far(b) = far(d) /\ b % 2 = 0)
      <4>1. CASE d \in 0 .. n
        <5> HIDE DEF far
        <5> QED BY <2>5, <3>2, <4>1
      <4>2. CASE d = c
        <5>1. far(b) \in Nat /\ far(c) \in Nat
          <6> HIDE DEF far
          <6> QED BY <2>7, <3>1, <2>2
        <5>2. (c % 2 = 0 \/ c % 2 = 1) /\ (b % 2 = 0 \/ b % 2 = 1)
          BY <2>2
        <5> HIDE DEF far, c, b
        <5> QED BY <2>6, <2>9, <4>2, <5>1, <5>2
      <4> QED BY <2>4, <4>1, <4>2
    <3> HIDE DEF far, c, b
    <3> QED BY <3>1, <3>2 DEF c
  <2> QED BY <2>8, <2>9
<1>6. Nearby(B[E4Max], E4Max)
  <2>1. Nat \subseteq T
    <3> HIDE DEF T
    <3> QED BY <1>4, <1>5, Counting
  <2>2. E4Max \in T
    BY <2>1, E4Sizes
  <2> HIDE DEF Nearby
  <2> QED BY <2>2, E4Sizes
<1>7. CASE a >= E4Codes[E4Max]
  <2>1. E4Codes[E4Max] \in Nat
    BY <1>3, E4Sizes
  <2>2. NearestOf(E4Codes, a) = E4Max
    BY <1>7, <2>1, E4CodesRise, NearestBeyond
  <2> QED BY <1>1, <1>7, <2>2 DEF NearestE4
<1>8. CASE ~(a >= E4Codes[E4Max])
  <2>1. IsNearest(E4Codes, a, B[E4Max]) /\ B[E4Max] \in 0 .. E4Max
    <3>1. DOMAIN E4Codes = 0 .. E4Max
      BY DEF E4Codes
    <3>2. B[E4Max] \in 0 .. E4Max
      BY <1>6
    <3> DEFINE x == B[E4Max]
    <3>3. x \in 0 .. E4Max /\ \A d \in 0 .. E4Max \ {x} : far(x) < far(d) \/ (far(x) = far(d) /\ x % 2 = 0)
      BY <1>6
    <3> HIDE DEF x, far
    <3>4. IsNearest(E4Codes, a, x)
      BY <1>3, <3>1, <3>3 DEF IsNearest
    <3> QED BY <3>2, <3>4 DEF x
  <2>2. NearestOf(E4Codes, a) = B[E4Max]
    BY <2>1, E4CodesRise, NearestIs
  <2> QED BY <1>1, <1>8, <2>2 DEF NearestE4
<1> QED BY <1>7, <1>8

-----------------------------------------------------------------------------
(* Dot products. *)

(* A finite sum of integers is an integer. *)
LEMMA SumType == ASSUME NEW f, IsFiniteSet(DOMAIN f), \A k \in DOMAIN f : f[k] \in Int
                 PROVE  SumFunction(f) \in Int
<1> DEFINE D == DOMAIN f
           pick(s) == CHOOSE x \in s : TRUE
           plus(x, v) == f[x] + v
           Is(g, S) == g = [s \in S |-> IF s = {} THEN 0 ELSE plus(pick(s), g[s \ {pick(s)}])]
           upto(n) == {s \in SUBSET D : Cardinality(s) <= n}
           T == {n \in Nat : \E g : Is(g, upto(n))}
<1>1. SumFunction(f) = (CHOOSE g : Is(g, SUBSET D))[D]
  BY DEF SumFunction, SumFunctionOnSet, FoldFunctionOnSet, MapThenFoldSet
<1>2. \A s \in SUBSET D : IsFiniteSet(s) /\ Cardinality(s) \in Nat
  BY FS_Subset, FS_CardinalityType
<1>3. ASSUME NEW s \in SUBSET D, s # {}
      PROVE  pick(s) \in s /\ s \ {pick(s)} \in SUBSET D /\ Cardinality(s \ {pick(s)}) = Cardinality(s) - 1
  <2>1. pick(s) \in s
    BY <1>3
  <2> HIDE DEF pick
  <2> QED BY <1>2, <2>1, FS_RemoveElement
<1>4. \A s \in SUBSET D : Cardinality(s) <= 0 => s = {}
  BY <1>2, FS_EmptySet
<1> HIDE DEF pick, plus
<1>5. 0 \in T
  <2>1. Is([s \in upto(0) |-> 0], upto(0))
    BY <1>4
  <2> QED BY <2>1
<1>6. ASSUME NEW n \in Nat, n \in T PROVE n + 1 \in T
  <2>1. PICK g : Is(g, upto(n))
    BY <1>6
  <2> DEFINE h == [s \in upto(n + 1) |-> IF s = {} THEN 0 ELSE plus(pick(s), g[s \ {pick(s)}])]
  <2>2. ASSUME NEW s \in upto(n + 1), s # {} PROVE h[s \ {pick(s)}] = g[s \ {pick(s)}]
    <3> DEFINE r == s \ {pick(s)}
    <3>1. r \in upto(n)
      BY <1>2, <1>3, <2>2
    <3>2. r \in upto(n + 1)
      BY <1>2, <3>1
    <3>3. g[r] = IF r = {} THEN 0 ELSE plus(pick(r), g[r \ {pick(r)}])
      <4> HIDE DEF r, upto
      <4> QED BY <2>1, <3>1
    <3>4. h[r] = IF r = {} THEN 0 ELSE plus(pick(r), g[r \ {pick(r)}])
      <4> HIDE DEF r, upto
      <4> QED BY <3>2
    <3> QED BY <3>3, <3>4
  <2>3. h = [s \in upto(n + 1) |-> IF s = {} THEN 0 ELSE plus(pick(s), h[s \ {pick(s)}])]
    <3> HIDE DEF upto
    <3>1. \A s \in upto(n + 1) : h[s] = IF s = {} THEN 0 ELSE plus(pick(s), h[s \ {pick(s)}])
      BY <2>2
    <3>2. h = [s \in upto(n + 1) |-> h[s]]
      OBVIOUS
    <3> HIDE DEF h
    <3> QED BY <3>1, <3>2
  <2> HIDE DEF h
  <2>4. Is(h, upto(n + 1))
    BY <2>3
  <2> HIDE DEF Is, upto
  <2> QED BY <2>4
<1>7. Nat \subseteq T
  <2> HIDE DEF T
  <2> QED BY <1>5, <1>6, Counting
<1> DEFINE I == CHOOSE g : Is(g, SUBSET D)
<1>8. Is(I, SUBSET D)
  <2>1. Cardinality(D) \in Nat
    BY <1>2
  <2>2. upto(Cardinality(D)) = SUBSET D
    BY FS_Subset
  <2>3. \E g : Is(g, SUBSET D)
    <3>1. Cardinality(D) \in T
      BY <1>7, <2>1
    <3>2. \E g : Is(g, upto(Cardinality(D)))
      BY <3>1
    <3> QED BY <2>2, <3>2
  <2> HIDE DEF Is
  <2> QED BY <2>3
<1> DEFINE U == {n \in Nat : \A s \in SUBSET D : Cardinality(s) = n => I[s] \in Int}
<1>9. 0 \in U
  <2>1. ASSUME NEW s \in SUBSET D, Cardinality(s) = 0 PROVE I[s] \in Int
    <3>1. s = {}
      BY <1>4, <2>1
    <3> HIDE DEF I
    <3> QED BY <1>8, <3>1
  <2> QED BY <2>1
<1>10. ASSUME NEW n \in Nat, n \in U PROVE n + 1 \in U
  <2>1. ASSUME NEW s \in SUBSET D, Cardinality(s) = n + 1 PROVE I[s] \in Int
    <3>1. s # {}
      <4>1. Cardinality({}) = 0
        BY FS_EmptySet
      <4> QED BY <2>1, <4>1
    <3> DEFINE r == s \ {pick(s)}
    <3>2. pick(s) \in D /\ r \in SUBSET D /\ Cardinality(r) = n
      BY <1>3, <2>1, <3>1
    <3>3. I[r] \in Int
      BY <1>10, <3>2
    <3>4. I[s] = plus(pick(s), I[r])
      <4> HIDE DEF I, r
      <4> QED BY <1>8, <3>1 DEF r
    <3> QED BY <3>2, <3>3, <3>4 DEF plus
  <2> HIDE DEF I
  <2> QED BY <2>1
<1>11. Nat \subseteq U
  <2> HIDE DEF U
  <2> QED BY <1>9, <1>10, Counting
<1> QED
  <2>1. Cardinality(D) \in U
    BY <1>2, <1>11
  <2> QED BY <1>1, <2>1


(* A finite set of integers has a largest one. *)
LEMMA MaxType == ASSUME NEW S \in SUBSET Int, IsFiniteSet(S), S # {}
                 PROVE  Max(S) \in S /\ \A m \in S : m <= Max(S)
<1>1. \E n \in S : \A m \in S : m <= n
  <2>1. CASE S \cap Nat # {}
    <3>1. IsFiniteSet(S \cap Nat)
      BY FS_Subset
    <3>2. PICK n \in S \cap Nat : \A m \in S \cap Nat : m <= n
      BY <2>1, <3>1, Greatest
    <3>3. \A m \in S : m \in Nat \/ m < n
      BY <3>2
    <3> QED BY <3>2, <3>3
  <2>2. CASE S \cap Nat = {}
    <3> DEFINE N == {-m : m \in S}
    <3>1. N \subseteq Nat /\ N # {}
      <4>1. \A m \in S : m \in Int /\ m \notin Nat
        BY <2>2
      <4>2. \A m \in S : -m \in Nat
        BY <4>1
      <4> QED BY <4>2
    <3>2. PICK n \in N : \A m \in N : n <= m
      <4> HIDE DEF N
      <4> QED BY <3>1, Least
    <3>3. PICK b \in S : n = -b
      BY <3>2
    <3>4. \A m \in S : n <= -m
      BY <3>2
    <3> QED BY <3>3, <3>4
  <2> QED BY <2>1, <2>2
<1> QED BY <1>1 DEF Max

(* What a function takes on a finite set is finite. *)
LEMMA ImageFinite == ASSUME NEW S, IsFiniteSet(S), NEW f, DOMAIN f = S
                     PROVE  IsFiniteSet({f[x] : x \in S})
<1> DEFINE g == [x \in S |-> f[x]]
<1>1. g \in Surjection(S, {f[x] : x \in S})
  BY DEF Surjection
<1> QED BY <1>1, FS_Surjection

(* What the helpers of a dot product return. *)
LEMMA NumberFacts ==
  /\ \A a \in Nat : a > 0 => Log2(a) \in Nat
  /\ \A n \in Int : Abs(n) \in Nat /\ (n # 0 => Abs(n) > 0)
  /\ \A x \in Signeds : Factor(x) \in Int /\ Signed(x, HalfUnits(x.code)) \in Int
<1>1. \A a \in Nat : a > 0 => Log2(a) \in Nat
  BY Log2Fact
<1>2. \A n \in Int : Abs(n) \in Nat /\ (n # 0 => Abs(n) > 0)
  BY DEF Abs
<1>3. ASSUME NEW x \in Signeds PROVE Factor(x) \in Int /\ Signed(x, HalfUnits(x.code)) \in Int
  <2>1. x.code \in Nat /\ x.neg \in BOOLEAN
    BY DEF Signeds
  <2>2. E4Units(x.code) \in Nat /\ HalfUnits(x.code) \in Nat
    BY <2>1, SizesFact, E4Sizes, UnitsStep DEF E4Units, HalfUnits
  <2> QED BY <2>1, <2>2 DEF Factor, Signed
<1> QED BY <1>1, <1>2, <1>3

(* So does the field of a factor. *)
LEMMA FieldType == \A u \in Int : u # 0 => Field(u) \in Int
<1> SUFFICES ASSUME NEW u \in Int, u # 0 PROVE Field(u) \in Int
  OBVIOUS
<1>1. Log2(Abs(u)) \in Int /\ E4Mant \in Int /\ E4Frac \in Int
  BY NumberFacts, FloatAssumption
<1> QED BY <1>1, MaxOfTwo DEF Field

(* So does a term that is cut. *)
LEMMA PlaceType == \A u \in Int, sh \in Nat : Place(u, sh) \in Int
<1> SUFFICES ASSUME NEW u \in Int, NEW sh \in Nat PROVE Place(u, sh) \in Int
  OBVIOUS
<1>1. PICK p \in Nat : p = Pow2[sh] /\ p > 0
  BY Pow2Type
<1>2. PICK m \in Nat : m = Abs(u)
  BY NumberFacts
<1>3. m \div p \in Nat
  BY <1>1
<1>4. (m \div p) * p \in Nat
  BY <1>1, <1>3
<1> QED BY <1>1, <1>2, <1>4 DEF Place

(* The terms of a dot product. *)
LEMMA TermsType == ASSUME NEW d \in Dots
                   PROVE  /\ IsFiniteSet(DOMAIN d.a) /\ DOMAIN Terms(d) = DOMAIN d.a
                          /\ \A k \in DOMAIN d.a : /\ Terms(d)[k] \in Int
                                                   /\ Factor(d.a[k]) \in Int /\ Factor(d.b[k]) \in Int
                                                   /\ Terms(d)[k] # 0 => Factor(d.a[k]) # 0 /\ Factor(d.b[k]) # 0
                          /\ Seed(d) \in Int /\ d.sm120 \in BOOLEAN
<1>1. d.a \in Seq(Signeds) /\ d.b \in Seq(Signeds) /\ d.seed \in Signeds /\ Len(d.a) = Len(d.b) /\ d.sm120 \in BOOLEAN
  BY DEF Dots
<1>2. DOMAIN d.a = 1 .. Len(d.a) /\ Len(d.a) \in Nat /\ DOMAIN d.b = DOMAIN d.a
  BY <1>1
<1>3. IsFiniteSet(DOMAIN d.a)
  BY <1>2, FS_Interval
<1>4. Pow2[HalfFrac - 2 * E4Frac] \in Nat
  <2>1. HalfFrac - 2 * E4Frac \in Nat
    BY FloatAssumption
  <2> QED BY <2>1, Pow2Type
<1>5. ASSUME NEW k \in DOMAIN d.a
      PROVE  /\ Terms(d)[k] \in Int /\ Factor(d.a[k]) \in Int /\ Factor(d.b[k]) \in Int
             /\ Terms(d)[k] # 0 => Factor(d.a[k]) # 0 /\ Factor(d.b[k]) # 0
  <2>1. d.a[k] \in Signeds /\ d.b[k] \in Signeds
    BY <1>1, <1>2
  <2>2. PICK x \in Int : x = Factor(d.a[k])
    BY <2>1, NumberFacts
  <2>3. PICK y \in Int : y = Factor(d.b[k])
    BY <2>1, NumberFacts
  <2>4. PICK s \in Nat : s = Pow2[HalfFrac - 2 * E4Frac]
    BY <1>4
  <2>5. Terms(d)[k] = x * y * s
    BY <2>2, <2>3, <2>4 DEF Terms
  <2>6. x * y * s \in Int
    OBVIOUS
  <2>7. x = 0 => x * y * s = 0
    OBVIOUS
  <2>8. y = 0 => x * y * s = 0
    OBVIOUS
  <2> QED BY <2>2, <2>3, <2>5, <2>6, <2>7, <2>8
<1>6. Seed(d) \in Int
  BY <1>1, NumberFacts DEF Seed
<1> QED BY <1>1, <1>3, <1>5, <1>6 DEF Terms

(* How many bits qmma_dot cuts off is a number, for every dot product. *)
LEMMA CutType == \A d \in Dots : Cut(d) \in Nat
<1> SUFFICES ASSUME NEW d \in Dots PROVE Cut(d) \in Nat
  OBVIOUS
<1> DEFINE D == DOMAIN d.a
           N == {j \in D : Terms(d)[j] # 0}
<1>1. IsFiniteSet(N) /\ IsFiniteSet(D)
  BY TermsType, FS_Subset
<1>2. Seed(d) # 0 => Log2(Abs(Seed(d))) - HalfFrac \in Int
  BY TermsType, NumberFacts, FloatAssumption
<1>3. Exponents(d) \in SUBSET Int /\ IsFiniteSet(Exponents(d))
  <2> DEFINE f == [k \in N |-> Field(Factor(d.a[k])) + Field(Factor(d.b[k]))]
             E == {f[k] : k \in N}
             S == IF Seed(d) = 0 THEN {} ELSE {Log2(Abs(Seed(d))) - HalfFrac}
  <2>1. \A k \in N : f[k] \in Int
    BY TermsType, FieldType
  <2>2. IsFiniteSet(E)
    <3>1. DOMAIN f = N
      OBVIOUS
    <3> HIDE DEF f, N
    <3> QED BY <1>1, <3>1, ImageFinite
  <2>3. Exponents(d) = E \cup S
    BY DEF Exponents
  <2>4. S \subseteq Int
    BY <1>2
  <2>5. E \subseteq Int
    <3> HIDE DEF f
    <3> QED BY <2>1
  <2>6. IsFiniteSet(E \cup S)
    <3> HIDE DEF E
    <3>1. CASE Seed(d) = 0
      BY <2>2, <3>1
    <3>2. CASE Seed(d) # 0
      BY <2>2, <3>2, FS_AddElement
    <3> QED BY <3>1, <3>2
  <2> HIDE DEF E, S
  <2> QED BY <2>3, <2>4, <2>5, <2>6
<1>4. CASE Exponents(d) = {}
  BY <1>4 DEF Cut
<1>5. CASE Exponents(d) # {} /\ d.sm120
  <2>1. Max(Exponents(d)) \in Int
    BY <1>3, <1>5, MaxType
  <2>2. Max(Exponents(d)) + HalfFrac - AccBits \in Int /\ 0 \in Int
    BY <2>1, FloatAssumption
  <2>3. Max({Max(Exponents(d)) + HalfFrac - AccBits, 0}) \in Nat
    BY <2>2, MaxOfTwo
  <2> QED BY <1>5, <2>3 DEF Cut
<1>6. CASE Exponents(d) # {} /\ ~d.sm120
  <2> DEFINE M == Mags(d) \cup {Abs(Seed(d))}
             g == [k \in D |-> Abs(Terms(d)[k])]
  <2>1. \A k \in D : g[k] \in Nat
    BY TermsType, NumberFacts
  <2>2. M \in SUBSET Int
    BY TermsType, NumberFacts DEF Mags
  <2>3. IsFiniteSet(M)
    <3>1. DOMAIN g = D
      OBVIOUS
    <3>2. IsFiniteSet({g[k] : k \in D})
      <4> HIDE DEF g, D
      <4> QED BY <1>1, <3>1, ImageFinite
    <3>3. Mags(d) \in SUBSET {g[k] : k \in D}
      BY DEF Mags
    <3>4. IsFiniteSet(Mags(d))
      <4> HIDE DEF g, D
      <4> QED BY <3>2, <3>3, FS_Subset
    <3> QED BY <3>4, FS_AddElement
  <2>4. \E m \in M : m > 0
    <3>1. CASE Seed(d) # 0
      BY <3>1, TermsType, NumberFacts
    <3>2. CASE Seed(d) = 0
      <4>1. PICK k \in D : Terms(d)[k] # 0
        BY <1>6, <3>2 DEF Exponents
      <4>2. Abs(Terms(d)[k]) > 0 /\ Abs(Terms(d)[k]) # 0
        BY <4>1, TermsType, NumberFacts
      <4> QED BY <4>2 DEF Mags
    <3> QED BY <3>1, <3>2
  <2>5. Largest(d) \in Nat /\ Largest(d) > 0
    <3>1. Max(M) \in M /\ \A m \in M : m <= Max(M)
      <4> HIDE DEF M
      <4> QED BY <2>2, <2>3, <2>4, MaxType
    <3>2. Largest(d) = Max(M)
      BY DEF Largest
    <3> HIDE DEF M
    <3>3. PICK m \in M : m > 0
      BY <2>4
    <3>4. Max(M) \in Int /\ m \in Int /\ m <= Max(M)
      BY <2>2, <3>1
    <3> QED BY <3>2, <3>3, <3>4
  <2>6. Log2(Largest(d)) - AccBits - 1 \in Int /\ 0 \in Int
    BY <2>5, NumberFacts, FloatAssumption
  <2>7. Max({Log2(Largest(d)) - AccBits - 1, 0}) \in Nat
    BY <2>6, MaxOfTwo
  <2> QED BY <1>6, <2>7 DEF Cut
<1> QED BY <1>4, <1>5, <1>6, TermsType

(* A dot product is a number of units. *)
LEMMA DotUnitsType == \A d \in Dots : DotUnits(d) \in Int
<1> SUFFICES ASSUME NEW d \in Dots PROVE DotUnits(d) \in Int
  OBVIOUS
<1> DEFINE f == [k \in DOMAIN d.a |-> Place(Terms(d)[k], Cut(d))]
<1>1. DOMAIN f = DOMAIN d.a /\ \A k \in DOMAIN d.a : f[k] \in Int
  BY CutType, TermsType, PlaceType
<1>2. SumFunction(f) \in Int
  <2> HIDE DEF f
  <2> QED BY <1>1, TermsType, SumType
<1>3. Place(Seed(d), Cut(d)) \in Int
  BY CutType, TermsType, PlaceType
<1> QED BY <1>2, <1>3 DEF DotUnits

(* Every dot product is published as the half nearest to what it kept, and *)
(* h_add rounds its sum to nearest. *)
LEMMA DotNearest == \A d \in Dots : Dot(d) = RefDot(d)
<1> SUFFICES ASSUME NEW d \in Dots PROVE Dot(d) = RefDot(d)
  OBVIOUS
<1>1. Abs(DotUnits(d)) \in Nat
  BY DotUnitsType, NumberFacts
<1>2. HalfRound(Abs(DotUnits(d))) = Nearest(Abs(DotUnits(d))) /\ Publish(Abs(DotUnits(d))) = Nearest(Abs(DotUnits(d)))
  BY <1>1, HalfRoundNearest, PublishNearest
<1> QED BY <1>2 DEF Dot, RefDot, Number

(* h_add rounds to nearest. *)
LEMMA AddNearest == \A h, g \in Signeds : HalfAdd(h, g) = RefAdd(h, g)
<1> SUFFICES ASSUME NEW h \in Signeds, NEW g \in Signeds PROVE HalfAdd(h, g) = RefAdd(h, g)
  OBVIOUS
<1> DEFINE u == Signed(h, HalfUnits(h.code)) + Signed(g, HalfUnits(g.code))
<1>1. u \in Int
  BY NumberFacts
<1>2. HalfRound(Abs(u)) = Nearest(Abs(u))
  <2>1. Abs(u) \in Nat
    <3> HIDE DEF u
    <3> QED BY <1>1, NumberFacts
  <2> HIDE DEF u
  <2> QED BY <2>1, HalfRoundNearest
<1> QED BY <1>2 DEF HalfAdd, RefAdd

(* Both are halves. *)
LEMMA HalfType == /\ \A a \in Nat : Nearest(a) \in 0 .. Inf
                  /\ \A d \in Dots : Dot(d) \in Signeds
                  /\ \A h, g \in Signeds : HalfAdd(h, g) \in Signeds
<1>1. ASSUME NEW a \in Nat PROVE Nearest(a) \in 0 .. Inf
  <2>1. Rising(Halves, Inf) /\ DOMAIN Halves = 0 .. Inf /\ Halves[0] \in Nat
    BY HalvesRise DEF Rising
  <2>2. CASE a >= HalfUnits(Inf)
    BY <2>2, NearestHigh, SizesFact
  <2>3. CASE ~(a >= HalfUnits(Inf))
    <3>1. CASE a \in 0 .. Mant
      <4>1. Top * Mant \in Nat
        BY SizesFact
      <4> QED BY <3>1, <4>1, NearestLow, SizesFact
    <3>2. CASE a >= Mant
      <4> DEFINE T == {c \in 0 .. Inf : a < Halves[c]}
      <4>1. T \subseteq Nat /\ Inf \in T
        <5>1. Halves[Inf] = HalfUnits(Inf) /\ Halves[Inf] \in Nat /\ Inf \in 0 .. Inf
          BY SizesFact, <2>1 DEF Halves, Rising
        <5> QED BY <2>3, <5>1
      <4>2. PICK c \in T : \A m \in T : c <= m
        <5> HIDE DEF T
        <5> QED BY <4>1, Least
      <4>3. c # 0
        <5>1. Halves[0] = 0
          <6>1. HalfUnits(0) = 0
            <7>1. 0 \in 0 .. 2 * Pow2[MantBits]
              BY SizesFact DEF Mant
            <7> QED BY <7>1, UnitsLow, SizesFact DEF HalfUnits
          <6> QED BY <6>1, SizesFact DEF Halves
        <5> QED BY <5>1
      <4>4. c - 1 \in 0 .. Inf /\ c - 1 \in 0 .. Inf - 1 /\ c - 1 \notin T
        BY <4>2, <4>3, SizesFact
      <4>5. Halves[c - 1] <= a /\ a <= Halves[(c - 1) + 1]
        <5>1. Halves[c - 1] \in Nat /\ Halves[c] \in Nat /\ (c - 1) + 1 = c
          BY <4>4, <2>1 DEF Rising
        <5> QED BY <4>4, <5>1
      <4>6. NearestOf(Halves, a) \in {c - 1, (c - 1) + 1}
        BY <2>1, <4>4, <4>5, NearestBetween
      <4> QED BY <4>4, <4>6 DEF Nearest
    <3> QED BY <3>1, <3>2, SizesFact
  <2> QED BY <2>2, <2>3
<1>2. ASSUME NEW d \in Dots PROVE Dot(d) \in Signeds
  <2>1. Nearest(Abs(DotUnits(d))) \in Nat
    <3>1. Abs(DotUnits(d)) \in Nat
      BY DotUnitsType, NumberFacts
    <3> QED BY <1>1, <3>1
  <2>2. (DotUnits(d) < 0) \in BOOLEAN
    BY DotUnitsType
  <2>3. Dot(d) = [neg |-> DotUnits(d) < 0, code |-> Nearest(Abs(DotUnits(d)))]
    BY DotNearest DEF RefDot, Number
  <2>4. \A n \in BOOLEAN, c \in Nat : [neg |-> n, code |-> c] \in Signeds
    BY DEF Signeds
  <2> QED BY <2>1, <2>2, <2>3, <2>4, Zenon
<1>3. ASSUME NEW h \in Signeds, NEW g \in Signeds PROVE HalfAdd(h, g) \in Signeds
  <2> DEFINE u == Signed(h, HalfUnits(h.code)) + Signed(g, HalfUnits(g.code))
  <2>1. u \in Int /\ h.neg \in BOOLEAN /\ g.neg \in BOOLEAN
    BY NumberFacts DEF Signeds
  <2>2. Nearest(Abs(u)) \in Nat
    <3>1. Abs(u) \in Nat
      <4> HIDE DEF u
      <4> QED BY <2>1, NumberFacts
    <3> HIDE DEF u
    <3> QED BY <1>1, <3>1
  <2>3. RefAdd(h, g) = [neg |-> IF u = 0 THEN h.neg /\ g.neg ELSE u < 0, code |-> Nearest(Abs(u))]
    BY DEF RefAdd
  <2>4. (IF u = 0 THEN h.neg /\ g.neg ELSE u < 0) \in BOOLEAN
    <3>1. (h.neg /\ g.neg) \in BOOLEAN
      OBVIOUS
    <3>2. (u < 0) \in BOOLEAN
      <4> HIDE DEF u
      <4> QED BY <2>1
    <3> HIDE DEF u
    <3> QED BY <3>1, <3>2
  <2> HIDE DEF u
  <2> QED BY <2>2, <2>3, <2>4, AddNearest DEF Signeds
<1> QED BY <1>1, <1>2, <1>3

-----------------------------------------------------------------------------
(* The geometry of ffn_contract. *)

(* The bands of a launch are those that begin before its tokens end. *)
LEMMA BandsFact == ASSUME NEW t \in Nat
                   PROVE  /\ Bands(t) \in Nat
                          /\ \A b \in Nat : b < Bands(t) <=> 2 * Rows * b < t
<1>1. PICK m \in Nat : m = 2 * Rows /\ m > 0
  BY RowsAssumption
<1>2. PICK n \in Nat, r \in Nat : r < m /\ n = Bands(t) /\ t + m - 1 = n * m + r
  <2>1. PICK a \in Nat : a = t + m - 1
    BY <1>1
  <2>2. a \div m \in Nat /\ a % m \in Nat /\ a % m < m /\ a = (a \div m) * m + (a % m)
    BY <1>1, Divided
  <2>3. Bands(t) = (t + m - 1) \div m
    BY <1>1 DEF Bands
  <2> QED BY <2>1, <2>2, <2>3
<1>3. ASSUME NEW b \in Nat PROVE b < n <=> b * m < t
  <2>1. PICK x \in Nat : x = b * m
    BY <1>1
  <2>2. PICK y \in Nat : y = n * m
    OBVIOUS
  <2>3. b < n => x + m <= y
    BY <2>1, <2>2, Rises
  <2>4. n < b => y + m <= x
    BY <2>1, <2>2, Rises
  <2>5. n = b => y = x
    BY <2>1, <2>2
  <2> QED BY <1>1, <1>2, <2>1, <2>2, <2>3, <2>4, <2>5
<1>4. ASSUME NEW b \in Nat PROVE 2 * Rows * b = b * m
  BY <1>1, RowsAssumption
<1> QED BY <1>2, <1>3, <1>4

Warps(t, p, c)    == IF Masked(t, c, 1) THEN p ELSE 2 * p
CellOf(t, g, p, c, i) == Address(t, g, p, c, (i - 1) \div Rows, (i - 1) % Rows)

(* A launch whose tokens fill their halves; its sites; and the parts of a  *)
(* site: a band and a group of columns, a half, one of the pairs, a row.   *)
Grid(t, g, p)         == t \in Nat /\ g \in Nat /\ p \in Nat /\ g > 0 /\ p > 0 /\ t % Rows = 0
AtSite(t, g, p, c, i) == c \in Upto(g * Bands(t)) /\ i \in 1 .. Warps(t, p, c) * Rows
Made(t, g, p, b, j, h, q, row, c, i) ==
  /\ b \in Nat /\ j \in Nat /\ h \in {0, 1} /\ q \in Nat /\ row \in Nat
  /\ j < g /\ q < p /\ row < Rows /\ (b * 2 + h) * Rows < t
  /\ c = j * Bands(t) + b /\ i = (h * p + q) * Rows + row + 1
Column(g, p, b, j, h, q, row) == (((b * 2 + h) * Rows + row) * g + j) * p + q

(* The cell of a site from the parts of its place. *)
LEMMA SiteMade ==
  ASSUME NEW t, NEW g, NEW p, NEW b, NEW j, NEW h, NEW q, NEW row, NEW cc, NEW ii,
         Grid(t, g, p), Made(t, g, p, b, j, h, q, row, cc, ii)
  PROVE  /\ AtSite(t, g, p, cc, ii)
         /\ CellOf(t, g, p, cc, ii) = Column(g, p, b, j, h, q, row)
         /\ CellOf(t, g, p, cc, ii) \in Upto(t * g * p)
<1>a. /\ t \in Nat /\ g \in Nat /\ p \in Nat /\ g > 0 /\ p > 0 /\ t % Rows = 0
      /\ b \in Nat /\ j \in Nat /\ h \in {0, 1} /\ q \in Nat /\ row \in Nat
  BY DEF Grid, Made
<1> USE <1>a
<1>0. /\ Rows \in Nat /\ Rows > 0 /\ j < g /\ q < p /\ row < Rows /\ (b * 2 + h) * Rows < t
      /\ cc = j * Bands(t) + b /\ ii = (h * p + q) * Rows + row + 1
  BY RowsAssumption DEF Made
<1>1. PICK n \in Nat : n = Bands(t)
  BY BandsFact
<1>2. PICK x \in Nat : x = b * Rows
  BY <1>0
<1>3. 2 * Rows * b = 2 * x /\ (b * 2 + h) * Rows = 2 * x + h * Rows /\ h * Rows \in Nat
  BY <1>0, <1>2
<1>4. b < n
  BY <1>0, <1>1, <1>2, <1>3, BandsFact
<1> DEFINE c == j * n + b
           y == h * p + q
           i == y * Rows + row + 1
<1>5. c \in Nat /\ c \div n = j /\ c % n = b
  <2>1. j * n + b \in Nat /\ (j * n + b) \div n = j /\ (j * n + b) % n = b
    <3> HIDE DEF c
    <3>1. PICK u \in Nat : u = j * n
      OBVIOUS
    <3>2. u + b \in Nat
      BY <3>1
    <3> QED BY <1>4, <3>1, <3>2, Remade
  <2> QED BY <2>1
<1>6. c \in Upto(g * n)
  <2>1. PICK u \in Nat : u = j * n
    OBVIOUS
  <2>2. PICK v \in Nat : v = g * n
    OBVIOUS
  <2>3. u + n <= v
    BY <1>0, <2>1, <2>2, Rises
  <2> QED BY <1>4, <2>1, <2>2, <2>3 DEF Upto
<1>7. Band(t, c) = b /\ Group(t, c) = j
  BY <1>1, <1>5 DEF Band, Group
<1>8. y \in Nat /\ y \div p = h /\ y % p = q
  <2>1. h * p \in Nat /\ h \in Nat
    OBVIOUS
  <2> QED BY <1>0, <2>1, Remade
<1>9. i - 1 \in Nat /\ (i - 1) \div Rows = y /\ (i - 1) % Rows = row
  <2>1. PICK u \in Nat : u = y * Rows
    BY <1>0, <1>8
  <2>2. i - 1 = u + row
    BY <2>1
  <2>3. (y * Rows + row) \div Rows = y /\ (y * Rows + row) % Rows = row
    <3> HIDE DEF y
    <3> QED BY <1>0, <1>8, Remade
  <2> HIDE DEF y, i
  <2> QED BY <2>1, <2>2, <2>3
<1> HIDE DEF c
<1>10. Live(t, c, h)
  <2>1. Rows * h = h * Rows
    BY <1>0
  <2> QED BY <1>0, <1>3, <1>7, <2>1 DEF Live
<1>11. y < Warps(t, p, c) /\ Warps(t, p, c) \in Nat
  <2>1. CASE h = 0
    BY <1>0, <2>1 DEF Warps
  <2>2. CASE h = 1
    <3>1. ~Masked(t, c, 1)
      BY <1>0, <1>2, <1>3, <1>7, <2>2 DEF Masked
    <3> QED BY <1>0, <2>2, <3>1 DEF Warps
  <2> QED BY <2>1, <2>2
<1>12. i \in 1 .. Warps(t, p, c) * Rows
  <2> HIDE DEF y
  <2>1. PICK u \in Nat : u = y * Rows
    BY <1>0, <1>8
  <2>2. PICK v \in Nat : v = Warps(t, p, c) * Rows
    BY <1>0, <1>11
  <2>3. u + Rows <= v
    BY <1>0, <1>8, <1>11, <2>1, <2>2, Rises
  <2> QED BY <1>0, <2>1, <2>2, <2>3
<1>13. CellOf(t, g, p, c, i) = (((b * 2 + h) * Rows + row) * g + j) * p + q
  <2> HIDE DEF y, i
  <2>1. Half(y, p) = h
    BY <1>8 DEF Half
  <2> QED BY <1>7, <1>8, <1>9, <1>10, <2>1 DEF CellOf, Address
<1>14. CellOf(t, g, p, c, i) \in Upto(t * g * p)
  <2>1. PICK d \in Nat : t = d * Rows
    <3>1. t \div Rows \in Nat /\ t = (t \div Rows) * Rows + (t % Rows)
      BY <1>0, Divided
    <3>2. (t \div Rows) * Rows \in Nat
      BY <1>0, <3>1
    <3> QED BY <3>1, <3>2
  <2>2. PICK e \in Nat : e = b * 2 + h
    OBVIOUS
  <2>3. PICK u \in Nat : u = e * Rows
    BY <1>0
  <2>4. u + Rows <= t
    <3>1. e < d
      <4>1. e = d => u = t
        BY <2>1, <2>3
      <4>2. d < e => t + Rows <= u
        BY <1>0, <2>1, <2>3, Rises
      <4> QED BY <1>0, <2>2, <2>3, <4>1, <4>2
    <3> QED BY <1>0, <2>1, <2>3, <3>1, Rises
  <2>5. PICK r \in Nat : r = (b * 2 + h) * Rows + row /\ r < t
    BY <1>0, <2>2, <2>3, <2>4
  <2>6. PICK a \in Nat : a = r * g + j /\ a < t * g
    <3>1. PICK v \in Nat : v = r * g
      OBVIOUS
    <3>2. PICK z \in Nat : z = t * g
      OBVIOUS
    <3>3. v + g <= z
      BY <1>0, <2>5, <3>1, <3>2, Rises
    <3> QED BY <1>0, <3>1, <3>2, <3>3
  <2>7. PICK f \in Nat : f = t * g
    OBVIOUS
  <2>8. PICK v \in Nat : v = a * p
    OBVIOUS
  <2>9. PICK z \in Nat : z = f * p
    OBVIOUS
  <2>10. v + p <= z
    BY <2>6, <2>7, <2>8, <2>9, Rises
  <2>11. CellOf(t, g, p, c, i) = v + q
    BY <1>13, <2>5, <2>6, <2>8
  <2>12. t * g * p = z
    BY <2>7, <2>9
  <2> QED BY <1>0, <2>8, <2>9, <2>10, <2>11, <2>12 DEF Upto
<1>15. cc = c /\ ii = i
  BY <1>0, <1>1 DEF c
<1> QED BY <1>1, <1>6, <1>12, <1>13, <1>14, <1>15 DEF Column, AtSite

(* Every site is made of such parts. *)
LEMMA SiteParts ==
  ASSUME NEW t, NEW g, NEW p, NEW c, NEW i, Grid(t, g, p), AtSite(t, g, p, c, i)
  PROVE  \E b, j, h, q, row : Made(t, g, p, b, j, h, q, row, c, i)
<1>a. /\ t \in Nat /\ g \in Nat /\ p \in Nat /\ g > 0 /\ p > 0
      /\ c \in Upto(g * Bands(t)) /\ i \in 1 .. Warps(t, p, c) * Rows
  BY DEF Grid, AtSite
<1> USE <1>a
<1>0. Rows \in Nat /\ Rows > 0
  BY RowsAssumption
<1>1. PICK n \in Nat : n = Bands(t)
  BY BandsFact
<1>2. c \in Nat /\ c < g * n /\ n > 0
  <2>1. c \in Nat /\ c < g * n
    <3>1. g * n \in Nat
      OBVIOUS
    <3> QED BY <1>1, <3>1 DEF Upto
  <2>2. n = 0 => g * n = 0
    OBVIOUS
  <2> QED BY <2>1, <2>2
<1>3. PICK j \in Nat, b \in Nat : b < n /\ c = j * n + b /\ c \div n = j /\ c % n = b
  <2>1. c \div n \in Nat /\ c % n \in Nat /\ c % n < n /\ c = (c \div n) * n + (c % n)
    BY <1>2, Divided
  <2> QED BY <2>1
<1>4. j < g
  BY <1>2, <1>3, Below
<1>5. Band(t, c) = b
  BY <1>1, <1>3 DEF Band
<1>6. PICK wide \in Nat : wide = Warps(t, p, c)
  BY DEF Warps
<1>7. i - 1 \in Nat /\ i - 1 < wide * Rows
  <2>1. wide * Rows \in Nat
    BY <1>0
  <2> QED BY <1>6, <2>1
<1>8. PICK y \in Nat, row \in Nat : row < Rows /\ i - 1 = y * Rows + row /\ (i - 1) \div Rows = y
  <2>1. (i - 1) \div Rows \in Nat /\ (i - 1) % Rows \in Nat /\ (i - 1) % Rows < Rows
        /\ i - 1 = ((i - 1) \div Rows) * Rows + ((i - 1) % Rows)
    BY <1>0, <1>7, Divided
  <2> QED BY <2>1
<1>9. y < wide
  BY <1>0, <1>7, <1>8, Below
<1>10. PICK x \in Nat : x = b * Rows
  BY <1>0
<1>11. 2 * Rows * b = 2 * x /\ 2 * x < t
  <2>1. 2 * Rows * b = 2 * x
    BY <1>0, <1>10
  <2> QED BY <1>1, <1>3, <2>1, BandsFact
<1>12. \E h \in {0, 1} : \E q \in Nat : q < p /\ y = h * p + q /\ 2 * x + h * Rows < t
  <2>1. CASE y < p
    <3>1. y = 0 * p + y /\ 2 * x + 0 * Rows < t
      BY <1>0, <1>11
    <3> QED BY <2>1, <3>1
  <2>2. CASE y >= p
    <3>1. ~Masked(t, c, 1) /\ wide = 2 * p
      BY <1>6, <1>9, <2>2 DEF Warps
    <3>2. 2 * x + Rows < t
      BY <1>0, <1>5, <1>11, <3>1 DEF Masked
    <3>3. y - p \in Nat /\ y - p < p /\ y = 1 * p + (y - p) /\ 2 * x + 1 * Rows < t
      BY <1>0, <1>9, <2>2, <3>1, <3>2
    <3> QED BY <3>3
  <2> QED BY <2>1, <2>2
<1>13. PICK h \in {0, 1}, q \in Nat : q < p /\ y = h * p + q /\ 2 * x + h * Rows < t
  BY <1>12
<1>14. (b * 2 + h) * Rows = 2 * x + h * Rows
  BY <1>0, <1>10
<1>15. i = (h * p + q) * Rows + row + 1
  <2>1. PICK u \in Nat : u = y * Rows
    BY <1>0
  <2>2. i = u + row + 1
    BY <1>8, <2>1
  <2> QED BY <1>13, <2>1, <2>2
<1>16. /\ j < g /\ q < p /\ row < Rows /\ (b * 2 + h) * Rows < t
       /\ c = j * Bands(t) + b /\ i = (h * p + q) * Rows + row + 1
  BY <1>1, <1>3, <1>4, <1>8, <1>13, <1>14, <1>15
<1>17. Made(t, g, p, b, j, h, q, row, c, i)
  BY <1>16 DEF Made
<1> QED BY <1>17


(* Two sites of a launch whose tokens fill their halves never store the    *)
(* same cell, and every cell has one. *)
LEMMA SitesApart ==
  ASSUME NEW t, NEW g, NEW p, NEW c, NEW i, NEW d, NEW k, Grid(t, g, p),
         AtSite(t, g, p, c, i), AtSite(t, g, p, d, k), CellOf(t, g, p, c, i) = CellOf(t, g, p, d, k)
  PROVE  c = d /\ i = k
<1>0. Rows \in Nat /\ Rows > 0 /\ t \in Nat /\ g \in Nat /\ p \in Nat
  BY RowsAssumption DEF Grid
<1> USE <1>0
<1>1. PICK b1, j1, h1, q1, r1 : Made(t, g, p, b1, j1, h1, q1, r1, c, i)
  BY SiteParts
<1>2. PICK b2, j2, h2, q2, r2 : Made(t, g, p, b2, j2, h2, q2, r2, d, k)
  BY SiteParts
<1>3. CellOf(t, g, p, c, i) = Column(g, p, b1, j1, h1, q1, r1)
  BY <1>1, SiteMade
<1>4. CellOf(t, g, p, d, k) = Column(g, p, b2, j2, h2, q2, r2)
  BY <1>2, SiteMade
<1>a. /\ b1 \in Nat /\ j1 \in Nat /\ h1 \in {0, 1} /\ q1 \in Nat /\ r1 \in Nat
      /\ b2 \in Nat /\ j2 \in Nat /\ h2 \in {0, 1} /\ q2 \in Nat /\ r2 \in Nat
  BY <1>1, <1>2 DEF Made
<1> USE <1>a
<1>5. PICK e1 \in Nat : e1 = b1 * 2 + h1
  OBVIOUS
<1>6. PICK e2 \in Nat : e2 = b2 * 2 + h2
  OBVIOUS
<1>7. PICK u1 \in Nat : u1 = e1 * Rows + r1
  BY <1>0
<1>8. PICK u2 \in Nat : u2 = e2 * Rows + r2
  BY <1>0
<1>9. PICK v1 \in Nat : v1 = u1 * g + j1
  OBVIOUS
<1>10. PICK v2 \in Nat : v2 = u2 * g + j2
  OBVIOUS
<1>11. v1 * p + q1 = v2 * p + q2
  BY <1>3, <1>4, <1>5, <1>6, <1>7, <1>8, <1>9, <1>10 DEF Column
<1>12. v1 = v2 /\ q1 = q2
  BY <1>1, <1>2, <1>11, Apart DEF Made
<1>13. u1 = u2 /\ j1 = j2
  BY <1>1, <1>2, <1>9, <1>10, <1>12, Apart DEF Made
<1>14. e1 = e2 /\ r1 = r2
  BY <1>0, <1>1, <1>2, <1>7, <1>8, <1>13, Apart DEF Made
<1>15. b1 = b2 /\ h1 = h2
  BY <1>5, <1>6, <1>14
<1> QED BY <1>1, <1>2, <1>12, <1>13, <1>14, <1>15 DEF Made

(* Every cell is stored by some site. *)
LEMMA SiteFound ==
  ASSUME NEW t, NEW g, NEW p, NEW x, Grid(t, g, p), x \in Upto(t * g * p)
  PROVE  \E c, i : AtSite(t, g, p, c, i) /\ CellOf(t, g, p, c, i) = x
<1>0. Rows \in Nat /\ Rows > 0 /\ t \in Nat /\ g \in Nat /\ p \in Nat /\ g > 0 /\ p > 0
  BY RowsAssumption DEF Grid
<1> USE <1>0
<1>1. PICK f \in Nat : f = t * g
  OBVIOUS
<1>2. x \in Nat /\ x < f * p
  <2>1. f * p \in Nat /\ t * g * p = f * p
    BY <1>1
  <2> QED BY <2>1 DEF Upto
<1>3. PICK v \in Nat, q \in Nat : q < p /\ x = v * p + q /\ x \div p = v
  <2>1. x \div p \in Nat /\ x % p \in Nat /\ x % p < p /\ x = (x \div p) * p + (x % p)
    BY <1>2, Divided
  <2> QED BY <2>1
<1>4. v < t * g
  BY <1>1, <1>2, <1>3, Below
<1>5. PICK u \in Nat, j \in Nat : j < g /\ v = u * g + j /\ v \div g = u
  <2>1. v \div g \in Nat /\ v % g \in Nat /\ v % g < g /\ v = (v \div g) * g + (v % g)
    BY Divided
  <2> QED BY <2>1
<1>6. u < t
  BY <1>4, <1>5, Below
<1>7. PICK e \in Nat, row \in Nat : row < Rows /\ u = e * Rows + row
  <2>1. u \div Rows \in Nat /\ u % Rows \in Nat /\ u % Rows < Rows /\ u = (u \div Rows) * Rows + (u % Rows)
    BY <1>0, Divided
  <2> QED BY <2>1
<1>8. PICK b \in Nat, h \in {0, 1} : e = b * 2 + h
  <2>1. e \div 2 \in Nat /\ e % 2 \in {0, 1} /\ e = (e \div 2) * 2 + (e % 2)
    OBVIOUS
  <2> QED BY <2>1
<1>9. (b * 2 + h) * Rows < t
  <2>1. PICK z \in Nat : z = e * Rows
    BY <1>0
  <2> QED BY <1>6, <1>7, <1>8, <2>1
<1> DEFINE c == j * Bands(t) + b
           i == (h * p + q) * Rows + row + 1
<1>11. Column(g, p, b, j, h, q, row) = x
  BY <1>3, <1>5, <1>7, <1>8 DEF Column
<1>12. Made(t, g, p, b, j, h, q, row, c, i)
  BY <1>3, <1>5, <1>7, <1>9 DEF Made
<1> HIDE DEF c, i
<1>10. /\ AtSite(t, g, p, c, i)
       /\ CellOf(t, g, p, c, i) = Column(g, p, b, j, h, q, row)
  BY <1>12, SiteMade
<1> QED BY <1>10, <1>11

-----------------------------------------------------------------------------
Turns      == Upto(Stages)
Adds       == 0 .. Stages - 2
OwnSite(k, c) == Owner(c, Order(k))
ReadBy(o)  == {o.cell} \cup (IF o.kind = "out" THEN {o.from[j] : j \in DOMAIN o.from} ELSE {})
(* Without a join after each stage, a cell stays with one CTA. *)
OneCta     == \A k \in Turns : \A s \in Sites(Order(k)) : \A c \in ReadBy(OpAt(Order(k), s)) : \A j \in Turns :
                OwnSite(j, c)[1] = s[1]
Fits       == OneOwner /\ (StageJoin \/ OneCta)

(* What the assumption says of the launch that runs. *)
LEMMA LaunchType ==
  ASSUME launch \in Launches
  PROVE  /\ Stages \in {2, 4} /\ launch.size \in Nat /\ launch.tokens \in Nat /\ None \notin Cta
         /\ StageJoin \in BOOLEAN /\ CountsRed \in BOOLEAN
         /\ \A c \in Cta : \A z \in Upto(Stages) : map[c][z] \in Seq(Operations)
         /\ launch.tokens = 0 => StageJoin /\ CountsRed
         /\ launch.tokens # 0 =>
              /\ launch.groups \in Nat /\ launch.groups > 0 /\ launch.pairs \in Nat /\ launch.pairs > 0
              /\ launch = Contract(launch.tokens, launch.groups, launch.pairs, launch.releases, launch.dots)
  BY StagedAssumption DEF StagedAssumption, Stages, map, Cta, StageJoin, CountsRed

(* The maps that ffn_contract admits are sound when the tokens fill the    *)
(* last half. *)
THEOREM ContractFits ==
  ASSUME launch \in Launches, launch.tokens # 0, launch.admitted, launch.tokens % Rows = 0
  PROVE  OneOwner /\ OneCta
<1> DEFINE t == launch.tokens
           g == launch.groups
           p == launch.pairs
           v == launch.dots
<1>1. t \in Nat /\ g \in Nat /\ g > 0 /\ p \in Nat /\ p > 0 /\ launch = Contract(t, g, p, launch.releases, v)
  BY LaunchType
<1>2. Stages = 4 /\ Cell = Upto(t * g * p) /\ Cta = Upto(g * Bands(t))
      /\ \A c \in Cta : \A z \in Upto(4) : map[c][z] = ContractStage(t, g, p, v, c, z)
  <2> DEFINE ll == Contract(t, g, p, launch.releases, v)
  <2>1. ll.stages = 4 /\ ll.size = t * g * p
        /\ ll.map = [c \in Upto(g * Bands(t)) |-> [z \in Upto(4) |-> ContractStage(t, g, p, v, c, z)]]
    BY DEF Contract, Extent
  <2>2. launch = ll
    BY <1>1
  <2> HIDE DEF ll, t, g, p, v
  <2> QED BY <2>1, <2>2 DEF Stages, Cell, Cta, map
<1> HIDE DEF t, g, p, v
<1>3. ASSUME NEW z \in Upto(4), NEW c \in Cta
      PROVE  /\ DOMAIN map[c][z] = 1 .. Warps(t, p, c) * Rows
             /\ \A i \in 1 .. Warps(t, p, c) * Rows :
                  /\ map[c][z][i].cell = CellOf(t, g, p, c, i)
                  /\ map[c][z][i].kind = (IF z = 3 THEN "out" ELSE IF z = 0 THEN "init" ELSE "red")
                  /\ z = 3 => map[c][z][i].from = <<CellOf(t, g, p, c, i)>>
  <2>1. map[c][z] = ContractStage(t, g, p, v, c, z)
    BY <1>2
  <2> DEFINE at1(i) == CellOf(t, g, p, c, i)
             op(i) == IF z = 3 THEN [kind |-> "out", cell |-> at1(i), from |-> <<at1(i)>>]
                      ELSE [kind |-> IF z = 0 THEN "init" ELSE "red", cell |-> at1(i), dot |-> v[z + 1]]
  <2>2. ContractStage(t, g, p, v, c, z) = [i \in 1 .. Warps(t, p, c) * Rows |-> op(i)]
    BY DEF ContractStage, Warps, CellOf
  <2> HIDE DEF at1
  <2>3. \A i \in 1 .. Warps(t, p, c) * Rows : map[c][z][i] = op(i)
    <3> HIDE DEF op
    <3> QED BY <2>1, <2>2
  <2>4. DOMAIN map[c][z] = 1 .. Warps(t, p, c) * Rows
    <3> HIDE DEF op
    <3> QED BY <2>1, <2>2
  <2>5. op(1) = op(1) /\ \A i \in 1 .. Warps(t, p, c) * Rows :
               /\ op(i).cell = at1(i) /\ op(i).kind = (IF z = 3 THEN "out" ELSE IF z = 0 THEN "init" ELSE "red")
               /\ z = 3 => op(i).from = <<at1(i)>>
    OBVIOUS
  <2> HIDE DEF op
  <2> QED BY <2>3, <2>4, <2>5 DEF at1
<1>4. \A z \in Upto(4) : Sites(z) = UNION {{<<c, i>> : i \in 1 .. Warps(t, p, c) * Rows} : c \in Cta}
  <2> SUFFICES ASSUME NEW z \in Upto(4)
               PROVE  Sites(z) = UNION {{<<c, i>> : i \in 1 .. Warps(t, p, c) * Rows} : c \in Cta}
    OBVIOUS
  <2>1. \A c \in Cta : DOMAIN map[c][z] = 1 .. Warps(t, p, c) * Rows
    BY <1>3
  <2> QED BY <2>1 DEF Sites
<1> DEFINE All == UNION {{<<c, i>> : i \in 1 .. Warps(t, p, c) * Rows} : c \in Cta}
           Where(s) == CellOf(t, g, p, s[1], s[2])
<1>5. \A s \in All : s = <<s[1], s[2]>> /\ s[1] \in Cta /\ s[2] \in 1 .. Warps(t, p, s[1]) * Rows
  OBVIOUS
<1>6. Grid(t, g, p) /\ \A s \in All : AtSite(t, g, p, s[1], s[2])
  <2>1. t % Rows = 0
    BY DEF t
  <2> HIDE DEF All
  <2> QED BY <1>1, <1>2, <1>5, <2>1 DEF Grid, AtSite
<1>14. \A s \in All : Where(s) \in Cell
  <2> SUFFICES ASSUME NEW s \in All PROVE Where(s) \in Cell
    OBVIOUS
  <2> DEFINE c == s[1]
             i == s[2]
  <2>1. AtSite(t, g, p, c, i)
    <3> HIDE DEF All
    <3> QED BY <1>6
  <2> HIDE DEF c, i
  <2>2. PICK b, j, h, q, row : Made(t, g, p, b, j, h, q, row, c, i)
    BY <1>6, <2>1, SiteParts
  <2>3. CellOf(t, g, p, c, i) \in Upto(t * g * p)
    BY <1>6, <2>2, SiteMade
  <2> QED BY <1>2, <2>3 DEF c, i
<1>7. ASSUME NEW x \in Cell PROVE \E s \in All : {r \in All : Where(r) = x} = {s}
  <2>1. x \in Upto(t * g * p)
    BY <1>2
  <2>2. PICK c, i : AtSite(t, g, p, c, i) /\ CellOf(t, g, p, c, i) = x
    BY <1>6, <2>1, SiteFound
  <2>3. c \in Cta /\ i \in 1 .. Warps(t, p, c) * Rows
    BY <1>2, <2>2 DEF AtSite
  <2>4. <<c, i>> \in All /\ Where(<<c, i>>) = x
    BY <2>2, <2>3
  <2>5. ASSUME NEW r \in All, Where(r) = x PROVE r = <<c, i>>
    <3> DEFINE d == r[1]
               k == r[2]
    <3>1. AtSite(t, g, p, d, k) /\ r = <<d, k>>
      <4> HIDE DEF All
      <4> QED BY <1>5, <1>6
    <3>2. CellOf(t, g, p, c, i) = CellOf(t, g, p, d, k)
      BY <2>2, <2>5
    <3> HIDE DEF d, k
    <3>3. c = d /\ i = k
      BY <1>6, <2>2, <3>1, <3>2, SitesApart
    <3> QED BY <3>1, <3>3
  <2> HIDE DEF All, Where
  <2> QED BY <2>4, <2>5
<1>8. \A z \in Upto(4) : Sites(z) = All /\ \A s \in All : OpAt(z, s).cell = Where(s)
  BY <1>3, <1>4, <1>5 DEF OpAt
<1>9. \A z \in Upto(4) : \A x \in Cell : On(x, z) = {r \in All : Where(r) = x}
  <2> HIDE DEF All, Where
  <2> QED BY <1>8 DEF On
<1>10. OneOwner
  <2> SUFFICES ASSUME NEW z \in Upto(4)
               PROVE  /\ \A s \in Sites(z) :
                           /\ OpAt(z, s).kind = KindOf(z) /\ OpAt(z, s).cell \in Cell
                           /\ z = Stages - 1 => \A j \in DOMAIN OpAt(z, s).from : OpAt(z, s).from[j] \in Cell
                      /\ \A x \in Cell : \E s \in Sites(z) : On(x, z) = {s}
    BY <1>2 DEF OneOwner
  <2>1. ASSUME NEW s \in Sites(z)
        PROVE  /\ OpAt(z, s).kind = KindOf(z) /\ OpAt(z, s).cell \in Cell
               /\ z = Stages - 1 => \A j \in DOMAIN OpAt(z, s).from : OpAt(z, s).from[j] \in Cell
    <3>1. s \in All /\ OpAt(z, s).cell = Where(s) /\ Where(s) \in Cell
      <4> HIDE DEF All, Where
      <4> QED BY <1>8, <1>14, <2>1
    <3>2. s[1] \in Cta /\ s[2] \in 1 .. Warps(t, p, s[1]) * Rows
      BY <1>5, <3>1
    <3>3. OpAt(z, s).kind = (IF z = 3 THEN "out" ELSE IF z = 0 THEN "init" ELSE "red")
          /\ (z = 3 => OpAt(z, s).from = <<Where(s)>>)
      BY <1>3, <3>2 DEF OpAt
    <3>4. KindOf(z) = (IF z = 3 THEN "out" ELSE IF z = 0 THEN "init" ELSE "red")
      BY <1>2 DEF KindOf, Upto
    <3> HIDE DEF Where
    <3> QED BY <1>2, <3>1, <3>3, <3>4
  <2>2. ASSUME NEW x \in Cell PROVE \E s \in Sites(z) : On(x, z) = {s}
    <3> HIDE DEF All, Where
    <3> QED BY <1>7, <1>8, <1>9, <2>2
  <2> QED BY <2>1, <2>2
<1>11. \A k \in Turns : Order(k) \in Upto(4)
  BY <1>2 DEF Turns, Upto, Order
<1>12. OneCta
  <2> SUFFICES ASSUME NEW k \in Turns, NEW s \in Sites(Order(k)), NEW c \in ReadBy(OpAt(Order(k), s)), NEW j \in Turns
               PROVE  OwnSite(j, c)[1] = s[1]
    BY DEF OneCta
  <2> DEFINE z == Order(k)
  <2>0. z \in Upto(4) /\ Order(j) \in Upto(4)
    BY <1>11
  <2>1. s \in All /\ OpAt(z, s).cell = Where(s) /\ Where(s) \in Cell
    <3> HIDE DEF All, Where
    <3> QED BY <1>8, <1>14, <2>0
  <2>2. s[1] \in Cta /\ s[2] \in 1 .. Warps(t, p, s[1]) * Rows
    BY <1>5, <2>1
  <2>3. OpAt(z, s).kind = "out" => OpAt(z, s).from = <<Where(s)>>
    <3>1. OpAt(z, s).kind = (IF z = 3 THEN "out" ELSE IF z = 0 THEN "init" ELSE "red")
          /\ (z = 3 => OpAt(z, s).from = <<Where(s)>>)
      <4> HIDE DEF z
      <4> QED BY <1>3, <2>0, <2>2 DEF OpAt
    <3> QED BY <3>1
  <2>4. c = Where(s)
    <3> HIDE DEF Where, z
    <3>1. c \in ReadBy(OpAt(z, s))
      BY DEF z
    <3>2. \A i \in DOMAIN <<Where(s)>> : <<Where(s)>>[i] = Where(s)
      OBVIOUS
    <3> QED BY <2>1, <2>3, <3>1, <3>2 DEF ReadBy
  <2>5. OwnSite(j, c) = s
    <3> HIDE DEF All, Where, z
    <3>1. On(c, Order(j)) = {r \in All : Where(r) = c}
      BY <1>9, <2>0, <2>1, <2>4
    <3>2. s \in On(c, Order(j))
      BY <2>1, <2>4, <3>1
    <3>3. PICK r \in All : On(c, Order(j)) = {r}
      BY <1>7, <2>1, <2>4, <3>1
    <3>4. On(c, Order(j)) = {s}
      BY <3>2, <3>3
    <3> QED BY <3>4 DEF OwnSite, Owner
  <2> QED BY <2>5
<1> QED BY <1>10, <1>12


(* What follows from the launch alone does not change while it runs. *)
LEMMA Steady ==
  ASSUME launch' = launch, rev' = rev
  PROVE  /\ Stages' = Stages /\ map' = map /\ Cta' = Cta /\ Cell' = Cell /\ StageJoin' = StageJoin
         /\ CountsRed' = CountsRed /\ Rounds' = Rounds /\ Turns' = Turns /\ Adds' = Adds
         /\ \A k : Order(k)' = Order(k)
         /\ \A z : Sites(z)' = Sites(z) /\ KindOf(z)' = KindOf(z)
         /\ \A z, s : OpAt(z, s)' = OpAt(z, s)
         /\ \A k, c : OwnSite(k, c)' = OwnSite(k, c)
         /\ \A c, n : Given(c, n)' = Given(c, n)
         /\ \A c, n : Partial(c, n)' = Partial(c, n)
         /\ \A c : Sum(c)' = Sum(c) /\ TooLarge(c)' = TooLarge(c)
         /\ Fits' = Fits /\ Sound' = Sound
<1>1. Stages' = Stages /\ map' = map /\ StageJoin' = StageJoin /\ CountsRed' = CountsRed /\ launch.size' = launch.size
  BY DEF Stages, map, StageJoin, CountsRed
<1>2. Cta' = Cta /\ Cell' = Cell /\ Rounds' = Rounds /\ Turns' = Turns /\ Adds' = Adds
  BY <1>1 DEF Cta, Cell, Rounds, Turns, Adds
<1>3. ASSUME NEW k PROVE Order(k)' = Order(k)
  BY <1>1 DEF Order
<1>4. ASSUME NEW z PROVE Sites(z)' = Sites(z) /\ KindOf(z)' = KindOf(z)
  BY <1>1, <1>2 DEF Sites, KindOf
<1>5. ASSUME NEW z, NEW s PROVE OpAt(z, s)' = OpAt(z, s)
  BY <1>1 DEF OpAt
<1>6. ASSUME NEW z, NEW c PROVE On(c, z)' = On(c, z)
  BY <1>4, <1>5 DEF On
<1>7. ASSUME NEW z, NEW c PROVE Owner(c, z)' = Owner(c, z)
  BY <1>6 DEF Owner
<1>8. ASSUME NEW k, NEW c PROVE OwnSite(k, c)' = OwnSite(k, c)
  BY <1>3, <1>7 DEF OwnSite
<1>9. StageOrder' = StageOrder
  BY <1>1 DEF StageOrder
<1>10. ASSUME NEW c, NEW n PROVE Given(c, n)' = Given(c, n)
  BY <1>5, <1>7, <1>9 DEF Given
<1>11. ASSUME NEW c, NEW n PROVE Partial(c, n)' = Partial(c, n)
  BY <1>10 DEF Partial
<1>12. ASSUME NEW c PROVE Sum(c)' = Sum(c) /\ TooLarge(c)' = TooLarge(c)
  BY <1>9, <1>10, <1>11 DEF Sum, TooLarge
<1>13. OneOwner' = OneOwner
  BY <1>1, <1>2, <1>4, <1>5, <1>6 DEF OneOwner
<1>14. Fits' = Fits
  BY <1>1, <1>2, <1>3, <1>4, <1>5, <1>8, <1>13 DEF Fits, OneCta
<1>15. Sound' = Sound
  BY <1>13 DEF Sound, Released, Written
<1> QED BY <1>1, <1>2, <1>3, <1>4, <1>5, <1>8, <1>10, <1>11, <1>12, <1>14, <1>15

(* The order of the stages: the first stays first, the last stays last. *)
LEMMA OrderFacts ==
  ASSUME launch \in Launches, rev \in BOOLEAN
  PROVE  /\ Stages \in {2, 4} /\ \A k \in Turns : Order(k) \in Upto(Stages)
         /\ \A k \in Turns : KindOf(Order(k)) = IF k = 0 THEN "init" ELSE IF k = Stages - 1 THEN "out" ELSE "red"
         /\ Order(0) = 0 /\ Order(Stages - 1) = Stages - 1
         /\ \A k \in Turns : k # 0 /\ k # Stages - 1 => Stages = 4 /\ k \in {1, 2} /\ Order(k) \in {1, 2}
         /\ Len(StageOrder) = Stages - 1 /\ \A k \in Adds : StageOrder[k + 1] = Order(k)
<1>1. Stages \in {2, 4}
  BY LaunchType
<1>2. CASE Stages = 2
  BY <1>2 DEF Order, Turns, Adds, Upto, KindOf, StageOrder
<1>3. CASE Stages = 4
  <2>1. Turns = {0, 1, 2, 3} /\ Adds = {0, 1, 2} /\ Upto(Stages) = {0, 1, 2, 3}
    BY <1>3 DEF Turns, Adds, Upto
  <2>2. CASE rev
    <3>1. Order(0) = 0 /\ Order(1) = 2 /\ Order(2) = 1 /\ Order(3) = 3
      BY <1>3, <2>2 DEF Order
    <3>2. StageOrder = <<0, 2, 1>>
      BY <1>3, <2>2 DEF StageOrder
    <3> QED BY <1>3, <2>1, <3>1, <3>2 DEF KindOf
  <2>3. CASE ~rev
    <3>1. Order(0) = 0 /\ Order(1) = 1 /\ Order(2) = 2 /\ Order(3) = 3
      BY <1>3, <2>3 DEF Order
    <3>2. StageOrder = <<0, 1, 2>>
      BY <1>3, <2>3 DEF StageOrder
    <3> QED BY <1>3, <2>1, <3>1, <3>2 DEF KindOf
  <2> QED BY <2>2, <2>3
<1> QED BY <1>1, <1>2, <1>3

(* With one owner for each cell, a site and its cell name each other. *)
LEMMA SiteFacts ==
  ASSUME launch \in Launches, rev \in BOOLEAN, OneOwner, NEW k \in Turns
  PROVE  /\ \A s \in Sites(Order(k)) : LET o == OpAt(Order(k), s) IN
              /\ s[1] \in Cta /\ s[2] \in DOMAIN map[s[1]][Order(k)] /\ s = <<s[1], s[2]>>
              /\ o.kind = KindOf(Order(k)) /\ o.cell \in Cell /\ OwnSite(k, o.cell) = s
              /\ k \in Adds => o.dot \in Dots
              /\ k = Stages - 1 => /\ o.from \in Seq(Int) /\ \A j \in DOMAIN o.from : o.from[j] \in Cell
         /\ \A c \in Cell : OwnSite(k, c) \in Sites(Order(k)) /\ OpAt(Order(k), OwnSite(k, c)).cell = c
<1> DEFINE z == Order(k)
<1>1. z \in Upto(Stages) /\ (k = Stages - 1 => z = Stages - 1)
      /\ KindOf(z) = IF k = 0 THEN "init" ELSE IF k = Stages - 1 THEN "out" ELSE "red"
  BY OrderFacts
<1> HIDE DEF z
<1>2. ASSUME NEW c \in Cell PROVE Owner(c, z) \in Sites(z) /\ OpAt(z, Owner(c, z)).cell = c /\ On(c, z) = {Owner(c, z)}
  <2>1. PICK s \in Sites(z) : On(c, z) = {s}
    BY <1>1 DEF OneOwner
  <2>2. Owner(c, z) = s
    BY <2>1 DEF Owner
  <2>3. s \in On(c, z)
    BY <2>1
  <2> QED BY <2>1, <2>2, <2>3 DEF On
<1>3. ASSUME NEW s \in Sites(z)
      PROVE  LET o == OpAt(z, s) IN
              /\ s[1] \in Cta /\ s[2] \in DOMAIN map[s[1]][z] /\ s = <<s[1], s[2]>>
              /\ o.kind = KindOf(z) /\ o.cell \in Cell /\ Owner(o.cell, z) = s
              /\ k \in Adds => o.dot \in Dots
              /\ k = Stages - 1 => /\ o.from \in Seq(Int) /\ \A j \in DOMAIN o.from : o.from[j] \in Cell
  <2> DEFINE o == OpAt(z, s)
  <2>1. s[1] \in Cta /\ s[2] \in DOMAIN map[s[1]][z] /\ s = <<s[1], s[2]>>
    BY <1>3 DEF Sites
  <2>2. o \in Operations
    <3>1. map[s[1]][z] \in Seq(Operations)
      BY <1>1, <2>1, LaunchType
    <3> QED BY <2>1, <3>1 DEF OpAt
  <2>3. o.kind = KindOf(z) /\ o.cell \in Cell /\ (z = Stages - 1 => \A j \in DOMAIN o.from : o.from[j] \in Cell)
    BY <1>1, <1>3 DEF OneOwner
  <2>4. s \in On(o.cell, z)
    BY <1>3 DEF On
  <2>5. Owner(o.cell, z) = s
    <3> HIDE DEF o
    <3> QED BY <1>2, <2>3, <2>4
  <2>6. k \in Adds => o.dot \in Dots
    <3>1. k \in Adds => k # Stages - 1
      BY OrderFacts DEF Adds
    <3>2. k \in Adds => o.kind \in {"init", "red"}
      BY <1>1, <2>3, <3>1
    <3> QED BY <2>2, <3>2 DEF Operations
  <2>7. k = Stages - 1 => o.from \in Seq(Int)
    <3>1. k = Stages - 1 => o.kind = "out"
      BY <1>1, <2>3, OrderFacts
    <3> QED BY <2>2, <3>1 DEF Operations
  <2> HIDE DEF o
  <2> QED BY <1>1, <2>1, <2>3, <2>5, <2>6, <2>7 DEF o
<1> QED BY <1>2, <1>3 DEF z, OwnSite

(* The sums that should be there, by the operators the code uses. *)
LEMMA PartialFacts ==
  ASSUME launch \in Launches, rev \in BOOLEAN, OneOwner, NEW c \in Cell
  PROVE  /\ \A k \in Adds : /\ Given(c, k + 1) = OpAt(Order(k), OwnSite(k, c)).dot /\ Given(c, k + 1) \in Dots
                            /\ Partial(c, k + 1) \in Signeds
                            /\ k # 0 => Partial(c, k + 1) = HalfAdd(Partial(c, k), Dot(Given(c, k + 1)))
                            /\ Refused(Given(c, k + 1)) \/ Partial(c, k + 1).code = Inf => TooLarge(c)
         /\ Partial(c, 1) = Dot(Given(c, 1))
         /\ Sum(c) = Partial(c, Stages - 1) /\ Sum(c) \in Signeds
<1>0. Stages \in {2, 4} /\ Adds \subseteq Turns /\ Len(StageOrder) = Stages - 1
      /\ Adds = (IF Stages = 2 THEN {0} ELSE {0, 1, 2})
  <2>1. Stages \in {2, 4} /\ Len(StageOrder) = Stages - 1
    BY OrderFacts
  <2>2. CASE Stages = 2
    BY <2>1, <2>2 DEF Adds, Turns, Upto
  <2>3. CASE Stages = 4
    BY <2>1, <2>3 DEF Adds, Turns, Upto
  <2> QED BY <2>1, <2>2, <2>3
<1>1. ASSUME NEW k \in Adds PROVE Given(c, k + 1) = OpAt(Order(k), OwnSite(k, c)).dot /\ Given(c, k + 1) \in Dots
  <2>1. Given(c, k + 1) = OpAt(Order(k), OwnSite(k, c)).dot
    BY OrderFacts DEF Given, OwnSite
  <2>2. OwnSite(k, c) \in Sites(Order(k)) /\ k \in Turns
    BY <1>0, SiteFacts
  <2> QED BY <2>1, <2>2, SiteFacts
<1>2. \A k \in Adds : RefDot(Given(c, k + 1)) = Dot(Given(c, k + 1)) /\ Dot(Given(c, k + 1)) \in Signeds
  BY <1>1, DotNearest, HalfType
<1>3. Partial(c, 1) = Dot(Given(c, 1)) /\ Partial(c, 1) \in Signeds
  <2>1. RefDot(Given(c, 1)) = Dot(Given(c, 1)) /\ Dot(Given(c, 1)) \in Signeds
    <3>1. 0 \in Adds /\ 0 + 1 = 1
      BY <1>0
    <3> QED BY <1>2, <3>1
  <2> QED BY <2>1 DEF Partial
<1>4. ASSUME Stages = 4 PROVE Partial(c, 2) = HalfAdd(Partial(c, 1), Dot(Given(c, 2))) /\ Partial(c, 2) \in Signeds
  <2>1. RefDot(Given(c, 2)) = Dot(Given(c, 2)) /\ Dot(Given(c, 2)) \in Signeds
    <3>1. 1 \in Adds /\ 1 + 1 = 2
      BY <1>0, <1>4
    <3> QED BY <1>2, <3>1
  <2>2. Partial(c, 2) = RefAdd(Partial(c, 1), RefDot(Given(c, 2)))
    BY DEF Partial
  <2> QED BY <1>3, <2>1, <2>2, AddNearest, HalfType
<1>5. ASSUME Stages = 4 PROVE Partial(c, 3) = HalfAdd(Partial(c, 2), Dot(Given(c, 3))) /\ Partial(c, 3) \in Signeds
  <2>1. RefDot(Given(c, 3)) = Dot(Given(c, 3)) /\ Dot(Given(c, 3)) \in Signeds
    <3>1. 2 \in Adds /\ 2 + 1 = 3
      BY <1>0, <1>5
    <3> QED BY <1>2, <3>1
  <2>2. Partial(c, 3) = RefAdd(Partial(c, 2), RefDot(Given(c, 3)))
    BY DEF Partial
  <2> QED BY <1>4, <1>5, <2>1, <2>2, AddNearest, HalfType
<1>6. \A k \in Adds : Partial(c, k + 1) \in Signeds
                      /\ (k # 0 => Partial(c, k + 1) = HalfAdd(Partial(c, k), Dot(Given(c, k + 1))))
  <2>1. CASE Stages = 2
    BY <1>0, <1>3, <2>1
  <2>2. CASE Stages = 4
    BY <1>0, <1>3, <1>4, <1>5, <2>2
  <2> QED BY <1>0, <2>1, <2>2
<1>7. ASSUME NEW k \in Adds, Refused(Given(c, k + 1)) \/ Partial(c, k + 1).code = Inf PROVE TooLarge(c)
  <2>1. k + 1 \in 1 .. Len(StageOrder)
    BY <1>0
  <2> QED BY <1>7, <2>1 DEF TooLarge
<1>8. Sum(c) = Partial(c, Stages - 1) /\ Sum(c) \in Signeds
  <2>1. Stages - 2 \in Adds /\ (Stages - 2) + 1 = Stages - 1
    BY <1>0
  <2> QED BY <1>0, <1>6, <2>1 DEF Sum
<1> QED BY <1>1, <1>3, <1>6, <1>7, <1>8

-----------------------------------------------------------------------------
(* Who is where in a launch. *)

(* How far an operation is, site s of a CTA's k-th stage: done, not begun, *)
(* or in between, where its worker is. *)
Past(k, s) == \/ k < round
              \/ /\ s[1] \notin left /\ (StageJoin => k = round)
                 /\ \A p \in Worker : cta[p] = s[1] => turn[p] > k \/ (turn[p] = k /\ pos[p] > s[2])
Here(p, k, s) == p \in Worker /\ cta[p] = s[1] /\ turn[p] = k /\ pos[p] = s[2]
Phase(k, s) == IF Past(k, s) THEN "after"
               ELSE IF \E p : Here(p, k, s) THEN micro[CHOOSE p : Here(p, k, s)]
               ELSE "read"
PhaseOf(k, c) == Phase(k, OwnSite(k, c))

Micros(kind) == IF kind = "red" THEN {"read", "value", "tally", "count"} ELSE {"read", "count", "value"}
AtWork(p)    == cta[p] # None /\ pos[p] \in DOMAIN map[cta[p]][Z(p)]
(* The workers run distinct CTAs whose tickets are taken, each in its      *)
(* stage; between the stages of a joined launch all are in the same one.   *)
Employed(p)  == /\ cta[p] \notin left /\ pos[p] > 0 /\ pos[p] <= Len(map[cta[p]][Z(p)]) + 1
                /\ StageJoin => turn[p] = round
                /\ IF AtWork(p) THEN micro[p] \in Micros(Op(p).kind) ELSE micro[p] = "read"
                /\ \A q \in Worker : cta[q] = cta[p] => q = p
Finished == left = {} /\ round + 1 = Rounds /\ \A p \in Worker : cta[p] = None
Sched ==
  /\ left \subseteq Cta /\ round \in 0 .. Rounds - 1
  /\ cta \in [Worker -> Cta \cup {None}] /\ turn \in [Worker -> Turns] /\ pos \in [Worker -> Nat]
  /\ DOMAIN micro = Worker
  /\ \A p \in Worker : cta[p] # None => Employed(p)
  /\ main = "returned" => Finished

(* A phase in the three cases of its definition. *)
LEMMA PhaseIs ==
  ASSUME launch \in Launches, Sched
  PROVE  \A k, s : /\ Past(k, s) => Phase(k, s) = "after"
                   /\ \A p : ~Past(k, s) /\ Here(p, k, s) /\ s[1] \in Cta => Phase(k, s) = micro[p]
                   /\ ~Past(k, s) /\ (\A p : ~Here(p, k, s)) => Phase(k, s) = "read"
<1> SUFFICES ASSUME NEW k, NEW s
             PROVE  /\ Past(k, s) => Phase(k, s) = "after"
                    /\ \A p : ~Past(k, s) /\ Here(p, k, s) /\ s[1] \in Cta => Phase(k, s) = micro[p]
                    /\ ~Past(k, s) /\ (\A p : ~Here(p, k, s)) => Phase(k, s) = "read"
  OBVIOUS
<1>1. ASSUME NEW p, ~Past(k, s), Here(p, k, s), s[1] \in Cta PROVE Phase(k, s) = micro[p]
  <2> DEFINE q == CHOOSE q : Here(q, k, s)
  <2>1. Here(q, k, s)
    BY <1>1
  <2>2. Phase(k, s) = micro[q]
    BY <1>1 DEF Phase
  <2> HIDE DEF q
  <2>3. p \in Worker /\ q \in Worker /\ cta[q] = cta[p] /\ cta[p] # None
    BY <1>1, <2>1, LaunchType DEF Here
  <2>4. q = p
    BY <2>3 DEF Sched, Employed
  <2> QED BY <2>2, <2>4
<1> QED BY <1>1 DEF Phase

(* A worker at an operation: the sites of the operation's cells in earlier *)
(* stages are done, and those in later stages have not begun.              *)
LEMMA AtWorkFacts ==
  ASSUME launch \in Launches, rev \in BOOLEAN, Fits, Sched, NEW p \in Worker, AtWork(p)
  PROVE  LET s == <<cta[p], pos[p]>> IN
         /\ turn[p] \in Turns /\ s \in Sites(Z(p)) /\ Op(p) = OpAt(Z(p), s) /\ cta[p] \in Cta
         /\ Op(p).kind = (IF turn[p] = 0 THEN "init" ELSE IF turn[p] = Stages - 1 THEN "out" ELSE "red")
         /\ X(p) \in Cell /\ OwnSite(turn[p], X(p)) = s
         /\ ~Past(turn[p], s) /\ PhaseOf(turn[p], X(p)) = micro[p]
         /\ \A c \in ReadBy(Op(p)) :
              /\ c \in Cell
              /\ \A j \in Turns : /\ j < turn[p] => PhaseOf(j, c) = "after"
                                  /\ j > turn[p] => PhaseOf(j, c) = "read"
<1> DEFINE s == <<cta[p], pos[p]>>
           k == turn[p]
<1>1. cta[p] # None /\ cta[p] \in Cta /\ k \in Turns /\ Employed(p) /\ pos[p] \in DOMAIN map[cta[p]][Z(p)] /\ Z(p) = Order(k)
  BY DEF AtWork, Sched, Z
<1>2. s \in Sites(Order(k)) /\ Op(p) = OpAt(Order(k), s) /\ s[1] = cta[p] /\ s[2] = pos[p]
  BY <1>1 DEF Sites, Op, OpAt
<1> DEFINE o == OpAt(Order(k), s)
<1> HIDE DEF s, k
<1>3. o.kind = (IF k = 0 THEN "init" ELSE IF k = Stages - 1 THEN "out" ELSE "red")
  BY <1>1, <1>2, SiteFacts, OrderFacts DEF Fits
<1>4. /\ o.cell \in Cell /\ OwnSite(k, o.cell) = s
      /\ k = Stages - 1 => /\ o.from \in Seq(Int) /\ \A j \in DOMAIN o.from : o.from[j] \in Cell
  BY <1>1, <1>2, SiteFacts DEF Fits
<1>5. ~Past(k, s)
  <2>1. round \in Int /\ (StageJoin => k = round) /\ (~StageJoin => round = 0) /\ k >= 0 /\ k \in Int
    BY <1>1, OrderFacts, LaunchType DEF Sched, Employed, Rounds, k, Turns, Upto
  <2>2. pos[p] \in Int
    BY DEF Sched
  <2> QED BY <1>2, <2>1, <2>2 DEF Past, k
<1>6. PhaseOf(k, o.cell) = micro[p]
  <2>1. Here(p, k, s)
    BY <1>2 DEF Here, k
  <2> HIDE DEF o
  <2> QED BY <1>1, <1>2, <1>4, <1>5, <2>1, PhaseIs DEF PhaseOf
<1>7. ASSUME NEW c \in ReadBy(o)
      PROVE  /\ c \in Cell
             /\ \A j \in Turns : /\ j < k => PhaseOf(j, c) = "after"
                                 /\ j > k => PhaseOf(j, c) = "read"
  <2>1. c \in Cell
    <3>1. c = o.cell \/ (o.kind = "out" /\ \E j \in DOMAIN o.from : c = o.from[j])
      BY <1>7 DEF ReadBy
    <3>2. o.kind = "out" => k = Stages - 1
      BY <1>3
    <3> HIDE DEF o
    <3> QED BY <1>4, <3>1, <3>2
  <2>2. ASSUME NEW j \in Turns PROVE /\ j < k => PhaseOf(j, c) = "after"
                                     /\ j > k => PhaseOf(j, c) = "read"
    <3> DEFINE r == OwnSite(j, c)
    <3>0. j \in Int /\ j >= 0 /\ k \in Int /\ k >= 0
      BY <1>1, OrderFacts DEF Turns, Upto
    <3>1. CASE StageJoin
      <4>1. k = round
        BY <1>1, <3>1 DEF Employed, k
      <4>2. j < k => Past(j, r)
        BY <4>1 DEF Past
      <4>3. j > k => ~Past(j, r)
        BY <3>0, <3>1, <4>1 DEF Past
      <4>4. j > k => \A q : ~Here(q, j, r)
        <5>1. ASSUME NEW q, Here(q, j, r), j > k PROVE FALSE
          <6>0. r[1] \in Cta
            <7>1. r \in Sites(Order(j))
              BY <2>1, SiteFacts DEF Fits
            <7> QED BY <2>1, <7>1, SiteFacts DEF Fits
          <6>1. cta[q] # None /\ q \in Worker /\ turn[q] = j
            BY <5>1, <6>0, LaunchType DEF Here
          <6>2. turn[q] = round
            BY <3>1, <6>1 DEF Sched, Employed
          <6> QED BY <3>0, <4>1, <5>1, <6>1, <6>2
        <5> QED BY <5>1
      <4> HIDE DEF r
      <4>5. PhaseOf(j, c) = Phase(j, r)
        BY DEF PhaseOf, r
      <4> QED BY <4>2, <4>3, <4>4, <4>5, PhaseIs
    <3>2. CASE ~StageJoin
      <4>1. r[1] = cta[p]
        <5>1. OneCta
          BY <3>2 DEF Fits
        <5> QED BY <1>1, <1>2, <1>7, <5>1 DEF OneCta
      <4>2. \A q \in Worker : cta[q] = cta[p] => q = p
        BY <1>1 DEF Employed
      <4>3. round = 0 /\ cta[p] \notin left
        BY <1>1, <3>2 DEF Sched, Employed, Rounds
      <4>4. j < k => Past(j, r)
        BY <3>0, <3>2, <4>1, <4>2, <4>3 DEF Past, k
      <4>5. j > k => ~Past(j, r)
        <5>1. cta[p] = r[1] /\ turn[p] = k /\ p \in Worker
          BY <4>1 DEF k
        <5> HIDE DEF r
        <5> QED BY <3>0, <4>3, <5>1 DEF Past
      <4>6. j > k => \A q : ~Here(q, j, r)
        <5> SUFFICES ASSUME NEW q, Here(q, j, r), j > k PROVE FALSE
          OBVIOUS
        <5>1. q \in Worker /\ cta[q] = cta[p] /\ turn[q] = j
          BY <4>1 DEF Here
        <5>2. turn[p] = j /\ turn[p] = k
          BY <4>2, <5>1 DEF k
        <5> QED BY <3>0, <5>2
      <4> HIDE DEF r
      <4>7. PhaseOf(j, c) = Phase(j, r)
        BY DEF PhaseOf, r
      <4> QED BY <4>4, <4>5, <4>6, <4>7, PhaseIs
    <3> QED BY <3>1, <3>2
  <2> QED BY <2>1, <2>2
<1> HIDE DEF o
<1>8. X(p) = o.cell /\ Op(p) = o
  BY <1>2 DEF X, o
<1> QED BY <1>1, <1>2, <1>3, <1>4, <1>5, <1>6, <1>7, <1>8 DEF k, s


PhaseMeans(k, s) == /\ Past(k, s) => Phase(k, s) = "after"
                    /\ \A p : ~Past(k, s) /\ Here(p, k, s) /\ s[1] \in Cta => Phase(k, s) = micro[p]
                    /\ ~Past(k, s) /\ (\A p : ~Here(p, k, s)) => Phase(k, s) = "read"
(* The same as one predicate, now and in the next state. *)
LEMMA PhaseMeaning == launch \in Launches /\ Sched => \A k, s : PhaseMeans(k, s)
  BY PhaseIs DEF PhaseMeans
(* The same after a step. *)
LEMMA PhaseMeaningNext == (launch \in Launches /\ Sched => \A k, s : PhaseMeans(k, s))'
  BY PhaseMeaning, PTL
AtMicro == \A q \in Worker : AtWork(q) => PhaseOf(turn[q], X(q)) = micro[q]
(* A worker at an operation is where its phase is. *)
LEMMA AtMicroNow == launch \in Launches /\ rev \in BOOLEAN /\ Fits /\ Sched => AtMicro
  BY AtWorkFacts DEF AtMicro
(* The same after a step. *)
LEMMA AtMicroNext == (launch \in Launches /\ rev \in BOOLEAN /\ Fits /\ Sched => AtMicro)'
  BY AtMicroNow, PTL

(* Where an operation is found before and after a step that leaves it alone. *)
LEMMA PhaseSame ==
  ASSUME launch \in Launches, launch' = launch, rev' = rev, Sched, Sched', NEW k, NEW s, s[1] \in Cta,
         Past(k, s)' <=> Past(k, s),
         ~Past(k, s) => \A q : /\ Here(q, k, s) /\ micro[q] # "read" => Here(q, k, s)' /\ micro'[q] = micro[q]
                               /\ Here(q, k, s)' /\ micro'[q] # "read" => Here(q, k, s) /\ micro'[q] = micro[q]
  PROVE  Phase(k, s)' = Phase(k, s)
<1>1. /\ Past(k, s) => Phase(k, s) = "after"
      /\ \A p : ~Past(k, s) /\ Here(p, k, s) => Phase(k, s) = micro[p]
      /\ ~Past(k, s) /\ (\A p : ~Here(p, k, s)) => Phase(k, s) = "read"
  BY PhaseIs
<1>2. /\ Past(k, s)' => Phase(k, s)' = "after"
      /\ \A p : ~Past(k, s)' /\ Here(p, k, s)' => Phase(k, s)' = micro'[p]
      /\ ~Past(k, s)' /\ (\A p : ~Here(p, k, s)') => Phase(k, s)' = "read"
  <2>1. \A j, r : PhaseMeans(j, r)'
    BY PhaseMeaningNext
  <2>2. Cta' = Cta
    BY Steady
  <2> QED BY <2>1, <2>2 DEF PhaseMeans
<1>3. CASE Past(k, s)
  BY <1>1, <1>2, <1>3
<1>4. CASE ~Past(k, s)
  <2>1. CASE \E q : Here(q, k, s) /\ micro[q] # "read"
    BY <1>1, <1>2, <1>4, <2>1
  <2>2. CASE \E q : Here(q, k, s)' /\ micro'[q] # "read"
    BY <1>1, <1>2, <1>4, <2>2
  <2>3. CASE \A q : (Here(q, k, s) => micro[q] = "read") /\ (Here(q, k, s)' => micro'[q] = "read")
    <3>1. Phase(k, s) = "read"
      BY <1>1, <1>4, <2>3
    <3>2. Phase(k, s)' = "read"
      BY <1>2, <1>4, <2>3
    <3> QED BY <3>1, <3>2
  <2> QED BY <2>1, <2>2, <2>3
<1> QED BY <1>3, <1>4

(* The site of a cell is one of its CTA. *)
LEMMA OwnFacts ==
  ASSUME launch \in Launches, rev \in BOOLEAN, Fits, NEW k \in Turns, NEW c \in Cell
  PROVE  LET s == OwnSite(k, c) IN
         /\ s[1] \in Cta /\ s[2] \in Nat /\ s[2] > 0 /\ s[2] <= Len(map[s[1]][Order(k)]) /\ s = <<s[1], s[2]>>
         /\ s[2] \in DOMAIN map[s[1]][Order(k)] /\ Len(map[s[1]][Order(k)]) \in Nat
         /\ k \in Nat /\ k < Stages /\ Stages \in {2, 4}
<1> DEFINE s == OwnSite(k, c)
<1>1. s \in Sites(Order(k))
  BY SiteFacts DEF Fits
<1> HIDE DEF s
<1>2. s[1] \in Cta /\ s[2] \in DOMAIN map[s[1]][Order(k)] /\ s = <<s[1], s[2]>>
  BY <1>1, SiteFacts DEF Fits
<1>3. map[s[1]][Order(k)] \in Seq(Operations)
  BY <1>2, OrderFacts, LaunchType
<1>4. k \in Nat /\ k < Stages /\ Stages \in {2, 4}
  BY OrderFacts DEF Turns, Upto
<1> QED BY <1>2, <1>3, <1>4 DEF s

(* What a worker with a CTA is sure of. *)
LEMMA WorkFacts ==
  ASSUME launch \in Launches, rev \in BOOLEAN, Sched, NEW p \in Worker, cta[p] # None
  PROVE  /\ cta[p] \in Cta /\ turn[p] \in Nat /\ turn[p] < Stages /\ pos[p] \in Nat /\ round \in Nat
         /\ Len(map[cta[p]][Z(p)]) \in Nat /\ DOMAIN map[cta[p]][Z(p)] = 1 .. Len(map[cta[p]][Z(p)])
         /\ AtWork(p) <=> pos[p] <= Len(map[cta[p]][Z(p)])
         /\ ~StageJoin => round = 0
         /\ Employed(p)
<1>1. cta[p] \in Cta /\ turn[p] \in Turns /\ pos[p] \in Nat /\ Employed(p) /\ round \in 0 .. Rounds - 1
  BY DEF Sched
<1>2. map[cta[p]][Z(p)] \in Seq(Operations)
  BY <1>1, OrderFacts, LaunchType DEF Z
<1>3. turn[p] \in Nat /\ turn[p] < Stages
  BY <1>1, OrderFacts DEF Turns, Upto
<1>4. round \in Nat /\ (~StageJoin => round = 0)
  BY <1>1, OrderFacts DEF Rounds
<1> QED BY <1>1, <1>2, <1>3, <1>4 DEF AtWork, Employed

(* A step within an operation moves the phase of that one. *)
LEMMA MicroStep ==
  ASSUME launch \in Launches, rev \in BOOLEAN, Fits, Sched, NEW p \in Worker, AtWork(p), NEW m \in Micros(Op(p).kind),
         launch' = launch, rev' = rev, round' = round, left' = left, cta' = cta, turn' = turn, pos' = pos, main' = main,
         DOMAIN micro' = Worker, \A q \in Worker : micro'[q] = IF q = p THEN m ELSE micro[q]
  PROVE  /\ Sched'
         /\ \A k \in Turns, c \in Cell : PhaseOf(k, c)' = IF k = turn[p] /\ c = X(p) THEN m ELSE PhaseOf(k, c)
<1>1. /\ Stages' = Stages /\ map' = map /\ Cta' = Cta /\ StageJoin' = StageJoin /\ Rounds' = Rounds /\ Turns' = Turns
      /\ \A k : Order(k)' = Order(k)
  BY Steady
<1>2. \A q : Z(q)' = Z(q) /\ Op(q)' = Op(q) /\ (AtWork(q)' <=> AtWork(q))
  BY <1>1 DEF Z, Op, AtWork
<1>3. ASSUME NEW q \in Worker, cta[q] # None PROVE Employed(q)'
  <2>1. Employed(q)
    BY <1>3 DEF Sched
  <2>2. CASE q = p
    BY <1>1, <1>2, <2>1, <2>2 DEF Employed, Sched
  <2>3. CASE q # p
    BY <1>1, <1>2, <2>1, <2>3 DEF Employed, Sched
  <2> QED BY <2>2, <2>3
<1>4. Sched'
  <2>1. main' = "returned" => Finished'
    BY <1>1 DEF Sched, Finished
  <2> QED BY <1>1, <1>3, <2>1 DEF Sched
<1>5. \A k, s : (Past(k, s)' <=> Past(k, s)) /\ \A q : Here(q, k, s)' <=> Here(q, k, s)
  BY <1>1 DEF Past, Here
<1> DEFINE t == <<cta[p], pos[p]>>
<1>6. t[1] = cta[p] /\ t[2] = pos[p] /\ OwnSite(turn[p], X(p)) = t /\ ~Past(turn[p], t) /\ X(p) \in Cell
      /\ turn[p] \in Turns /\ OpAt(Order(turn[p]), t).cell = X(p)
  BY AtWorkFacts DEF Z, X
<1>7. \A k, c : OwnSite(k, c)' = OwnSite(k, c)
  BY Steady
<1>8. \A q \in Worker : cta[q] = cta[p] => q = p
  <2>1. Employed(p)
    BY DEF AtWork, Sched
  <2> QED BY <2>1 DEF Employed
<1> HIDE DEF t
<1>9. ASSUME NEW k \in Turns, NEW c \in Cell, k = turn[p], c = X(p) PROVE PhaseOf(k, c)' = m
  <2>1. AtMicro' /\ AtWork(p)'
    BY <1>2, <1>4, AtMicroNext, Steady
  <2>2. X(p)' = X(p) /\ micro'[p] = m
    BY <1>2 DEF X, Sched
  <2> QED BY <1>9, <2>1, <2>2 DEF AtMicro
<1>10. ASSUME NEW k \in Turns, NEW c \in Cell, ~(k = turn[p] /\ c = X(p)) PROVE PhaseOf(k, c)' = PhaseOf(k, c)
  <2>0. PICK s : s = OwnSite(k, c)
    OBVIOUS
  <2>1. s[1] \in Cta /\ s = <<s[1], s[2]>> /\ OpAt(Order(k), s).cell = c
    BY <2>0, OwnFacts, SiteFacts DEF Fits
  <2>2. ~Here(p, k, s)
    <3> SUFFICES ASSUME Here(p, k, s) PROVE FALSE
      OBVIOUS
    <3>1. k = turn[p] /\ s = t
      BY <2>1, <1>6 DEF Here, t
    <3> QED BY <1>6, <1>10, <2>1, <3>1
  <2>3. ASSUME NEW q, Here(q, k, s) PROVE micro'[q] = micro[q]
    BY <2>2, <2>3 DEF Here, Sched
  <2>4. Phase(k, s)' = Phase(k, s)
    <3>1. (Past(k, s)' <=> Past(k, s)) /\ \A q : Here(q, k, s)' <=> Here(q, k, s)
      BY <1>5
    <3>2. \A q : /\ Here(q, k, s) /\ micro[q] # "read" => Here(q, k, s)' /\ micro'[q] = micro[q]
                 /\ Here(q, k, s)' /\ micro'[q] # "read" => Here(q, k, s) /\ micro'[q] = micro[q]
      BY <2>3, <3>1
    <3> QED BY <1>4, <2>1, <3>1, <3>2, PhaseSame
  <2> QED BY <1>7, <2>0, <2>4 DEF PhaseOf
<1>11. ASSUME NEW k \in Turns, NEW c \in Cell
       PROVE  PhaseOf(k, c)' = IF k = turn[p] /\ c = X(p) THEN m ELSE PhaseOf(k, c)
  <2>1. CASE k = turn[p] /\ c = X(p)
    BY <1>9, <2>1
  <2>2. CASE ~(k = turn[p] /\ c = X(p))
    BY <1>10, <2>2
  <2> QED BY <2>1, <2>2
<1> QED BY <1>4, <1>11


(* The last step of an operation finishes that one. *)
LEMMA AdvanceStep ==
  ASSUME launch \in Launches, rev \in BOOLEAN, Fits, Sched, NEW p \in Worker, AtWork(p),
         launch' = launch, rev' = rev, round' = round, left' = left, cta' = cta, turn' = turn, main' = main,
         pos' = [pos EXCEPT ![p] = @ + 1], micro' = [micro EXCEPT ![p] = "read"]
  PROVE  /\ Sched'
         /\ \A k \in Turns, c \in Cell : PhaseOf(k, c)' = IF k = turn[p] /\ c = X(p) THEN "after" ELSE PhaseOf(k, c)
<1>1. /\ Stages' = Stages /\ map' = map /\ Cta' = Cta /\ StageJoin' = StageJoin /\ Rounds' = Rounds /\ Turns' = Turns
      /\ \A k : Order(k)' = Order(k)
  BY Steady
<1>2. \A q : Z(q)' = Z(q)
  BY <1>1 DEF Z
<1>3. cta[p] # None /\ Employed(p) /\ pos[p] \in Nat /\ Len(map[cta[p]][Z(p)]) \in Nat /\ pos[p] <= Len(map[cta[p]][Z(p)])
  BY WorkFacts DEF AtWork
<1>4. pos'[p] = pos[p] + 1 /\ micro'[p] = "read" /\ \A q \in Worker : q # p => pos'[q] = pos[q] /\ micro'[q] = micro[q]
  BY DEF Sched
<1>5. ASSUME NEW q \in Worker, cta[q] # None PROVE Employed(q)'
  <2>1. Employed(q)
    BY <1>5 DEF Sched
  <2>2. CASE q = p
    <3>1. micro'[p] \in Micros(Op(p)'.kind)
      BY <1>4 DEF Micros
    <3> QED BY <1>1, <1>2, <1>3, <1>4, <2>1, <2>2, <3>1 DEF Employed
  <2>3. CASE q # p
    <3>1. Op(q)' = Op(q) /\ (AtWork(q)' <=> AtWork(q))
      BY <1>1, <1>2, <1>4, <2>3 DEF Op, AtWork
    <3> QED BY <1>1, <1>2, <1>4, <2>1, <2>3, <3>1 DEF Employed
  <2> QED BY <2>2, <2>3
<1>6. Sched'
  <2>1. main' = "returned" => Finished'
    BY <1>1 DEF Sched, Finished
  <2>2. pos' \in [Worker -> Nat]
    BY <1>3 DEF Sched
  <2> QED BY <1>1, <1>5, <2>1, <2>2 DEF Sched
<1>7. \A k, c : OwnSite(k, c)' = OwnSite(k, c)
  BY Steady
<1>8. PICK t : t = <<cta[p], pos[p]>>
  OBVIOUS
<1>9. /\ t[1] = cta[p] /\ t[2] = pos[p] /\ OwnSite(turn[p], X(p)) = t /\ X(p) \in Cell
      /\ turn[p] \in Turns /\ OpAt(Order(turn[p]), t).cell = X(p)
  BY <1>8, AtWorkFacts DEF Z, X
<1>10. \A q \in Worker : cta[q] = cta[p] => q = p
  BY <1>3 DEF Employed
<1>11. turn[p] \in Int /\ cta[p] \notin left /\ (StageJoin => turn[p] = round)
  BY <1>3, WorkFacts DEF Employed
<1>12. ASSUME NEW k \in Turns, NEW c \in Cell, k = turn[p], c = X(p) PROVE PhaseOf(k, c)' = "after"
  <2>1. OwnSite(k, c) = t
    BY <1>9, <1>12
  <2>2. Past(k, t)'
    <3>1. t[1] \notin left' /\ (StageJoin' => k = round')
      BY <1>1, <1>9, <1>11, <1>12
    <3>2. ASSUME NEW q \in Worker, cta'[q] = t[1] PROVE turn'[q] = k /\ pos'[q] > t[2]
      <4>1. q = p
        BY <1>9, <1>10, <3>2
      <4> QED BY <1>3, <1>4, <1>9, <1>12, <4>1
    <3> QED BY <3>1, <3>2 DEF Past
  <2>3. Phase(k, t)' = "after"
    BY <1>6, <2>2, PhaseMeaningNext DEF PhaseMeans
  <2> QED BY <1>7, <2>1, <2>3 DEF PhaseOf
<1>13. ASSUME NEW k \in Turns, NEW c \in Cell, ~(k = turn[p] /\ c = X(p)) PROVE PhaseOf(k, c)' = PhaseOf(k, c)
  <2>0. PICK s : s = OwnSite(k, c)
    OBVIOUS
  <2>1. s[1] \in Cta /\ s = <<s[1], s[2]>> /\ s[2] \in Nat /\ OpAt(Order(k), s).cell = c
    BY <2>0, OwnFacts, SiteFacts DEF Fits
  <2>2. ~Here(p, k, s)
    <3> SUFFICES ASSUME Here(p, k, s) PROVE FALSE
      OBVIOUS
    <3>1. k = turn[p] /\ s = t
      BY <1>8, <2>1 DEF Here
    <3> QED BY <1>9, <1>13, <2>1, <3>1
  <2>3. Past(k, s)' <=> Past(k, s)
    <3>1. ASSUME NEW q \in Worker, cta[q] = s[1]
          PROVE  turn[q] = k /\ pos'[q] > s[2] <=> turn[q] = k /\ pos[q] > s[2]
      <4>1. CASE q = p
        <5>1. turn[p] = k => pos[p] # s[2]
          BY <2>2, <3>1, <4>1 DEF Here
        <5> QED BY <1>3, <1>4, <2>1, <4>1, <5>1
      <4>2. CASE q # p
        BY <1>4, <4>2
      <4> QED BY <4>1, <4>2
    <3> QED BY <1>1, <3>1 DEF Past
  <2>4. Phase(k, s)' = Phase(k, s)
    <3>1. \A q : /\ Here(q, k, s) /\ micro[q] # "read" => Here(q, k, s)' /\ micro'[q] = micro[q]
                 /\ Here(q, k, s)' /\ micro'[q] # "read" => Here(q, k, s) /\ micro'[q] = micro[q]
      <4> SUFFICES ASSUME NEW q
                   PROVE  /\ Here(q, k, s) /\ micro[q] # "read" => Here(q, k, s)' /\ micro'[q] = micro[q]
                          /\ Here(q, k, s)' /\ micro'[q] # "read" => Here(q, k, s) /\ micro'[q] = micro[q]
        OBVIOUS
      <4>1. CASE q = p
        BY <1>4, <2>2, <4>1
      <4>2. CASE q # p
        BY <1>4, <4>2 DEF Here
      <4> QED BY <4>1, <4>2
    <3> QED BY <1>6, <2>1, <2>3, <3>1, PhaseSame
  <2> QED BY <1>7, <2>0, <2>4 DEF PhaseOf
<1>14. ASSUME NEW k \in Turns, NEW c \in Cell
       PROVE  PhaseOf(k, c)' = IF k = turn[p] /\ c = X(p) THEN "after" ELSE PhaseOf(k, c)
  <2>1. CASE k = turn[p] /\ c = X(p)
    BY <1>12, <2>1
  <2>2. CASE ~(k = turn[p] /\ c = X(p))
    BY <1>13, <2>2
  <2> QED BY <2>1, <2>2
<1> QED BY <1>6, <1>14

(* Taking a ticket begins no operation. *)
LEMMA ClaimStep ==
  ASSUME launch \in Launches, rev \in BOOLEAN, Fits, Sched, NEW p \in Worker, Claim(p)
  PROVE  Sched' /\ \A k \in Turns, c \in Cell : PhaseOf(k, c)' = PhaseOf(k, c)
<1>0. PICK d \in left : cta' = [cta EXCEPT ![p] = d] /\ left' = left \ {d}
  BY DEF Claim
<1>1. /\ cta[p] = None /\ launch' = launch /\ rev' = rev /\ round' = round /\ main' = main /\ main = "run"
      /\ turn' = [turn EXCEPT ![p] = round] /\ pos' = [pos EXCEPT ![p] = 1] /\ micro' = [micro EXCEPT ![p] = "read"]
  BY DEF Claim, asked
<1>2. /\ Stages' = Stages /\ map' = map /\ Cta' = Cta /\ StageJoin' = StageJoin /\ Rounds' = Rounds /\ Turns' = Turns
      /\ \A k : Order(k)' = Order(k)
  BY <1>1, Steady
<1>3. d \in Cta /\ d # None /\ round \in Turns
  <2>1. round \in 0 .. Rounds - 1 /\ Rounds \in {1, Stages} /\ Stages \in {2, 4}
    BY OrderFacts DEF Sched, Rounds
  <2> QED BY <2>1, LaunchType DEF Sched, Turns, Upto
<1>4. /\ cta'[p] = d /\ turn'[p] = round /\ pos'[p] = 1 /\ micro'[p] = "read"
      /\ \A q \in Worker : q # p => cta'[q] = cta[q] /\ turn'[q] = turn[q] /\ pos'[q] = pos[q] /\ micro'[q] = micro[q]
  BY <1>0, <1>1 DEF Sched
<1>5. \A q \in Worker : cta[q] # None => cta[q] # d
  BY DEF Sched, Employed
<1>6. ASSUME NEW q \in Worker, cta'[q] # None PROVE Employed(q)'
  <2>1. CASE q = p
    <3>1. micro'[p] \in Micros(Op(p)'.kind)
      BY <1>4 DEF Micros
    <3>2. Z(p)' = Order(round)
      BY <1>2, <1>4 DEF Z
    <3>3. map[d][Order(round)] \in Seq(Operations)
      BY <1>3, OrderFacts, LaunchType
    <3>4. Len(map[d][Order(round)]) \in Nat
      BY <3>3
    <3>5. \A r \in Worker : cta'[r] = d => r = p
      BY <1>3, <1>4, <1>5
    <3> QED BY <1>0, <1>1, <1>2, <1>4, <2>1, <3>1, <3>2, <3>4, <3>5 DEF Employed
  <2>2. CASE q # p
    <3>1. Z(q)' = Z(q) /\ Op(q)' = Op(q) /\ (AtWork(q)' <=> AtWork(q))
      BY <1>2, <1>4, <2>2 DEF Z, Op, AtWork
    <3>2. Employed(q)
      BY <1>4, <1>6, <2>2 DEF Sched
    <3>3. \A r \in Worker : cta'[r] = cta'[q] => r = q
      BY <1>4, <1>5, <1>6, <2>2, <3>2 DEF Employed
    <3> QED BY <1>0, <1>1, <1>2, <1>4, <2>2, <3>1, <3>2, <3>3 DEF Employed
  <2> QED BY <2>1, <2>2
<1>7. Sched'
  <2>1. cta' \in [Worker -> Cta \cup {None}] /\ turn' \in [Worker -> Turns] /\ pos' \in [Worker -> Nat] /\ DOMAIN micro' = Worker
    BY <1>0, <1>1, <1>3 DEF Sched
  <2>2. left' \subseteq Cta /\ main' # "returned"
    BY <1>0, <1>1 DEF Sched
  <2> QED BY <1>1, <1>2, <1>6, <2>1, <2>2 DEF Sched
<1>8. ASSUME NEW k \in Turns, NEW c \in Cell PROVE PhaseOf(k, c)' = PhaseOf(k, c)
  <2>0. PICK s : s = OwnSite(k, c)
    OBVIOUS
  <2>1. s[1] \in Cta /\ s[1] # None /\ s[2] \in Nat /\ s[2] > 0 /\ k \in Nat
    BY <2>0, OwnFacts, LaunchType
  <2>2. Past(k, s)' <=> Past(k, s)
    <3>1. CASE s[1] = d
      <4>1. Past(k, s) <=> k < round
        BY <3>1 DEF Past
      <4>2. ~(1 > s[2]) /\ (k < round => ~(round = k)) /\ (round > k <=> k < round)
        BY <1>3, <2>1 DEF Sched
      <4>3. Past(k, s)' => k < round
        <5>1. ASSUME Past(k, s)', ~(k < round) PROVE FALSE
          <6>1. turn'[p] > k \/ (turn'[p] = k /\ pos'[p] > s[2])
            BY <1>1, <1>4, <3>1, <5>1 DEF Past
          <6> QED BY <1>4, <4>2, <5>1, <6>1
        <5> QED BY <5>1
      <4>4. k < round => Past(k, s)'
        BY <1>1 DEF Past
      <4> QED BY <4>1, <4>3, <4>4
    <3>2. CASE s[1] # d
      <4>1. s[1] \in left' <=> s[1] \in left
        BY <1>0, <3>2
      <4>2. \A q \in Worker : (cta'[q] = s[1] <=> cta[q] = s[1])
                              /\ (cta[q] = s[1] => turn'[q] = turn[q] /\ pos'[q] = pos[q])
        BY <1>1, <1>4, <2>1, <3>2
      <4> QED BY <1>1, <1>2, <4>1, <4>2 DEF Past
    <3> QED BY <3>1, <3>2
  <2>3. Phase(k, s)' = Phase(k, s)
    <3>1. \A q : /\ Here(q, k, s) /\ micro[q] # "read" => Here(q, k, s)' /\ micro'[q] = micro[q]
                 /\ Here(q, k, s)' /\ micro'[q] # "read" => Here(q, k, s) /\ micro'[q] = micro[q]
      <4> SUFFICES ASSUME NEW q
                   PROVE  /\ Here(q, k, s) /\ micro[q] # "read" => Here(q, k, s)' /\ micro'[q] = micro[q]
                          /\ Here(q, k, s)' /\ micro'[q] # "read" => Here(q, k, s) /\ micro'[q] = micro[q]
        OBVIOUS
      <4>1. CASE q = p
        BY <1>1, <1>4, <2>1, <4>1 DEF Here
      <4>2. CASE q # p
        BY <1>4, <4>2 DEF Here
      <4> QED BY <4>1, <4>2
    <3> QED BY <1>1, <1>7, <2>1, <2>2, <3>1, PhaseSame
  <2>4. OwnSite(k, c)' = OwnSite(k, c)
    BY <1>1, Steady
  <2> QED BY <2>0, <2>3, <2>4 DEF PhaseOf
<1> QED BY <1>7, <1>8


(* Ending a stage begins no operation and undoes none. *)
LEMMA StageEndStep ==
  ASSUME launch \in Launches, rev \in BOOLEAN, Fits, Sched, NEW p \in Worker, StageEnd(p)
  PROVE  Sched' /\ \A k \in Turns, c \in Cell : PhaseOf(k, c)' = PhaseOf(k, c)
<1>1. /\ cta[p] # None /\ pos[p] > Len(map[cta[p]][Z(p)])
      /\ launch' = launch /\ rev' = rev /\ round' = round /\ left' = left /\ micro' = micro /\ main' = main /\ main = "run"
  BY DEF StageEnd, asked
<1>2. /\ Stages' = Stages /\ map' = map /\ Cta' = Cta /\ StageJoin' = StageJoin /\ Rounds' = Rounds /\ Turns' = Turns
      /\ \A k : Order(k)' = Order(k)
  BY <1>1, Steady
<1>3. /\ cta[p] \in Cta /\ turn[p] \in Nat /\ turn[p] < Stages /\ pos[p] \in Nat /\ round \in Nat /\ Stages \in {2, 4}
      /\ Len(map[cta[p]][Z(p)]) \in Nat /\ ~AtWork(p) /\ (~StageJoin => round = 0)
      /\ cta[p] \notin left /\ (StageJoin => turn[p] = round) /\ micro[p] = "read"
      /\ \A q \in Worker : cta[q] = cta[p] => q = p
  BY <1>1, WorkFacts, LaunchType DEF Employed
<1>4. \A q \in Worker : q # p => cta'[q] = cta[q] /\ turn'[q] = turn[q] /\ pos'[q] = pos[q]
  BY DEF StageEnd, Sched
<1>5. \/ cta'[p] = None /\ cta' = [cta EXCEPT ![p] = None] /\ turn' = turn /\ pos' = pos /\ (StageJoin \/ turn[p] + 1 = Stages)
      \/ /\ cta' = cta /\ turn' = [turn EXCEPT ![p] = @ + 1] /\ pos' = [pos EXCEPT ![p] = 1]
         /\ turn'[p] = turn[p] + 1 /\ pos'[p] = 1 /\ ~StageJoin /\ turn[p] + 1 < Stages
  BY <1>3 DEF StageEnd, Sched
<1>6. ASSUME NEW q \in Worker, cta'[q] # None PROVE Employed(q)'
  <2>1. CASE q = p
    <3>1. cta' = cta /\ turn'[p] = turn[p] + 1 /\ pos'[p] = 1 /\ ~StageJoin /\ turn[p] + 1 < Stages
      BY <1>5, <1>6, <2>1
    <3>2. micro'[p] \in Micros(Op(p)'.kind) /\ micro'[p] = "read"
      BY <1>1, <1>3 DEF Micros
    <3>3. Z(p)' = Order(turn[p] + 1) /\ turn[p] + 1 \in Turns
      BY <1>2, <1>3, <3>1 DEF Z, Turns, Upto
    <3>4. map[cta[p]][Order(turn[p] + 1)] \in Seq(Operations)
      BY <1>3, <3>3, OrderFacts, LaunchType
    <3>5. Len(map[cta[p]][Order(turn[p] + 1)]) \in Nat
      BY <3>4
    <3> QED BY <1>1, <1>2, <1>3, <2>1, <3>1, <3>2, <3>3, <3>5 DEF Employed
  <2>2. CASE q # p
    <3>1. Z(q)' = Z(q) /\ Op(q)' = Op(q) /\ (AtWork(q)' <=> AtWork(q))
      BY <1>2, <1>4, <2>2 DEF Z, Op, AtWork
    <3>2. Employed(q)
      BY <1>4, <1>6, <2>2 DEF Sched
    <3>3. \A r \in Worker : cta'[r] = cta'[q] => r = q
      BY <1>4, <1>5, <1>6, <2>2, <3>2 DEF Employed
    <3> QED BY <1>1, <1>2, <1>4, <2>2, <3>1, <3>2, <3>3 DEF Employed
  <2> QED BY <2>1, <2>2
<1>7. Sched'
  <2>1. cta' \in [Worker -> Cta \cup {None}] /\ turn' \in [Worker -> Turns] /\ pos' \in [Worker -> Nat] /\ DOMAIN micro' = Worker
    <3>1. CASE cta' = [cta EXCEPT ![p] = None] /\ turn' = turn /\ pos' = pos
      BY <1>1, <3>1 DEF Sched
    <3>2. CASE cta' = cta /\ turn' = [turn EXCEPT ![p] = @ + 1] /\ pos' = [pos EXCEPT ![p] = 1] /\ turn[p] + 1 < Stages
      <4>1. turn[p] + 1 \in Turns
        BY <1>3, <3>2 DEF Turns, Upto
      <4> QED BY <1>1, <3>2, <4>1 DEF Sched
    <3> QED BY <1>5, <3>1, <3>2
  <2> QED BY <1>1, <1>2, <1>6, <2>1 DEF Sched
<1>8. ASSUME NEW k \in Turns, NEW c \in Cell PROVE PhaseOf(k, c)' = PhaseOf(k, c)
  <2>0. PICK s : s = OwnSite(k, c)
    OBVIOUS
  <2>1. s[1] \in Cta /\ s[1] # None /\ s[2] \in Nat /\ s[2] > 0 /\ k \in Nat /\ k < Stages
        /\ s[2] <= Len(map[s[1]][Order(k)])
    BY <2>0, OwnFacts, LaunchType
  <2>2. Past(k, s)' <=> Past(k, s)
    <3>1. CASE s[1] = cta[p]
      <4>0. turn[p] = k => pos[p] > s[2]
        BY <1>1, <1>3, <2>1, <3>1 DEF Z
      <4>1. Past(k, s) <=> k < round \/ ((StageJoin => k = round) /\ turn[p] >= k)
        BY <1>3, <2>1, <3>1, <4>0 DEF Past
      <4>2. CASE cta' = cta /\ turn'[p] = turn[p] + 1 /\ pos'[p] = 1
        <5>1. Past(k, s)' <=> k < round \/ ((StageJoin => k = round) /\ (turn[p] + 1 > k \/ (turn[p] + 1 = k /\ 1 > s[2])))
          BY <1>1, <1>2, <1>3, <3>1, <4>2 DEF Past
        <5> QED BY <1>3, <2>1, <4>1, <5>1
      <4>3. CASE cta'[p] = None /\ cta' = [cta EXCEPT ![p] = None] /\ (StageJoin \/ turn[p] + 1 = Stages)
        <5>1. \A q \in Worker : cta'[q] # s[1]
          BY <1>3, <1>4, <2>1, <3>1, <4>3
        <5>2. Past(k, s)' <=> k < round \/ (StageJoin => k = round)
          BY <1>1, <1>2, <1>3, <3>1, <5>1 DEF Past
        <5>3. (StageJoin => k = round) => turn[p] >= k
          BY <1>3, <2>1, <4>3
        <5> QED BY <4>1, <5>2, <5>3
      <4> QED BY <1>5, <4>2, <4>3
    <3>2. CASE s[1] # cta[p]
      <4>1. \A q \in Worker : (cta'[q] = s[1] <=> cta[q] = s[1])
                              /\ (cta[q] = s[1] => turn'[q] = turn[q] /\ pos'[q] = pos[q])
        BY <1>4, <1>5, <2>1, <3>2
      <4> QED BY <1>1, <1>2, <4>1 DEF Past
    <3> QED BY <3>1, <3>2
  <2>3. Phase(k, s)' = Phase(k, s)
    <3>1. \A q : /\ Here(q, k, s) /\ micro[q] # "read" => Here(q, k, s)' /\ micro'[q] = micro[q]
                 /\ Here(q, k, s)' /\ micro'[q] # "read" => Here(q, k, s) /\ micro'[q] = micro[q]
      <4> SUFFICES ASSUME NEW q
                   PROVE  /\ Here(q, k, s) /\ micro[q] # "read" => Here(q, k, s)' /\ micro'[q] = micro[q]
                          /\ Here(q, k, s)' /\ micro'[q] # "read" => Here(q, k, s) /\ micro'[q] = micro[q]
        OBVIOUS
      <4>1. CASE q = p
        BY <1>1, <1>3, <4>1
      <4>2. CASE q # p
        BY <1>1, <1>4, <4>2 DEF Here
      <4> QED BY <4>1, <4>2
    <3> QED BY <1>1, <1>7, <2>1, <2>2, <3>1, PhaseSame
  <2>4. OwnSite(k, c)' = OwnSite(k, c)
    BY <1>1, Steady
  <2> QED BY <2>0, <2>3, <2>4 DEF PhaseOf
<1> QED BY <1>7, <1>8

(* Nor does a join. *)
LEMMA JoinStep ==
  ASSUME launch \in Launches, rev \in BOOLEAN, Fits, Sched, ~failed, Join
  PROVE  Sched' /\ \A k \in Turns, c \in Cell : PhaseOf(k, c)' = PhaseOf(k, c)
<1>1. /\ launch' = launch /\ rev' = rev /\ main = "run" /\ left = {} /\ \A q \in Worker : cta[q] = None
      /\ cta' = cta /\ turn' = turn /\ pos' = pos /\ micro' = micro
      /\ \/ round + 1 < Rounds /\ round' = round + 1 /\ left' = Cta /\ main' = main
         \/ ~(round + 1 < Rounds) /\ round' = round /\ left' = left
  BY DEF Join, asked, private
<1>2. /\ Stages' = Stages /\ map' = map /\ Cta' = Cta /\ StageJoin' = StageJoin /\ Rounds' = Rounds /\ Turns' = Turns
      /\ \A k : Order(k)' = Order(k)
  BY <1>1, Steady
<1>3. round \in Nat /\ Rounds \in Nat /\ round + 1 <= Rounds /\ (~StageJoin => Rounds = 1)
  BY LaunchType DEF Sched, Rounds
<1>4. Sched'
  <2>1. left' \subseteq Cta /\ round' \in 0 .. Rounds - 1
    BY <1>1, <1>3 DEF Sched
  <2>2. main' = "returned" => Finished'
    BY <1>1, <1>2, <1>3 DEF Finished
  <2>3. \A q \in Worker : cta'[q] = None
    BY <1>1
  <2> QED BY <1>1, <1>2, <2>1, <2>2, <2>3 DEF Sched
<1>5. ASSUME NEW k \in Turns, NEW c \in Cell PROVE PhaseOf(k, c)' = PhaseOf(k, c)
  <2>0. PICK s : s = OwnSite(k, c)
    OBVIOUS
  <2>1. s[1] \in Cta /\ s[1] # None /\ k \in Nat
    BY <2>0, OwnFacts, LaunchType
  <2>2. Past(k, s)' <=> Past(k, s)
    <3>1. Past(k, s) <=> k < round \/ (StageJoin => k = round)
      BY <1>1, <2>1 DEF Past
    <3>2. CASE round' = round /\ left' = left
      BY <1>1, <1>2, <3>2 DEF Past
    <3>3. CASE round + 1 < Rounds /\ round' = round + 1 /\ left' = Cta
      <4>1. Past(k, s)' <=> k < round + 1
        BY <2>1, <3>3 DEF Past
      <4> QED BY <1>3, <2>1, <3>1, <3>3, <4>1
    <3> QED BY <1>1, <3>2, <3>3
  <2>3. \A q : ~Here(q, k, s) /\ ~Here(q, k, s)'
    BY <1>1, <2>1 DEF Here
  <2>4. Phase(k, s)' = Phase(k, s)
    BY <1>1, <1>4, <2>1, <2>2, <2>3, PhaseSame
  <2>5. OwnSite(k, c)' = OwnSite(k, c)
    BY <1>1, Steady
  <2> QED BY <2>0, <2>4, <2>5 DEF PhaseOf
<1> QED BY <1>4, <1>5

-----------------------------------------------------------------------------
(* What the shared buffer holds. *)

(* A contribution has been added to the cell. *)
Added(k, c) == PhaseOf(k, c) \in (IF k = 0 THEN {"after"} ELSE {"tally", "count", "after"})
AtOp(p, kind) == AtWork(p) /\ Op(p).kind = kind
(* What a worker holds of the shared arrays is still so. *)
Private(p) ==
  /\ (AtOp(p, "init") \/ AtOp(p, "out")) /\ micro[p] = "count" => reg[p] = 0
  /\ AtOp(p, "red") /\ micro[p] = "value" => reg[p] = Partial(X(p), turn[p])
  /\ AtOp(p, "red") /\ micro[p] = "tally" => CountsRed
  /\ AtOp(p, "red") /\ micro[p] = "count" => reg[p] = turn[p] - 1
  /\ IF AtOp(p, "out")
       THEN /\ acc[p] \in Seq(Signeds)
            /\ micro[p] # "read" => Loaded(p)
            /\ \A j \in DOMAIN acc[p] : j \in DOMAIN Op(p).from /\ acc[p][j] = Sum(Op(p).from[j])
       ELSE cta[p] # None => acc[p] = <<>>
Expected(o) == [j \in DOMAIN o.from |-> [Sum(o.from[j]) EXCEPT !.code = NearestE4(HalfUnits(@))]]
(* What each shared cell holds follows from how far its operations are. *)
Shared(c) ==
  /\ written[c] = IF PhaseOf(0, c) \in {"value", "after"} THEN 1 ELSE 0
  /\ cover[c] = IF PhaseOf(Stages - 1, c) \in {"value", "after"} THEN 1 ELSE 0
  /\ CountsRed /\ Stages = 4 =>
       red[c] = IF PhaseOf(2, c) = "after" THEN 2 ELSE IF PhaseOf(1, c) = "after" THEN 1 ELSE 0
  /\ \A k \in Adds : Added(k, c) /\ (k + 1 \in Adds => ~Added(k + 1, c)) => buffer[c] = Partial(c, k + 1)
  /\ PhaseOf(Stages - 1, c) = "after" =>
       output[c] = Expected(OpAt(Stages - 1, OwnSite(Stages - 1, c)))
Shapely == /\ written \in [Cell -> Nat] /\ cover \in [Cell -> Nat] /\ red \in [Cell -> Nat]
           /\ DOMAIN buffer = Cell /\ DOMAIN output = Cell
           /\ DOMAIN reg = Worker /\ DOMAIN acc = Worker
           /\ main \in {"run", "returned"}
Core    == Sched /\ Shapely /\ (\A p \in Worker : Private(p)) /\ \A c \in Cell : Shared(c)
Cause   == \E c \in Cell : TooLarge(c)
Setting == launch \in Launches /\ rev \in BOOLEAN /\ Fits

(* The same for a cell whose t-th operation is at micro-step m, with all   *)
(* earlier ones done and all later ones not begun. *)
Stand(c, t, m) == /\ PhaseOf(t, c) = m
                  /\ \A j \in Turns : (j < t => PhaseOf(j, c) = "after") /\ (j > t => PhaseOf(j, c) = "read")
Amount(t, m)   == IF t # Stages - 1 /\ m \in (IF t = 0 THEN {"after"} ELSE {"tally", "count", "after"}) THEN t + 1 ELSE t
SharedAt(c, t, m) ==
  /\ written[c] = IF t = 0 /\ m \notin {"value", "after"} THEN 0 ELSE 1
  /\ cover[c] = IF t = Stages - 1 /\ m \in {"value", "after"} THEN 1 ELSE 0
  /\ CountsRed /\ Stages = 4 =>
       red[c] = IF t = 3 \/ (t = 2 /\ m = "after") THEN 2 ELSE IF t = 2 \/ (t = 1 /\ m = "after") THEN 1 ELSE 0
  /\ Amount(t, m) > 0 => buffer[c] = Partial(c, Amount(t, m))
  /\ t = Stages - 1 /\ m = "after" => output[c] = Expected(OpAt(Stages - 1, OwnSite(Stages - 1, c)))

(* For such a cell the two say the same. *)
LEMMA SharedIs ==
  launch \in Launches => \A c, m : \A t \in Turns : Stand(c, t, m) => (Shared(c) <=> SharedAt(c, t, m))
<1> SUFFICES ASSUME launch \in Launches, NEW c, NEW m, NEW t \in Turns, Stand(c, t, m)
             PROVE  Shared(c) <=> SharedAt(c, t, m)
  OBVIOUS
<1>1. Stages \in {2, 4} /\ Turns = 0 .. Stages - 1 /\ Adds = 0 .. Stages - 2
  BY LaunchType DEF Turns, Adds, Upto
<1>2. \A k \in Turns : /\ k < t => PhaseOf(k, c) = "after"
                       /\ k = t => PhaseOf(k, c) = m
                       /\ k > t => PhaseOf(k, c) = "read"
  BY DEF Stand
<1>3. \A k \in Adds : Added(k, c) <=> k < Amount(t, m)
  BY <1>1, <1>2 DEF Added, Amount
<1>4. Amount(t, m) \in 0 .. Stages - 1
  BY <1>1 DEF Amount
<1>5. (\A k \in Adds : Added(k, c) /\ (k + 1 \in Adds => ~Added(k + 1, c)) => buffer[c] = Partial(c, k + 1))
        <=> (Amount(t, m) > 0 => buffer[c] = Partial(c, Amount(t, m)))
  <2> PICK n : n = Amount(t, m)
    OBVIOUS
  <2>1. n \in 0 .. Stages - 1 /\ \A k \in Adds : Added(k, c) <=> k < n
    BY <1>3, <1>4
  <2>2. \A k \in Adds : Added(k, c) /\ (k + 1 \in Adds => ~Added(k + 1, c)) <=> n > 0 /\ k = n - 1
    BY <1>1, <2>1
  <2>3. n > 0 => n - 1 \in Adds /\ (n - 1) + 1 = n
    BY <1>1, <2>1
  <2> QED BY <2>2, <2>3
<1>6. (PhaseOf(0, c) \in {"value", "after"}) <=> ~(t = 0 /\ m \notin {"value", "after"})
  BY <1>1, <1>2
<1>7. (PhaseOf(Stages - 1, c) \in {"value", "after"}) <=> t = Stages - 1 /\ m \in {"value", "after"}
  BY <1>1, <1>2
<1>8. PhaseOf(Stages - 1, c) = "after" <=> t = Stages - 1 /\ m = "after"
  BY <1>1, <1>2
<1>9. Stages = 4 => /\ PhaseOf(2, c) = "after" <=> t = 3 \/ (t = 2 /\ m = "after")
                    /\ PhaseOf(1, c) = "after" <=> t \in {2, 3} \/ (t = 1 /\ m = "after")
  BY <1>1, <1>2
<1> QED BY <1>1, <1>5, <1>6, <1>7, <1>8, <1>9 DEF Shared, SharedAt

(* The same after a step. *)
LEMMA SharedIsNext ==
  (launch \in Launches => \A c, m : \A t \in Turns : Stand(c, t, m) => (Shared(c) <=> SharedAt(c, t, m)))'
  BY SharedIs, PTL

-----------------------------------------------------------------------------
(* What stays as it is. *)
SameWorker(q) == /\ cta'[q] = cta[q] /\ turn'[q] = turn[q] /\ pos'[q] = pos[q]
                 /\ micro'[q] = micro[q] /\ reg'[q] = reg[q] /\ acc'[q] = acc[q]
SameCell(c)   == /\ written'[c] = written[c] /\ cover'[c] = cover[c] /\ red'[c] = red[c]
                 /\ buffer'[c] = buffer[c] /\ output'[c] = output[c]
                 /\ \A k \in Turns : PhaseOf(k, c)' = PhaseOf(k, c)

(* A worker that does nothing keeps what it holds. *)
LEMMA PrivateSame ==
  ASSUME launch' = launch, rev' = rev, NEW q, SameWorker(q), Private(q)
  PROVE  Private(q)'
<1>1. /\ map' = map /\ CountsRed' = CountsRed /\ \A k : Order(k)' = Order(k)
      /\ \A c, n : Partial(c, n)' = Partial(c, n)
      /\ \A c : Sum(c)' = Sum(c)
  BY Steady
<1>2. Z(q)' = Z(q)
  BY <1>1 DEF Z, SameWorker
<1>3. Op(q)' = Op(q) /\ X(q)' = X(q) /\ (AtWork(q)' <=> AtWork(q))
  BY <1>1, <1>2 DEF Op, X, AtWork, SameWorker
<1>4. Loaded(q)' <=> Loaded(q)
  BY <1>3 DEF Loaded, SameWorker
<1>5. \A kind : AtOp(q, kind)' <=> AtOp(q, kind)
  BY <1>3 DEF AtOp
<1> QED BY <1>1, <1>3, <1>4, <1>5 DEF Private, SameWorker

(* A cell that nobody touches keeps what it holds. *)
LEMMA SharedSame ==
  ASSUME launch \in Launches, launch' = launch, rev' = rev, NEW c, SameCell(c), Shared(c)
  PROVE  Shared(c)'
<1>1. /\ Stages' = Stages /\ CountsRed' = CountsRed /\ Adds' = Adds
      /\ \A d, n : Partial(d, n)' = Partial(d, n)
      /\ \A d : Sum(d)' = Sum(d)
      /\ \A z, s : OpAt(z, s)' = OpAt(z, s)
      /\ \A k, d : OwnSite(k, d)' = OwnSite(k, d)
  BY Steady
<1>2. \A o : Expected(o)' = Expected(o)
  BY <1>1 DEF Expected
<1>3. Stages \in {2, 4} /\ Turns = 0 .. Stages - 1 /\ Adds = 0 .. Stages - 2
  BY LaunchType DEF Turns, Adds, Upto
<1>4. \A k \in Turns : PhaseOf(k, c)' = PhaseOf(k, c)
  BY DEF SameCell
<1>5. \A k \in Adds : (Added(k, c)' <=> Added(k, c)) /\ (k + 1 \in Adds => (Added(k + 1, c)' <=> Added(k + 1, c)))
  BY <1>3, <1>4 DEF Added
<1>6. PhaseOf(0, c)' = PhaseOf(0, c) /\ PhaseOf(Stages - 1, c)' = PhaseOf(Stages - 1, c)
      /\ (Stages = 4 => PhaseOf(1, c)' = PhaseOf(1, c) /\ PhaseOf(2, c)' = PhaseOf(2, c))
  <2>1. PICK z : z = Stages - 1
    OBVIOUS
  <2>2. z' = Stages' - 1 /\ PhaseOf(z, c)' = PhaseOf(z, c)
    BY <1>1, <1>3, <1>4, <2>1
  <2>3. PhaseOf(Stages - 1, c)' = PhaseOf(Stages - 1, c)
    BY <1>1, <2>1, <2>2
  <2> QED BY <1>3, <1>4, <2>3
<1>7. (\A k \in Adds : Added(k, c) /\ (k + 1 \in Adds => ~Added(k + 1, c)) => buffer[c] = Partial(c, k + 1))'
  BY <1>1, <1>5 DEF Shared, SameCell
<1>8. Expected(OpAt(Stages - 1, OwnSite(Stages - 1, c)))' = Expected(OpAt(Stages - 1, OwnSite(Stages - 1, c)))
  BY <1>1, <1>2
<1> QED BY <1>1, <1>6, <1>7, <1>8 DEF Shared, SameCell

(* A worker that has not read anything yet. *)
LEMMA PrivateFresh == \A q : micro[q] = "read" /\ acc[q] = <<>> => Private(q)
  BY DEF Private
(* The same after a step. *)
LEMMA PrivateFreshNext == (\A q : micro[q] = "read" /\ acc[q] = <<>> => Private(q))'
  BY PrivateFresh, PTL


(* A worker that stays at its operation. *)
LEMMA Still ==
  ASSUME launch' = launch, rev' = rev, NEW q, cta'[q] = cta[q], turn'[q] = turn[q], pos'[q] = pos[q]
  PROVE  /\ Op(q)' = Op(q) /\ X(q)' = X(q) /\ \A kind : AtOp(q, kind)' <=> AtOp(q, kind)
         /\ CountsRed' = CountsRed /\ \A c : Sum(c)' = Sum(c) /\ \A n : Partial(c, n)' = Partial(c, n)
<1>1. /\ map' = map /\ CountsRed' = CountsRed /\ \A k : Order(k)' = Order(k)
      /\ \A c, n : Partial(c, n)' = Partial(c, n)
      /\ \A c : Sum(c)' = Sum(c)
  BY Steady
<1>2. Z(q)' = Z(q)
  BY <1>1 DEF Z
<1>3. Op(q)' = Op(q) /\ X(q)' = X(q) /\ (AtWork(q)' <=> AtWork(q))
  BY <1>1, <1>2 DEF Op, X, AtWork
<1> QED BY <1>1, <1>3 DEF AtOp

(* What a worker at an operation can count on. *)
Footing(p, x, t, kind) ==
  /\ x = X(p) /\ t = turn[p] /\ AtWork(p) /\ Op(p).kind = kind /\ AtOp(p, kind)
  /\ kind = (IF t = 0 THEN "init" ELSE IF t = Stages - 1 THEN "out" ELSE "red")
  /\ Stages \in {2, 4} /\ t \in 0 .. Stages - 1 /\ (kind = "red" => Stages = 4 /\ t \in {1, 2})
  /\ SharedAt(x, t, micro[p])
  /\ t # Stages - 1 => /\ Op(p).dot = Given(x, t + 1) /\ Partial(x, t + 1) \in Signeds
                       /\ Refused(Op(p).dot) \/ Partial(x, t + 1).code = Inf => TooLarge(x)
                       /\ t = 0 => Partial(x, 1) = Dot(Op(p).dot)
                       /\ t # 0 => Partial(x, t + 1) = HalfAdd(Partial(x, t), Dot(Op(p).dot))
  /\ t = Stages - 1 =>
       /\ Op(p) = OpAt(Stages - 1, OwnSite(Stages - 1, x)) /\ Op(p).from \in Seq(Int)
       /\ \A j \in DOMAIN Op(p).from : LET y == Op(p).from[j] IN
            y \in Cell /\ written[y] = 1 /\ buffer[y] = Sum(y) /\ Sum(y) \in Signeds
  /\ Private(p) /\ cta[p] # None

(* A worker at an operation has it. *)
LEMMA FootingFound ==
  ASSUME Setting, Core, NEW p \in Worker, AtWork(p)
  PROVE  \E x \in Cell, t \in Turns : Footing(p, x, t, Op(p).kind)
<1>1. launch \in Launches /\ rev \in BOOLEAN /\ Fits /\ Sched /\ OneOwner
  BY DEF Setting, Core, Fits
<1>2. PICK x, t, s : x = X(p) /\ t = turn[p] /\ s = <<cta[p], pos[p]>>
  OBVIOUS
<1>3. /\ t \in Turns /\ x \in Cell /\ Op(p) = OpAt(Order(t), s) /\ OwnSite(t, x) = s
      /\ Op(p).kind = (IF t = 0 THEN "init" ELSE IF t = Stages - 1 THEN "out" ELSE "red")
      /\ PhaseOf(t, x) = micro[p]
  BY <1>1, <1>2, AtWorkFacts DEF Z
<1>4. x \in ReadBy(Op(p))
  BY <1>2 DEF ReadBy, X
<1>5. Stand(x, t, micro[p])
  <2>1. \A j \in Turns : (j < t => PhaseOf(j, x) = "after") /\ (j > t => PhaseOf(j, x) = "read")
    BY <1>1, <1>2, <1>4, AtWorkFacts
  <2> QED BY <1>3, <2>1 DEF Stand
<1>6. SharedAt(x, t, micro[p])
  BY <1>1, <1>3, <1>5, SharedIs DEF Core
<1>7. Stages \in {2, 4} /\ Turns = 0 .. Stages - 1 /\ Adds = 0 .. Stages - 2
  BY <1>1, LaunchType DEF Turns, Adds, Upto
<1>8. t # Stages - 1 => /\ Op(p).dot = Given(x, t + 1) /\ Partial(x, t + 1) \in Signeds
                        /\ Refused(Op(p).dot) \/ Partial(x, t + 1).code = Inf => TooLarge(x)
                        /\ t = 0 => Partial(x, 1) = Dot(Op(p).dot)
                        /\ t # 0 => Partial(x, t + 1) = HalfAdd(Partial(x, t), Dot(Op(p).dot))
  <2>1. SUFFICES ASSUME t # Stages - 1
                 PROVE  /\ Op(p).dot = Given(x, t + 1) /\ Partial(x, t + 1) \in Signeds
                        /\ Refused(Op(p).dot) \/ Partial(x, t + 1).code = Inf => TooLarge(x)
                        /\ t = 0 => Partial(x, 1) = Dot(Op(p).dot)
                        /\ t # 0 => Partial(x, t + 1) = HalfAdd(Partial(x, t), Dot(Op(p).dot))
    OBVIOUS
  <2>2. t \in Adds
    BY <1>3, <1>7, <2>1
  <2>3. Op(p).dot = Given(x, t + 1)
    BY <1>1, <1>3, <2>2, PartialFacts
  <2> QED BY <1>1, <1>3, <2>2, <2>3, PartialFacts
<1>9. AtOp(p, Op(p).kind) /\ Private(p) /\ cta[p] # None
  BY DEF AtOp, Core, AtWork
<1>10. Op(p).kind = "red" => Stages = 4 /\ t \in {1, 2}
  BY <1>3, <1>7
<1>11. t = Stages - 1 =>
         /\ Op(p) = OpAt(Stages - 1, OwnSite(Stages - 1, x)) /\ Op(p).from \in Seq(Int)
         /\ \A j \in DOMAIN Op(p).from : LET y == Op(p).from[j] IN
              y \in Cell /\ written[y] = 1 /\ buffer[y] = Sum(y) /\ Sum(y) \in Signeds
  <2> SUFFICES ASSUME t = Stages - 1
               PROVE  /\ Op(p) = OpAt(Stages - 1, OwnSite(Stages - 1, x)) /\ Op(p).from \in Seq(Int)
                      /\ \A j \in DOMAIN Op(p).from : LET y == Op(p).from[j] IN
                           y \in Cell /\ written[y] = 1 /\ buffer[y] = Sum(y) /\ Sum(y) \in Signeds
    OBVIOUS
  <2>1. Op(p) = OpAt(Stages - 1, OwnSite(Stages - 1, x)) /\ Op(p).kind = "out" /\ Order(t) = t
    <3>1. Order(t) = Stages - 1
      BY <1>1, OrderFacts
    <3> QED BY <1>3, <1>7, <3>1
  <2>2. Op(p).from \in Seq(Int) /\ \A j \in DOMAIN Op(p).from : Op(p).from[j] \in Cell
    <3>1. s \in Sites(Order(t)) /\ Op(p) = OpAt(Order(t), s)
      BY <1>1, <1>2, AtWorkFacts DEF Z
    <3> QED BY <1>1, <1>3, <3>1, SiteFacts
  <2>3. ASSUME NEW j \in DOMAIN Op(p).from, NEW y \in Cell, y = Op(p).from[j]
        PROVE  written[y] = 1 /\ buffer[y] = Sum(y) /\ Sum(y) \in Signeds
    <3>1. y \in ReadBy(Op(p))
      BY <2>1, <2>3 DEF ReadBy
    <3>2. \A i \in Turns : i < t => PhaseOf(i, y) = "after"
      BY <1>1, <1>2, <3>1, AtWorkFacts
    <3>3. Shared(y) /\ Sum(y) = Partial(y, Stages - 1) /\ Sum(y) \in Signeds
      BY <1>1, PartialFacts DEF Core
    <3>4. PhaseOf(0, y) = "after" /\ PhaseOf(Stages - 2, y) = "after"
      BY <1>7, <3>2
    <3>5. buffer[y] = Partial(y, (Stages - 2) + 1)
      <4>1. Stages - 2 \in Adds /\ ~((Stages - 2) + 1 \in Adds)
        BY <1>7
      <4>2. Added(Stages - 2, y)
        BY <3>4 DEF Added
      <4> QED BY <3>3, <4>1, <4>2 DEF Shared
    <3>6. (Stages - 2) + 1 = Stages - 1
      BY <1>7
    <3> QED BY <3>3, <3>4, <3>5, <3>6 DEF Shared
  <2> QED BY <2>1, <2>2, <2>3
<1>12. Footing(p, x, t, Op(p).kind)
  BY <1>2, <1>3, <1>6, <1>7, <1>8, <1>9, <1>10, <1>11 DEF Footing
<1> QED BY <1>3, <1>12

(* So has a worker of which an action asks where it is. *)
LEMMA Standing ==
  ASSUME Setting, Core, NEW p \in Worker, NEW kind, NEW m, At(p, kind, m)
  PROVE  \E x \in Cell, t \in Turns : Footing(p, x, t, kind) /\ micro[p] = m
<1>1. AtWork(p) /\ Op(p).kind = kind /\ micro[p] = m
  <2>1. launch \in Launches /\ rev \in BOOLEAN /\ Sched /\ cta[p] # None
    BY DEF Setting, Core, At, Busy
  <2> QED BY <2>1, WorkFacts DEF At, Busy
<1> QED BY <1>1, FootingFound

-----------------------------------------------------------------------------
(* SharedAt after a step, in terms of what the step leaves. *)
SharedNew(c, t, m) ==
  /\ written'[c] = IF t = 0 /\ m \notin {"value", "after"} THEN 0 ELSE 1
  /\ cover'[c] = IF t = Stages - 1 /\ m \in {"value", "after"} THEN 1 ELSE 0
  /\ CountsRed /\ Stages = 4 =>
       red'[c] = IF t = 3 \/ (t = 2 /\ m = "after") THEN 2 ELSE IF t = 2 \/ (t = 1 /\ m = "after") THEN 1 ELSE 0
  /\ Amount(t, m) > 0 => buffer'[c] = Partial(c, Amount(t, m))
  /\ t = Stages - 1 /\ m = "after" => output'[c] = Expected(OpAt(Stages - 1, OwnSite(Stages - 1, c)))
(* What the step leaves is what the cell holds then. *)
LEMMA SharedAfter ==
  ASSUME launch' = launch, rev' = rev, NEW c, NEW t, NEW m, SharedNew(c, t, m)
  PROVE  SharedAt(c, t, m)'
<1>1. /\ Stages' = Stages /\ CountsRed' = CountsRed
      /\ \A d, n : Partial(d, n)' = Partial(d, n)
      /\ \A d : Sum(d)' = Sum(d)
      /\ \A z, s : OpAt(z, s)' = OpAt(z, s)
      /\ \A k, d : OwnSite(k, d)' = OwnSite(k, d)
  BY Steady
<1>2. \A o : Expected(o)' = Expected(o)
  BY <1>1 DEF Expected
<1>3. Expected(OpAt(Stages - 1, OwnSite(Stages - 1, c)))' = Expected(OpAt(Stages - 1, OwnSite(Stages - 1, c)))
  BY <1>1, <1>2
<1>4. Amount(t, m)' = Amount(t, m)
  BY <1>1 DEF Amount
<1>5. Partial(c, Amount(t, m))' = Partial(c, Amount(t, m))
  BY <1>1, <1>4
<1> QED BY <1>1, <1>3, <1>4, <1>5 DEF SharedAt, SharedNew

(* A step of one worker at its operation on cell x. *)
SameData(c) == /\ written'[c] = written[c] /\ cover'[c] = cover[c] /\ red'[c] = red[c]
               /\ buffer'[c] = buffer[c] /\ output'[c] = output[c]
(* A step that leaves its own cell and its worker right leaves everything  *)
(* right.                                                                  *)
LEMMA OpStep ==
  ASSUME Setting, Core, NEW p \in Worker, NEW x \in Cell, NEW t \in Turns, NEW m,
         x = X(p), t = turn[p], AtWork(p), launch' = launch, rev' = rev, Sched', Shapely',
         \A k \in Turns, c \in Cell : PhaseOf(k, c)' = IF k = t /\ c = x THEN m ELSE PhaseOf(k, c),
         \A q \in Worker : q # p => SameWorker(q),
         \A c \in Cell : c # x => SameData(c),
         Private(p)', SharedNew(x, t, m)
  PROVE  Core'
<1>1. launch \in Launches /\ rev \in BOOLEAN /\ Fits /\ Sched
  BY DEF Setting, Core
<1>2. Cell' = Cell /\ Turns' = Turns
  BY Steady
<1>3. \A q \in Worker : Private(q)'
  BY PrivateSame DEF Core
<1>4. \A j \in Turns : (j < t => PhaseOf(j, x) = "after") /\ (j > t => PhaseOf(j, x) = "read")
  <2>1. x \in ReadBy(Op(p))
    BY DEF ReadBy, X
  <2> QED BY <1>1, <2>1, AtWorkFacts
<1>5. t \in Int /\ Turns \subseteq Int
  BY OrderFacts, <1>1 DEF Turns, Upto
<1>6. Stand(x, t, m)'
  <2>1. \A j \in Turns : j # t => PhaseOf(j, x)' = PhaseOf(j, x)
    OBVIOUS
  <2>2. \A j \in Turns : (j < t => PhaseOf(j, x)' = "after") /\ (j > t => PhaseOf(j, x)' = "read")
    BY <1>4, <1>5, <2>1
  <2> QED BY <1>2, <2>2 DEF Stand
<1>7. Shared(x)'
  BY <1>1, <1>2, <1>6, SharedAfter, SharedIsNext
<1>8. ASSUME NEW c \in Cell, c # x PROVE Shared(c)'
  <2>1. SameCell(c)
    BY <1>8 DEF SameCell, SameData
  <2> QED BY <1>1, <2>1, SharedSame DEF Core
<1> QED BY <1>2, <1>3, <1>7, <1>8 DEF Core

-----------------------------------------------------------------------------
(* The steps one by one. *)

(* What a step of worker p on cell x leaves alone. *)
Around(p, x) ==
  /\ launch' = launch /\ rev' = rev /\ round' = round /\ left' = left /\ cta' = cta /\ turn' = turn /\ main' = main
  /\ \A q \in Worker : q # p => reg'[q] = reg[q] /\ acc'[q] = acc[q]
  /\ \A c \in Cell : c # x => SameData(c)
  /\ Shapely'

(* A step within an operation. *)
LEMMA MicroKeeps ==
  ASSUME Setting, Core, NEW p \in Worker, NEW x \in Cell, NEW t \in Turns, NEW kind, Footing(p, x, t, kind),
         NEW m \in Micros(kind), Around(p, x), pos' = pos,
         micro' = [micro EXCEPT ![p] = m] \/ (micro' = micro /\ micro[p] = m),
         Private(p)', SharedNew(x, t, m)
  PROVE  Core'
<1>1. launch \in Launches /\ rev \in BOOLEAN /\ Fits /\ Sched /\ AtWork(p) /\ m \in Micros(Op(p).kind)
      /\ x = X(p) /\ t = turn[p] /\ launch' = launch /\ rev' = rev /\ Shapely' /\ \A c \in Cell : c # x => SameData(c)
  BY DEF Setting, Core, Footing, Around
<1>2. Sched' /\ \A k \in Turns, c \in Cell : PhaseOf(k, c)' = IF k = t /\ c = x THEN m ELSE PhaseOf(k, c)
  <2>1. DOMAIN micro' = Worker /\ \A q \in Worker : micro'[q] = IF q = p THEN m ELSE micro[q]
    BY <1>1 DEF Sched
  <2> QED BY <1>1, <2>1, MicroStep DEF Around
<1>3. \A q \in Worker : q # p => SameWorker(q)
  BY <1>1 DEF Around, SameWorker, Sched
<1> QED BY <1>1, <1>2, <1>3, OpStep

(* The last step of an operation. *)
LEMMA AdvanceKeeps ==
  ASSUME Setting, Core, NEW p \in Worker, NEW x \in Cell, NEW t \in Turns, NEW kind, Footing(p, x, t, kind),
         Around(p, x), Advance(p), acc'[p] = <<>>, SharedNew(x, t, "after")
  PROVE  Core'
<1>1. launch \in Launches /\ rev \in BOOLEAN /\ Fits /\ Sched /\ AtWork(p)
      /\ x = X(p) /\ t = turn[p] /\ launch' = launch /\ rev' = rev /\ Shapely' /\ (\A c \in Cell : c # x => SameData(c))
      /\ micro' = [micro EXCEPT ![p] = "read"] /\ pos' = [pos EXCEPT ![p] = @ + 1]
  BY DEF Setting, Core, Footing, Around, Advance
<1>2. Sched' /\ \A k \in Turns, c \in Cell : PhaseOf(k, c)' = IF k = t /\ c = x THEN "after" ELSE PhaseOf(k, c)
  BY <1>1, AdvanceStep DEF Around
<1>3. \A q \in Worker : q # p => SameWorker(q)
  BY <1>1 DEF Around, SameWorker, Sched
<1>4. Private(p)'
  <2>1. micro'[p] = "read"
    BY <1>1 DEF Sched
  <2> QED BY <2>1, PrivateFreshNext
<1> QED BY <1>1, <1>2, <1>3, <1>4, OpStep

(* The outcome of a step. *)
Held  == failed' = failed /\ main' = main /\ Core'
Broke == failed' /\ main' = main /\ Cause

(* The count of a cell is read. *)
LEMMA KeepInitRead == ASSUME Setting, Core, NEW p \in Worker, InitRead(p) PROVE Held
<1>1. PICK x \in Cell, t \in Turns : Footing(p, x, t, "init") /\ micro[p] = "read"
  BY Standing DEF InitRead, Computed
<1>2. t = 0 /\ written[x] = 0 /\ x = X(p) /\ acc[p] = <<>> /\ AtOp(p, "init") /\ ~AtOp(p, "out") /\ ~AtOp(p, "red")
  BY <1>1 DEF Footing, SharedAt, Private, AtOp
<1>3. /\ reg' = [reg EXCEPT ![p] = 0] /\ micro' = [micro EXCEPT ![p] = "count"] /\ pos' = pos
      /\ launch' = launch /\ rev' = rev /\ round' = round /\ left' = left /\ cta' = cta /\ turn' = turn
      /\ acc' = acc /\ written' = written /\ cover' = cover /\ red' = red /\ buffer' = buffer /\ output' = output
      /\ failed' = failed /\ main' = main
  BY <1>2 DEF InitRead, Read, Go, asked, counts
<1>4. Around(p, x)
  <2>1. Shapely'
    BY <1>3, Steady DEF Core, Shapely
  <2> QED BY <1>3, <2>1 DEF Around, SameData, Core, Shapely
<1>5. Private(p)'
  <2>1. reg'[p] = 0 /\ acc'[p] = <<>>
    BY <1>2, <1>3 DEF Core, Shapely
  <2>2. micro'[p] = "count"
    BY <1>3 DEF Core, Sched
  <2> QED BY <1>2, <1>3, <2>1, <2>2, Still DEF Private
<1>6. SharedNew(x, t, "count")
  BY <1>1, <1>2, <1>3 DEF Footing, SharedAt, SharedNew, Amount
<1>7. "count" \in Micros("init")
  BY DEF Micros
<1> QED BY <1>1, <1>3, <1>4, <1>5, <1>6, <1>7, MicroKeeps DEF Held

(* It was zero: nobody else stores the cell. *)
LEMMA KeepInitCount == ASSUME Setting, Core, NEW p \in Worker, InitCount(p) PROVE Held
<1>1. PICK x \in Cell, t \in Turns : Footing(p, x, t, "init") /\ micro[p] = "count"
  BY Standing DEF InitCount
<1>2. t = 0 /\ x = X(p) /\ acc[p] = <<>> /\ AtOp(p, "init") /\ ~AtOp(p, "out") /\ ~AtOp(p, "red") /\ reg[p] = 0
  BY <1>1 DEF Footing, SharedAt, Private, AtOp
<1>3. /\ written' = [written EXCEPT ![x] = 1] /\ micro' = [micro EXCEPT ![p] = "value"] /\ pos' = pos
      /\ launch' = launch /\ rev' = rev /\ round' = round /\ left' = left /\ cta' = cta /\ turn' = turn
      /\ acc' = acc /\ reg' = reg /\ cover' = cover /\ red' = red /\ buffer' = buffer /\ output' = output
      /\ failed' = failed /\ main' = main
  BY <1>2 DEF InitCount, Go, asked
<1>4. Around(p, x)
  <2>1. Shapely'
    BY <1>3, Steady DEF Core, Shapely
  <2>2. \A c \in Cell : c # x => written'[c] = written[c]
    BY <1>3 DEF Core, Shapely
  <2> QED BY <1>3, <2>1, <2>2 DEF Around, SameData
<1>5. Private(p)'
  <2>1. micro'[p] = "value" /\ acc'[p] = <<>>
    BY <1>2, <1>3 DEF Core, Sched
  <2> QED BY <1>2, <1>3, <2>1, Still DEF Private
<1>6. SharedNew(x, t, "value")
  <2>1. written'[x] = 1
    BY <1>3 DEF Core, Shapely
  <2> QED BY <1>1, <1>2, <1>3, <2>1 DEF Footing, SharedAt, SharedNew, Amount
<1>7. "value" \in Micros("init")
  BY DEF Micros
<1> QED BY <1>1, <1>3, <1>4, <1>5, <1>6, <1>7, MicroKeeps DEF Held

(* The cell has its first contribution. *)
LEMMA KeepInitValue == ASSUME Setting, Core, NEW p \in Worker, InitValue(p) PROVE Held
<1>1. PICK x \in Cell, t \in Turns : Footing(p, x, t, "init") /\ micro[p] = "value"
  BY Standing DEF InitValue
<1>2. t = 0 /\ x = X(p) /\ acc[p] = <<>> /\ Contribution(p) = Partial(x, 1)
  BY <1>1 DEF Footing, SharedAt, Private, AtOp, Contribution
<1>3. /\ buffer' = [buffer EXCEPT ![x] = Partial(x, 1)] /\ Advance(p)
      /\ launch' = launch /\ rev' = rev /\ round' = round /\ left' = left /\ cta' = cta /\ turn' = turn
      /\ acc' = acc /\ reg' = reg /\ written' = written /\ cover' = cover /\ red' = red /\ output' = output
      /\ failed' = failed /\ main' = main
  BY <1>2 DEF InitValue, asked, counts
<1>4. Around(p, x)
  <2>1. Shapely'
    BY <1>3, Steady DEF Core, Shapely
  <2>2. \A c \in Cell : c # x => buffer'[c] = buffer[c]
    BY <1>3 DEF Core, Shapely
  <2> QED BY <1>3, <2>1, <2>2 DEF Around, SameData
<1>5. SharedNew(x, t, "after")
  <2>1. buffer'[x] = Partial(x, 1)
    BY <1>3 DEF Core, Shapely
  <2> QED BY <1>1, <1>2, <1>3, <2>1 DEF Footing, SharedAt, SharedNew, Amount
<1>6. acc'[p] = <<>>
  BY <1>2, <1>3
<1> QED BY <1>1, <1>3, <1>4, <1>5, <1>6, AdvanceKeeps DEF Held


(* The buffer is read after the earlier stages of the cell. *)
LEMMA KeepRedRead == ASSUME Setting, Core, NEW p \in Worker, RedRead(p) PROVE Held
<1>1. PICK x \in Cell, t \in Turns : Footing(p, x, t, "red") /\ micro[p] = "read"
  BY Standing DEF RedRead, Computed
<1>2. /\ t \in {1, 2} /\ Stages = 4 /\ written[x] # 0 /\ buffer[x] = Partial(x, t) /\ x = X(p) /\ t = turn[p] /\ acc[p] = <<>>
      /\ AtOp(p, "red") /\ ~AtOp(p, "out") /\ ~AtOp(p, "init")
  BY <1>1 DEF Footing, SharedAt, Private, AtOp, Amount
<1>3. /\ reg' = [reg EXCEPT ![p] = Partial(x, t)] /\ micro' = [micro EXCEPT ![p] = "value"] /\ pos' = pos
      /\ launch' = launch /\ rev' = rev /\ round' = round /\ left' = left /\ cta' = cta /\ turn' = turn
      /\ acc' = acc /\ written' = written /\ cover' = cover /\ red' = red /\ buffer' = buffer /\ output' = output
      /\ failed' = failed /\ main' = main
  BY <1>2 DEF RedRead, Read, Go, asked, counts
<1>4. Around(p, x)
  <2>1. Shapely'
    BY <1>3, Steady DEF Core, Shapely
  <2> QED BY <1>3, <2>1 DEF Around, SameData, Core, Shapely
<1>5. Private(p)'
  <2>1. reg'[p] = Partial(x, t) /\ acc'[p] = <<>>
    BY <1>2, <1>3 DEF Core, Shapely
  <2>2. micro'[p] = "value"
    BY <1>3 DEF Core, Sched
  <2>3. Partial(X(p), turn[p])' = Partial(x, t)
    BY <1>2, <1>3, Still
  <2> QED BY <1>2, <1>3, <2>1, <2>2, <2>3, Still DEF Private
<1>6. SharedNew(x, t, "value")
  BY <1>1, <1>2, <1>3 DEF Footing, SharedAt, SharedNew, Amount
<1>7. "value" \in Micros("red")
  BY DEF Micros
<1> QED BY <1>1, <1>3, <1>4, <1>5, <1>6, <1>7, MicroKeeps DEF Held

(* The sum is stored, or too large. *)
LEMMA KeepRedValue == ASSUME Setting, Core, NEW p \in Worker, RedValue(p) PROVE Held \/ Broke
<1>1. PICK x \in Cell, t \in Turns : Footing(p, x, t, "red") /\ micro[p] = "value"
  BY Standing DEF RedValue
<1>2. /\ t \in {1, 2} /\ Stages = 4 /\ x = X(p) /\ t = turn[p] /\ acc[p] = <<>> /\ RedSum(p) = Partial(x, t + 1)
      /\ AtOp(p, "red") /\ ~AtOp(p, "out") /\ ~AtOp(p, "init")
      /\ RedSum(p).code = Inf => TooLarge(x)
  <2>1. AtOp(p, "red") /\ ~AtOp(p, "out") /\ ~AtOp(p, "init") /\ t \in {1, 2} /\ Stages = 4 /\ x = X(p) /\ t = turn[p]
    BY <1>1 DEF Footing, AtOp
  <2>2. reg[p] = Partial(x, t) /\ acc[p] = <<>>
    BY <1>1, <2>1 DEF Footing, Private
  <2>3. t # Stages - 1
    BY <2>1
  <2>4. RedSum(p) = Partial(x, t + 1) /\ (Partial(x, t + 1).code = Inf => TooLarge(x))
    BY <1>1, <2>1, <2>2, <2>3 DEF Footing, RedSum, Contribution
  <2> QED BY <2>1, <2>2, <2>4
<1>3. CASE RedSum(p).code = Inf
  BY <1>2, <1>3 DEF RedValue, Unwind, Broke, Cause
<1>8. CASE RedSum(p).code # Inf
  <2>1. /\ buffer' = [buffer EXCEPT ![x] = Partial(x, t + 1)]
        /\ IF CountsRed THEN Go(p, "tally") ELSE Advance(p)
        /\ launch' = launch /\ rev' = rev /\ round' = round /\ left' = left /\ cta' = cta /\ turn' = turn
        /\ acc' = acc /\ reg' = reg /\ written' = written /\ cover' = cover /\ red' = red /\ output' = output
        /\ failed' = failed /\ main' = main
    BY <1>2, <1>8 DEF RedValue, asked, counts
  <2>2. Around(p, x) /\ buffer'[x] = Partial(x, t + 1)
    <3>1. Shapely'
      BY <2>1, Steady DEF Core, Shapely
    <3>2. (\A c \in Cell : c # x => buffer'[c] = buffer[c]) /\ buffer'[x] = Partial(x, t + 1)
      BY <2>1 DEF Core, Shapely
    <3> QED BY <2>1, <3>1, <3>2 DEF Around, SameData
  <2>3. CASE CountsRed
    <3>1. micro' = [micro EXCEPT ![p] = "tally"] /\ pos' = pos
      BY <2>1, <2>3 DEF Go
    <3>2. Private(p)'
      <4>1. micro'[p] = "tally"
        BY <3>1 DEF Core, Sched
      <4> QED BY <1>2, <2>1, <2>3, <3>1, <4>1, Still DEF Private
    <3>3. SharedNew(x, t, "tally")
      BY <1>1, <1>2, <2>1, <2>2 DEF Footing, SharedAt, SharedNew, Amount
    <3>4. "tally" \in Micros("red")
      BY DEF Micros
    <3> QED BY <1>1, <2>1, <2>2, <3>1, <3>2, <3>3, <3>4, MicroKeeps DEF Held
  <2>4. CASE ~CountsRed
    <3>1. Advance(p) /\ acc'[p] = <<>>
      BY <1>2, <2>1, <2>4
    <3>2. SharedNew(x, t, "after")
      BY <1>1, <1>2, <2>1, <2>2, <2>4 DEF Footing, SharedAt, SharedNew, Amount
    <3> QED BY <1>1, <2>1, <2>2, <3>1, <3>2, AdvanceKeeps DEF Held
  <2> QED BY <2>3, <2>4
<1> QED BY <1>3, <1>8

(* The count of additions is read. *)
LEMMA KeepRedTally == ASSUME Setting, Core, NEW p \in Worker, RedTally(p) PROVE Held
<1>1. PICK x \in Cell, t \in Turns : Footing(p, x, t, "red") /\ micro[p] = "tally"
  BY Standing DEF RedTally
<1>2. /\ t \in {1, 2} /\ Stages = 4 /\ red[x] = t - 1 /\ x = X(p) /\ t = turn[p] /\ acc[p] = <<>>
      /\ AtOp(p, "red") /\ ~AtOp(p, "out") /\ ~AtOp(p, "init")
  BY <1>1 DEF Footing, SharedAt, Private, AtOp
<1>3. /\ reg' = [reg EXCEPT ![p] = t - 1] /\ micro' = [micro EXCEPT ![p] = "count"] /\ pos' = pos
      /\ launch' = launch /\ rev' = rev /\ round' = round /\ left' = left /\ cta' = cta /\ turn' = turn
      /\ acc' = acc /\ written' = written /\ cover' = cover /\ red' = red /\ buffer' = buffer /\ output' = output
      /\ failed' = failed /\ main' = main
  BY <1>2 DEF RedTally, Read, Go, asked, counts
<1>4. Around(p, x)
  <2>1. Shapely'
    BY <1>3, Steady DEF Core, Shapely
  <2> QED BY <1>3, <2>1 DEF Around, SameData, Core, Shapely
<1>5. Private(p)'
  <2>1. reg'[p] = t - 1 /\ acc'[p] = <<>>
    BY <1>2, <1>3 DEF Core, Shapely
  <2>2. micro'[p] = "count"
    BY <1>3 DEF Core, Sched
  <2> QED BY <1>2, <1>3, <2>1, <2>2, Still DEF Private
<1>6. SharedNew(x, t, "count")
  BY <1>1, <1>2, <1>3 DEF Footing, SharedAt, SharedNew, Amount
<1>7. "count" \in Micros("red")
  BY DEF Micros
<1> QED BY <1>1, <1>3, <1>4, <1>5, <1>6, <1>7, MicroKeeps DEF Held

(* It is one more. *)
LEMMA KeepRedCount == ASSUME Setting, Core, NEW p \in Worker, RedCount(p) PROVE Held
<1>1. PICK x \in Cell, t \in Turns : Footing(p, x, t, "red") /\ micro[p] = "count"
  BY Standing DEF RedCount
<1>2. /\ t \in {1, 2} /\ Stages = 4 /\ reg[p] + 1 = t /\ x = X(p) /\ acc[p] = <<>>
  BY <1>1 DEF Footing, Private, AtOp
<1>3. /\ red' = [red EXCEPT ![x] = t] /\ Advance(p)
      /\ launch' = launch /\ rev' = rev /\ round' = round /\ left' = left /\ cta' = cta /\ turn' = turn
      /\ acc' = acc /\ reg' = reg /\ written' = written /\ cover' = cover /\ buffer' = buffer /\ output' = output
      /\ failed' = failed /\ main' = main
  BY <1>2 DEF RedCount, asked
<1>4. Around(p, x)
  <2>1. Shapely'
    <3>1. t \in Nat
      BY <1>2
    <3>2. red' \in [Cell -> Nat]
      BY <1>3, <3>1 DEF Core, Shapely
    <3> QED BY <1>3, <3>2, Steady DEF Core, Shapely
  <2>2. \A c \in Cell : c # x => red'[c] = red[c]
    BY <1>3 DEF Core, Shapely
  <2> QED BY <1>3, <2>1, <2>2 DEF Around, SameData, Core, Shapely
<1>5. SharedNew(x, t, "after")
  <2>1. red'[x] = t
    BY <1>3 DEF Core, Shapely
  <2> QED BY <1>1, <1>2, <1>3, <2>1 DEF Footing, SharedAt, SharedNew, Amount
<1>6. acc'[p] = <<>>
  BY <1>2, <1>3
<1> QED BY <1>1, <1>3, <1>4, <1>5, <1>6, AdvanceKeeps DEF Held

-----------------------------------------------------------------------------
(* What is loaded is a finished sum. *)
LEMMA KeepLoad == ASSUME Setting, Core, NEW p \in Worker, Load(p) PROVE Held
<1>1. PICK x \in Cell, t \in Turns : Footing(p, x, t, "out") /\ micro[p] = "read"
  BY Standing DEF Load
<1>2. /\ AtOp(p, "out") /\ ~AtOp(p, "red") /\ ~AtOp(p, "init") /\ t = Stages - 1 /\ x = X(p) /\ Op(p).from \in Seq(Int)
      /\ acc[p] \in Seq(Signeds) /\ \A j \in DOMAIN acc[p] : j \in DOMAIN Op(p).from /\ acc[p][j] = Sum(Op(p).from[j])
  BY <1>1 DEF Footing, AtOp, Private
<1>3. PICK n \in Nat : n = Len(acc[p])
  BY <1>2
<1>4. n + 1 \in DOMAIN Op(p).from
  <2>1. PICK l \in Nat : l = Len(Op(p).from) /\ DOMAIN Op(p).from = 1 .. l
    BY <1>2
  <2>2. DOMAIN acc[p] = 1 .. n
    BY <1>2, <1>3
  <2>3. n # l
    BY <1>3, <2>1 DEF Load, Loaded
  <2>4. n > 0 => n \in 1 .. l
    BY <1>2, <2>1, <2>2
  <2> QED BY <2>1, <2>3, <2>4
<1>5. PICK y : y = Op(p).from[n + 1]
  OBVIOUS
<1>6. y \in Cell /\ written[y] = 1 /\ buffer[y] = Sum(y) /\ Sum(y) \in Signeds
  BY <1>1, <1>2, <1>4, <1>5 DEF Footing
<1>7. /\ acc' = [acc EXCEPT ![p] = Append(@, Sum(y))] /\ micro' = micro /\ pos' = pos
      /\ launch' = launch /\ rev' = rev /\ round' = round /\ left' = left /\ cta' = cta /\ turn' = turn
      /\ reg' = reg /\ written' = written /\ cover' = cover /\ red' = red /\ buffer' = buffer /\ output' = output
      /\ failed' = failed /\ main' = main
  BY <1>3, <1>5, <1>6 DEF Load, asked, counts
<1>8. Around(p, x)
  <2>1. Shapely'
    BY <1>7, Steady DEF Core, Shapely
  <2> QED BY <1>7, <2>1 DEF Around, SameData, Core, Shapely
<1>9. Private(p)'
  <2>1. acc'[p] = Append(acc[p], Sum(y))
    BY <1>7 DEF Core, Shapely
  <2>2. /\ acc'[p] \in Seq(Signeds)
        /\ \A j \in DOMAIN acc'[p] : j \in DOMAIN Op(p).from /\ acc'[p][j] = Sum(Op(p).from[j])
    BY <1>2, <1>3, <1>4, <1>5, <1>6, <2>1
  <2>3. micro'[p] = "read"
    BY <1>1, <1>7
  <2>4. Op(p)' = Op(p) /\ (\A kind : AtOp(p, kind)' <=> AtOp(p, kind)) /\ \A c : Sum(c)' = Sum(c)
    BY <1>7, Still
  <2>5. \A j \in DOMAIN acc'[p] : j \in DOMAIN Op(p)'.from /\ acc'[p][j] = Sum(Op(p).from[j])'
    BY <2>2, <2>4
  <2> QED BY <1>2, <2>2, <2>3, <2>4, <2>5 DEF Private
<1>10. SharedNew(x, t, "read")
  BY <1>1, <1>2, <1>7 DEF Footing, SharedAt, SharedNew, Amount
<1>11. "read" \in Micros("out")
  BY DEF Micros
<1> QED BY <1>1, <1>7, <1>8, <1>9, <1>10, <1>11, MicroKeeps DEF Held

(* The count of the output is read. *)
LEMMA KeepOutRead == ASSUME Setting, Core, NEW p \in Worker, OutRead(p) PROVE Held
<1>1. PICK x \in Cell, t \in Turns : Footing(p, x, t, "out") /\ micro[p] = "read"
  BY Standing DEF OutRead
<1>2. /\ AtOp(p, "out") /\ ~AtOp(p, "red") /\ ~AtOp(p, "init") /\ t = Stages - 1 /\ x = X(p) /\ cover[x] = 0 /\ Loaded(p)
      /\ acc[p] \in Seq(Signeds) /\ \A j \in DOMAIN acc[p] : j \in DOMAIN Op(p).from /\ acc[p][j] = Sum(Op(p).from[j])
  BY <1>1 DEF Footing, AtOp, Private, SharedAt, OutRead
<1>3. /\ reg' = [reg EXCEPT ![p] = 0] /\ micro' = [micro EXCEPT ![p] = "count"] /\ pos' = pos
      /\ launch' = launch /\ rev' = rev /\ round' = round /\ left' = left /\ cta' = cta /\ turn' = turn
      /\ acc' = acc /\ written' = written /\ cover' = cover /\ red' = red /\ buffer' = buffer /\ output' = output
      /\ failed' = failed /\ main' = main
  BY <1>2 DEF OutRead, Read, Go, asked, counts
<1>4. Around(p, x)
  <2>1. Shapely'
    BY <1>3, Steady DEF Core, Shapely
  <2> QED BY <1>3, <2>1 DEF Around, SameData, Core, Shapely
<1>5. Private(p)'
  <2>1. reg'[p] = 0
    BY <1>3 DEF Core, Shapely
  <2>2. micro'[p] = "count"
    BY <1>3 DEF Core, Sched
  <2>3. Op(p)' = Op(p) /\ (\A kind : AtOp(p, kind)' <=> AtOp(p, kind)) /\ \A c : Sum(c)' = Sum(c)
    BY <1>3, Still
  <2>4. \A j \in DOMAIN acc'[p] : j \in DOMAIN Op(p)'.from /\ acc'[p][j] = Sum(Op(p).from[j])'
    BY <1>2, <1>3, <2>3
  <2>5. Loaded(p)'
    BY <1>2, <1>3, <2>3 DEF Loaded
  <2> QED BY <1>2, <1>3, <2>1, <2>2, <2>3, <2>4, <2>5 DEF Private
<1>6. SharedNew(x, t, "count")
  BY <1>1, <1>2, <1>3 DEF Footing, SharedAt, SharedNew, Amount
<1>7. "count" \in Micros("out")
  BY DEF Micros
<1> QED BY <1>1, <1>3, <1>4, <1>5, <1>6, <1>7, MicroKeeps DEF Held

(* It was zero. *)
LEMMA KeepOutCount == ASSUME Setting, Core, NEW p \in Worker, OutCount(p) PROVE Held
<1>1. PICK x \in Cell, t \in Turns : Footing(p, x, t, "out") /\ micro[p] = "count"
  BY Standing DEF OutCount
<1>2. /\ AtOp(p, "out") /\ ~AtOp(p, "red") /\ ~AtOp(p, "init") /\ t = Stages - 1 /\ x = X(p) /\ reg[p] = 0 /\ Loaded(p)
      /\ acc[p] \in Seq(Signeds) /\ \A j \in DOMAIN acc[p] : j \in DOMAIN Op(p).from /\ acc[p][j] = Sum(Op(p).from[j])
  BY <1>1 DEF Footing, AtOp, Private
<1>3. /\ cover' = [cover EXCEPT ![x] = 1] /\ micro' = [micro EXCEPT ![p] = "value"] /\ pos' = pos
      /\ launch' = launch /\ rev' = rev /\ round' = round /\ left' = left /\ cta' = cta /\ turn' = turn
      /\ acc' = acc /\ reg' = reg /\ written' = written /\ red' = red /\ buffer' = buffer /\ output' = output
      /\ failed' = failed /\ main' = main
  BY <1>2 DEF OutCount, Go, asked
<1>4. Around(p, x)
  <2>1. Shapely'
    BY <1>3, Steady DEF Core, Shapely
  <2>2. \A c \in Cell : c # x => cover'[c] = cover[c]
    BY <1>3 DEF Core, Shapely
  <2> QED BY <1>3, <2>1, <2>2 DEF Around, SameData, Core, Shapely
<1>5. Private(p)'
  <2>2. micro'[p] = "value"
    BY <1>3 DEF Core, Sched
  <2>3. Op(p)' = Op(p) /\ (\A kind : AtOp(p, kind)' <=> AtOp(p, kind)) /\ \A c : Sum(c)' = Sum(c)
    BY <1>3, Still
  <2>4. \A j \in DOMAIN acc'[p] : j \in DOMAIN Op(p)'.from /\ acc'[p][j] = Sum(Op(p).from[j])'
    BY <1>2, <1>3, <2>3
  <2>5. Loaded(p)'
    BY <1>2, <1>3, <2>3 DEF Loaded
  <2> QED BY <1>2, <1>3, <2>2, <2>3, <2>4, <2>5 DEF Private
<1>6. SharedNew(x, t, "value")
  <2>1. cover'[x] = 1
    BY <1>3 DEF Core, Shapely
  <2> QED BY <1>1, <1>2, <1>3, <2>1 DEF Footing, SharedAt, SharedNew, Amount
<1>7. "value" \in Micros("out")
  BY DEF Micros
<1> QED BY <1>1, <1>3, <1>4, <1>5, <1>6, <1>7, MicroKeeps DEF Held

(* A half is a number of units. *)
LEMMA HalfUnitsType == \A c \in Nat : HalfUnits(c) \in Nat
  BY SizesFact, UnitsStep DEF HalfUnits
(* The output is what the sums make. *)
LEMMA KeepOutValue == ASSUME Setting, Core, NEW p \in Worker, OutValue(p) PROVE Held
<1>1. PICK x \in Cell, t \in Turns : Footing(p, x, t, "out") /\ micro[p] = "value"
  BY Standing DEF OutValue
<1>2. /\ AtOp(p, "out") /\ t = Stages - 1 /\ x = X(p) /\ Loaded(p) /\ Op(p).from \in Seq(Int)
      /\ acc[p] \in Seq(Signeds) /\ \A j \in DOMAIN acc[p] : j \in DOMAIN Op(p).from /\ acc[p][j] = Sum(Op(p).from[j])
      /\ Op(p) = OpAt(Stages - 1, OwnSite(Stages - 1, x))
  BY <1>1 DEF Footing, AtOp, Private
<1>3. DOMAIN acc[p] = DOMAIN Op(p).from
  BY <1>2 DEF Loaded
<1>4. ASSUME NEW j \in DOMAIN acc[p]
      PROVE  Saturated(acc[p][j]) = [Sum(Op(p).from[j]) EXCEPT !.code = NearestE4(HalfUnits(@))]
  <2>1. PICK h \in Signeds : h = acc[p][j] /\ h = Sum(Op(p).from[j])
    BY <1>2, <1>4
  <2>2. SatE4(HalfUnits(h.code)) = NearestE4(HalfUnits(h.code))
    <3>1. h.code \in Nat
      BY DEF Signeds
    <3> QED BY <3>1, HalfUnitsType, SatE4Nearest
  <2> QED BY <2>1, <2>2 DEF Saturated
<1>5. [j \in DOMAIN acc[p] |-> Saturated(acc[p][j])] = Expected(Op(p))
  BY <1>3, <1>4 DEF Expected
<1>6. /\ output' = [output EXCEPT ![x] = Expected(Op(p))] /\ acc' = [acc EXCEPT ![p] = <<>>] /\ Advance(p)
      /\ launch' = launch /\ rev' = rev /\ round' = round /\ left' = left /\ cta' = cta /\ turn' = turn
      /\ reg' = reg /\ written' = written /\ cover' = cover /\ red' = red /\ buffer' = buffer
      /\ failed' = failed /\ main' = main
  BY <1>2, <1>5 DEF OutValue, asked, counts
<1>7. Around(p, x) /\ output'[x] = Expected(Op(p)) /\ acc'[p] = <<>>
  <2>1. Shapely'
    BY <1>6, Steady DEF Core, Shapely
  <2>2. (\A c \in Cell : c # x => output'[c] = output[c]) /\ output'[x] = Expected(Op(p))
    BY <1>6 DEF Core, Shapely
  <2>3. acc'[p] = <<>> /\ \A q \in Worker : q # p => acc'[q] = acc[q]
    BY <1>6 DEF Core, Shapely
  <2> QED BY <1>6, <2>1, <2>2, <2>3 DEF Around, SameData
<1>8. SharedNew(x, t, "after")
  BY <1>1, <1>2, <1>6, <1>7 DEF Footing, SharedAt, SharedNew, Amount
<1> QED BY <1>1, <1>6, <1>7, <1>8, AdvanceKeeps DEF Held

-----------------------------------------------------------------------------
(* What throws. *)
LEMMA KeepDotThrows == ASSUME Setting, Core, NEW p \in Worker, DotThrows(p) PROVE Broke
<1>1. PICK kind \in {"init", "red"} : At(p, kind, "read")
  BY DEF DotThrows
<1>2. PICK x \in Cell, t \in Turns : Footing(p, x, t, kind)
  BY <1>1, Standing
<1>3. t # Stages - 1
  BY <1>2 DEF Footing
<1>4. TooLarge(x)
  BY <1>2, <1>3 DEF Footing, DotThrows
<1> QED BY <1>4 DEF DotThrows, Unwind, Broke, Cause

(* No store is out of place. *)
LEMMA NeverOutside == ASSUME Setting, Core, NEW p \in Worker, Outside(p) PROVE FALSE
<1>1. launch \in Launches /\ rev \in BOOLEAN /\ Sched /\ Busy(p) /\ ~Placed(p)
  BY DEF Setting, Core, Outside
<1>2. AtWork(p)
  BY <1>1, WorkFacts DEF Busy
<1>3. PICK x \in Cell, t \in Turns : Footing(p, x, t, Op(p).kind)
  BY <1>2, FootingFound
<1>4. /\ X(p) \in Cell /\ Z(p) = Order(t) /\ Stages \in {2, 4} /\ t \in 0 .. Stages - 1
      /\ Op(p).kind = (IF t = 0 THEN "init" ELSE IF t = Stages - 1 THEN "out" ELSE "red")
  BY <1>3 DEF Footing, Z
<1>5. Order(0) = 0 /\ Order(Stages - 1) = Stages - 1 /\ (t # 0 /\ t # Stages - 1 => Order(t) \in {1, 2})
  BY <1>1, OrderFacts
<1>6. launch.tokens = 0 \/ Stages = 4
  <2>1. CASE launch.tokens # 0
    <3>1. PICK ll : ll = Contract(launch.tokens, launch.groups, launch.pairs, launch.releases, launch.dots)
      OBVIOUS
    <3>2. ll.stages = 4
      BY <3>1 DEF Contract
    <3> QED BY <1>1, <2>1, <3>1, <3>2, LaunchType DEF Stages
  <2> QED BY <2>1
<1>7. Allowed(Op(p).kind, Z(p))
  BY <1>4, <1>5, <1>6 DEF Allowed
<1> QED BY <1>1, <1>4, <1>7 DEF Placed


(* A step that begins and ends no operation. *)
LEMMA SharedAll ==
  ASSUME Setting, Core, launch' = launch, rev' = rev,
         \A c \in Cell : SameData(c) /\ \A k \in Turns : PhaseOf(k, c)' = PhaseOf(k, c)
  PROVE  \A c \in Cell' : Shared(c)'
<1>1. Cell' = Cell /\ launch \in Launches
  BY Steady DEF Setting
<1>2. \A c \in Cell : SameCell(c)
  BY DEF SameCell, SameData
<1> QED BY <1>1, <1>2, SharedSame DEF Core

(* A ticket is taken. *)
LEMMA KeepClaim == ASSUME Setting, Core, NEW p \in Worker, Claim(p) PROVE Held
<1>1. /\ launch' = launch /\ rev' = rev /\ written' = written /\ cover' = cover /\ red' = red /\ buffer' = buffer /\ output' = output
      /\ failed' = failed /\ main' = main /\ reg' = reg
      /\ turn' = [turn EXCEPT ![p] = round] /\ pos' = [pos EXCEPT ![p] = 1]
      /\ micro' = [micro EXCEPT ![p] = "read"] /\ acc' = [acc EXCEPT ![p] = <<>>]
      /\ \E d \in left : cta' = [cta EXCEPT ![p] = d]
  BY DEF Claim, asked, counts
<1>2. Sched' /\ \A k \in Turns, c \in Cell : PhaseOf(k, c)' = PhaseOf(k, c)
  BY ClaimStep DEF Setting, Core
<1>3. Shapely'
  BY <1>1, Steady DEF Core, Shapely
<1>4. \A c \in Cell' : Shared(c)'
  BY <1>1, <1>2, SharedAll DEF SameData
<1>5. Private(p)'
  <2>1. micro'[p] = "read" /\ acc'[p] = <<>>
    BY <1>1 DEF Core, Sched, Shapely
  <2> QED BY <2>1, PrivateFreshNext
<1>6. ASSUME NEW q \in Worker, q # p PROVE Private(q)'
  <2>1. SameWorker(q)
    BY <1>1, <1>6 DEF SameWorker, Core, Sched, Shapely
  <2> QED BY <1>1, <2>1, PrivateSame DEF Core
<1>7. \A q \in Worker : Private(q)'
  BY <1>5, <1>6
<1> QED BY <1>1, <1>2, <1>3, <1>4, <1>7 DEF Held, Core

(* A stage of a CTA is over. *)
LEMMA KeepStageEnd == ASSUME Setting, Core, NEW p \in Worker, StageEnd(p) PROVE Held
<1>1. /\ launch' = launch /\ rev' = rev /\ written' = written /\ cover' = cover /\ red' = red /\ buffer' = buffer /\ output' = output
      /\ failed' = failed /\ main' = main /\ reg' = reg /\ micro' = micro /\ acc' = acc
      /\ \A q \in Worker : q # p => cta'[q] = cta[q] /\ turn'[q] = turn[q] /\ pos'[q] = pos[q]
  BY DEF StageEnd, asked, counts, Core, Sched
<1>2. Sched' /\ \A k \in Turns, c \in Cell : PhaseOf(k, c)' = PhaseOf(k, c)
  BY StageEndStep DEF Setting, Core
<1>3. Shapely'
  BY <1>1, Steady DEF Core, Shapely
<1>4. \A c \in Cell' : Shared(c)'
  BY <1>1, <1>2, SharedAll DEF SameData
<1>5. Private(p)'
  <2>1. launch \in Launches /\ rev \in BOOLEAN /\ Sched /\ cta[p] # None
    BY DEF Setting, Core, StageEnd
  <2>2. ~AtWork(p) /\ micro[p] = "read"
    BY <2>1, WorkFacts DEF StageEnd, Employed
  <2>3. acc[p] = <<>>
    BY <2>1, <2>2 DEF Core, Private, AtOp
  <2> QED BY <1>1, <2>2, <2>3, PrivateFreshNext
<1>6. ASSUME NEW q \in Worker, q # p PROVE Private(q)'
  <2>1. SameWorker(q)
    BY <1>1, <1>6 DEF SameWorker
  <2> QED BY <1>1, <2>1, PrivateSame DEF Core
<1>7. \A q \in Worker : Private(q)'
  BY <1>5, <1>6
<1> QED BY <1>1, <1>2, <1>3, <1>4, <1>7 DEF Held, Core

(* When the last pool is joined every operation was done. *)
LEMMA AllDone ==
  ASSUME Setting, Core, left = {}, round + 1 = Rounds, \A q \in Worker : cta[q] = None
  PROVE  \A k \in Turns, c \in Cell : PhaseOf(k, c) = "after"
<1>1. launch \in Launches /\ rev \in BOOLEAN /\ Fits /\ Sched
  BY DEF Setting, Core
<1>2. Turns = 0 .. Stages - 1 /\ Stages \in {2, 4} /\ round \in Int /\ (StageJoin => Rounds = Stages)
  BY <1>1, LaunchType DEF Turns, Upto, Sched, Rounds
<1> SUFFICES ASSUME NEW k \in Turns, NEW c \in Cell PROVE PhaseOf(k, c) = "after"
  OBVIOUS
<1>3. PICK s : s = OwnSite(k, c)
  OBVIOUS
<1>4. s[1] \in Cta /\ s[1] # None
  BY <1>1, <1>3, OwnFacts, LaunchType
<1>5. k < round \/ (StageJoin => k = round)
  BY <1>2
<1>6. Past(k, s)
  BY <1>4, <1>5 DEF Past
<1> QED BY <1>1, <1>3, <1>6, PhaseIs DEF PhaseOf

(* A pool is joined; after the last one every count is as it should be. *)
LEMMA KeepJoin == ASSUME Setting, Core, Sound, ~failed, Join PROVE failed' = failed /\ main' # "raised" /\ Core'
<1>1. /\ launch' = launch /\ rev' = rev /\ written' = written /\ cover' = cover /\ red' = red /\ buffer' = buffer /\ output' = output
      /\ failed' = failed /\ reg' = reg /\ micro' = micro /\ acc' = acc /\ cta' = cta /\ turn' = turn /\ pos' = pos
  BY DEF Join, asked, counts, private
<1>2. Sched' /\ \A k \in Turns, c \in Cell : PhaseOf(k, c)' = PhaseOf(k, c)
  BY JoinStep DEF Setting, Core
<1>3. main' \in {"run", "returned"}
  <2>1. CASE round + 1 < Rounds
    BY <2>1 DEF Join
  <2>2. CASE ~(round + 1 < Rounds)
    <3>1. left = {} /\ (\A q \in Worker : cta[q] = None) /\ main' = IF Covered THEN "returned" ELSE "raised"
      BY <2>2 DEF Join
    <3>2. launch \in Launches /\ rev \in BOOLEAN /\ Sched
      BY DEF Setting, Core
    <3>3. Stages \in {2, 4} /\ Turns = 0 .. Stages - 1 /\ round \in Int /\ Rounds \in Int /\ round + 1 <= Rounds
      BY <3>2, LaunchType DEF Turns, Upto, Sched, Rounds
    <3>4. round + 1 = Rounds
      BY <2>2, <3>3
    <3>5. \A k \in Turns, c \in Cell : PhaseOf(k, c) = "after"
      BY <3>1, <3>4, AllDone
    <3>6. 0 \in Turns /\ Stages - 1 \in Turns /\ (Stages = 4 => 2 \in Turns)
      BY <3>3
    <3>7. ASSUME NEW c \in Cell PROVE written[c] = 1 /\ cover[c] = 1 /\ (CountsRed /\ Stages = 4 => red[c] = 2)
      <4>1. PhaseOf(0, c) = "after" /\ PhaseOf(Stages - 1, c) = "after" /\ (Stages = 4 => PhaseOf(2, c) = "after")
        BY <3>5, <3>6
      <4>2. Shared(c)
        BY DEF Core
      <4> QED BY <4>1, <4>2 DEF Shared
    <3>8. Covered
      BY <3>7 DEF Covered, Sound
    <3> QED BY <3>1, <3>8
  <2> QED BY <2>1, <2>2
<1>4. Shapely'
  BY <1>1, <1>3, Steady DEF Core, Shapely
<1>5. \A c \in Cell' : Shared(c)'
  BY <1>1, <1>2, SharedAll DEF SameData
<1>6. ASSUME NEW q \in Worker PROVE Private(q)'
  <2>1. SameWorker(q)
    BY <1>1 DEF SameWorker
  <2> QED BY <1>1, <2>1, PrivateSame DEF Core
<1> QED BY <1>1, <1>2, <1>3, <1>4, <1>5, <1>6 DEF Core

-----------------------------------------------------------------------------
(* The launches as a whole. *)

(* The invariant: until something is thrown, and afterwards that there was *)
(* a cause. *)
RInv == /\ launch \in Launches /\ rev \in BOOLEAN
        /\ Sound => Fits
        /\ Sound => IF failed \/ main = "raised" THEN Cause /\ main # "returned" ELSE Core

(* A sound launch has one owner for each cell, whose CTA does all that the *)
(* cell needs when stages are not joined.                                  *)
LEMMA SoundFits == ASSUME launch \in Launches, Sound PROVE Fits
<1>1. CASE launch.tokens = 0
  BY <1>1, LaunchType DEF Sound, Fits
<1>2. CASE launch.tokens # 0
  BY <1>2, ContractFits DEF Sound, Fits
<1> QED BY <1>1, <1>2

(* Nothing has begun. *)
LEMMA StartCore == ASSUME RInit, Sound, Fits PROVE Core
<1>1. /\ launch \in Launches /\ rev \in BOOLEAN /\ round = 0 /\ left = Cta /\ main = "run"
      /\ cta = [p \in Worker |-> None] /\ turn = [p \in Worker |-> 0] /\ pos = [p \in Worker |-> 1]
      /\ micro = [p \in Worker |-> "read"] /\ reg = [p \in Worker |-> None] /\ acc = [p \in Worker |-> <<>>]
      /\ written = [c \in Cell |-> 0] /\ cover = [c \in Cell |-> 0] /\ red = [c \in Cell |-> 0]
      /\ DOMAIN buffer = Cell /\ DOMAIN output = Cell
  BY DEF RInit, Zero, Sound
<1>2. Turns = 0 .. Stages - 1 /\ Stages \in {2, 4} /\ Rounds \in {1, Stages}
  BY <1>1, LaunchType DEF Turns, Upto, Rounds
<1>3. Sched
  BY <1>1, <1>2 DEF Sched
<1>4. Shapely
  BY <1>1 DEF Shapely
<1>5. \A p \in Worker : Private(p)
  BY <1>1, PrivateFresh
<1>6. ASSUME NEW c \in Cell PROVE Shared(c)
  <2>1. ASSUME NEW k \in Turns PROVE PhaseOf(k, c) = "read"
    <3>1. PICK s : s = OwnSite(k, c)
      OBVIOUS
    <3>2. s[1] \in Cta /\ s[1] # None
      BY <1>1, <3>1, OwnFacts, LaunchType
    <3>3. ~Past(k, s) /\ \A q : ~Here(q, k, s)
      BY <1>1, <1>2, <3>2 DEF Past, Here
    <3> QED BY <1>1, <1>3, <3>1, <3>3, PhaseIs DEF PhaseOf
  <2>2. 0 \in Turns /\ 0 # Stages - 1 /\ Turns \subseteq Int /\ \A j \in Turns : ~(j < 0)
    BY <1>2
  <2>3. Stand(c, 0, "read")
    BY <2>1, <2>2 DEF Stand
  <2>4. SharedAt(c, 0, "read")
    BY <1>1, <1>2, <2>2 DEF SharedAt, Amount
  <2> QED BY <1>1, <2>2, <2>3, <2>4, SharedIs
<1> QED BY <1>3, <1>4, <1>5, <1>6 DEF Core

(* The invariant holds at the start. *)
LEMMA Start == RInit => RInv
<1> SUFFICES ASSUME RInit PROVE RInv
  OBVIOUS
<1>1. launch \in Launches /\ rev \in BOOLEAN /\ failed = FALSE /\ (launch.admitted => main = "run")
  BY DEF RInit
<1>2. Sound => Fits /\ Core
  BY <1>1, SoundFits, StartCore
<1> QED BY <1>1, <1>2 DEF RInv, Sound

(* The numbers of a launch do not change. *)
LEMMA CauseSame == ASSUME launch' = launch, rev' = rev PROVE Cause' <=> Cause
<1>1. Cell' = Cell /\ \A c : TooLarge(c)' = TooLarge(c)
  BY Steady
<1> QED BY <1>1 DEF Cause

(* Nor does anything in a step of somebody else. *)
LEMMA CoreSame == ASSUME Setting, Core, UNCHANGED rvars PROVE Core'
<1>1. /\ launch' = launch /\ rev' = rev /\ round' = round /\ left' = left /\ main' = main
      /\ cta' = cta /\ turn' = turn /\ pos' = pos /\ micro' = micro /\ reg' = reg /\ acc' = acc
      /\ written' = written /\ cover' = cover /\ red' = red /\ buffer' = buffer /\ output' = output
  BY DEF rvars, asked, private, counts
<1>2. /\ Stages' = Stages /\ map' = map /\ Cta' = Cta /\ StageJoin' = StageJoin /\ Rounds' = Rounds /\ Turns' = Turns
      /\ (\A k : Order(k)' = Order(k)) /\ \A k, c : OwnSite(k, c)' = OwnSite(k, c)
  BY <1>1, Steady
<1>3. \A q : Z(q)' = Z(q) /\ Op(q)' = Op(q) /\ (AtWork(q)' <=> AtWork(q))
  BY <1>1, <1>2 DEF Z, Op, AtWork
<1>4. \A q : Employed(q)' <=> Employed(q)
  BY <1>1, <1>2, <1>3 DEF Employed
<1>5. Sched'
  BY <1>1, <1>2, <1>4 DEF Core, Sched, Finished
<1>6. ASSUME NEW k \in Turns, NEW c \in Cell PROVE PhaseOf(k, c)' = PhaseOf(k, c)
  <2>1. PICK s : s = OwnSite(k, c)
    OBVIOUS
  <2>2. s[1] \in Cta
    BY <2>1, OwnFacts DEF Setting
  <2>3. (Past(k, s)' <=> Past(k, s)) /\ \A q : Here(q, k, s)' <=> Here(q, k, s)
    BY <1>1, <1>2 DEF Past, Here
  <2>4. Phase(k, s)' = Phase(k, s)
    BY <1>1, <1>5, <2>2, <2>3, PhaseSame DEF Setting, Core
  <2> QED BY <1>2, <2>1, <2>4 DEF PhaseOf
<1>7. \A c \in Cell' : Shared(c)'
  BY <1>1, <1>6, SharedAll DEF SameData
<1>8. Shapely'
  BY <1>1, Steady DEF Core, Shapely
<1>9. ASSUME NEW q \in Worker PROVE Private(q)'
  <2>1. SameWorker(q)
    BY <1>1 DEF SameWorker
  <2> QED BY <1>1, <2>1, PrivateSame DEF Core
<1> QED BY <1>5, <1>7, <1>8, <1>9 DEF Core

(* Every step of a worker. *)
LEMMA WorkKeeps == ASSUME Setting, Core, NEW p \in Worker, Work(p) PROVE Held \/ Broke
  BY KeepClaim, NeverOutside, KeepDotThrows, KeepInitRead, KeepInitCount, KeepInitValue, KeepRedRead,
     KeepRedValue, KeepRedTally, KeepRedCount, KeepLoad, KeepOutRead, KeepOutCount, KeepOutValue,
     KeepStageEnd DEF Work

(* Neither what was asked nor a failure is ever taken back. *)
LEMMA WorkFixed ==
  ASSUME NEW p \in Worker, Work(p)
  PROVE  launch' = launch /\ rev' = rev /\ main = "run" /\ main' = main /\ (failed' = failed \/ failed')
<1>1. CASE Claim(p) \/ StageEnd(p)
  BY <1>1 DEF Claim, StageEnd, asked
<1>2. CASE Outside(p) \/ DotThrows(p)
  BY <1>2 DEF Outside, DotThrows, At, Busy, Unwind, asked
<1>3. CASE InitRead(p) \/ InitCount(p) \/ InitValue(p)
  BY <1>3 DEF InitRead, InitCount, InitValue, Computed, At, Busy, asked
<1>4. CASE RedRead(p) \/ RedValue(p)
  BY <1>4 DEF RedRead, RedValue, Computed, At, Busy, Unwind, asked
<1>5. CASE RedTally(p) \/ RedCount(p)
  BY <1>5 DEF RedTally, RedCount, At, Busy, asked
<1>6. CASE Load(p)
  BY <1>6 DEF Load, At, Busy, Unwind, asked
<1>7. CASE OutRead(p) \/ OutCount(p) \/ OutValue(p)
  BY <1>7 DEF OutRead, OutCount, OutValue, At, Busy, asked
<1> QED BY <1>1, <1>2, <1>3, <1>4, <1>5, <1>6, <1>7 DEF Work

(* Every step keeps the invariant. *)
LEMMA StepKeeps == RInv /\ [RNext]_rvars => RInv'
<1> SUFFICES ASSUME RInv, [RNext]_rvars PROVE RInv'
  OBVIOUS
<1>1. launch' = launch /\ rev' = rev
  BY WorkFixed DEF RNext, rvars, asked, Join
<1>2. Fits' = Fits /\ Sound' = Sound
  BY <1>1, Steady
<1>3. ASSUME Sound, failed \/ main = "raised" PROVE (failed' \/ main' = "raised") /\ Cause' /\ main' # "returned"
  <2>1. Cause'
    BY <1>1, <1>3, CauseSame DEF RInv
  <2>2. CASE UNCHANGED rvars
    BY <1>3, <2>1, <2>2 DEF rvars, RInv
  <2>3. CASE Join
    BY <1>3, <2>1, <2>3 DEF Join
  <2>4. CASE \E p \in Worker : Work(p)
    BY <1>3, <2>1, <2>4, WorkFixed DEF RInv
  <2> QED BY <2>2, <2>3, <2>4 DEF RNext
<1>4. ASSUME Sound, ~failed, main # "raised"
      PROVE  IF failed' \/ main' = "raised" THEN Cause' /\ main' # "returned" ELSE Core'
  <2>1. Setting /\ Core
    BY <1>4 DEF RInv, Setting
  <2>2. CASE UNCHANGED rvars
    <3>1. failed' = failed /\ main' = main
      BY <2>2 DEF rvars
    <3> QED BY <1>4, <2>1, <2>2, <3>1, CoreSame
  <2>3. CASE Join
    BY <1>4, <2>1, <2>3, KeepJoin
  <2>4. CASE \E p \in Worker : Work(p)
    <3>1. Held \/ Broke
      BY <2>1, <2>4, WorkKeeps
    <3>2. Cause' <=> Cause
      BY <1>1, CauseSame
    <3>3. main = "run"
      BY <2>4, WorkFixed
    <3> QED BY <1>4, <3>1, <3>2, <3>3 DEF Held, Broke
  <2> QED BY <2>2, <2>3, <2>4 DEF RNext
<1> QED BY <1>1, <1>2, <1>3, <1>4 DEF RInv

(* What the invariant says of a returned launch. *)
LEMMA SumsKept == RInv => FixedOrderSum /\ NoSpuriousThrow
<1> SUFFICES ASSUME RInv PROVE FixedOrderSum /\ NoSpuriousThrow
  OBVIOUS
<1>1. NoSpuriousThrow
  BY DEF RInv, NoSpuriousThrow, Cause
<1>2. ASSUME Sound, main = "returned"
      PROVE  /\ \A x \in Cell : buffer[x] = Sum(x)
             /\ \A s \in Sites(Stages - 1) : LET o == OpAt(Stages - 1, s) IN
                  output[o.cell] = [j \in DOMAIN o.from |->
                                      [Sum(o.from[j]) EXCEPT !.code = NearestE4(HalfUnits(@))]]
  <2>1. Setting /\ Core
    BY <1>2 DEF RInv, Setting
  <2>2. launch \in Launches /\ rev \in BOOLEAN /\ OneOwner
    BY <2>1 DEF Setting, Fits
  <2>3. \A k \in Turns, c \in Cell : PhaseOf(k, c) = "after"
    BY <1>2, <2>1, AllDone DEF Core, Sched, Finished
  <2>4. Stages \in {2, 4} /\ Turns = 0 .. Stages - 1 /\ Adds = 0 .. Stages - 2
    BY <2>2, LaunchType DEF Turns, Adds, Upto
  <2>5. ASSUME NEW x \in Cell PROVE buffer[x] = Sum(x)
    <3>1. Stages - 2 \in Adds /\ ~((Stages - 2) + 1 \in Adds) /\ Stages - 2 \in Turns /\ (Stages - 2) + 1 = Stages - 1
      BY <2>4
    <3>2. Added(Stages - 2, x)
      BY <2>3, <3>1 DEF Added
    <3>3. buffer[x] = Partial(x, (Stages - 2) + 1)
      BY <2>1, <3>1, <3>2 DEF Core, Shared
    <3> QED BY <2>2, <3>1, <3>3, PartialFacts
  <2>6. ASSUME NEW s \in Sites(Stages - 1)
        PROVE  output[OpAt(Stages - 1, s).cell] = Expected(OpAt(Stages - 1, s))
    <3>1. Order(Stages - 1) = Stages - 1 /\ Stages - 1 \in Turns
      BY <2>2, <2>4, OrderFacts
    <3>2. PICK x : x = OpAt(Stages - 1, s).cell
      OBVIOUS
    <3>3. x \in Cell /\ OwnSite(Stages - 1, x) = s
      BY <2>2, <3>1, <3>2, SiteFacts
    <3>4. PhaseOf(Stages - 1, x) = "after"
      BY <2>3, <3>1, <3>3
    <3> QED BY <2>1, <3>2, <3>3, <3>4 DEF Core, Shared
  <2> QED BY <2>5, <2>6 DEF Expected
<1> QED BY <1>1, <1>2 DEF FixedOrderSum

(* A returned launch summed every cell in stage order, each half rounded   *)
(* to nearest. *)
THEOREM StagedSums == RSpec => []FixedOrderSum
  BY Start, StepKeeps, SumsKept, PTL DEF RSpec
(* A launch with sound maps throws for its numbers alone. *)
THEOREM StagedThrows == RSpec => []NoSpuriousThrow
  BY Start, StepKeeps, SumsKept, PTL DEF RSpec
===============================================================================
