----------------------------- MODULE StagedReduce -----------------------------
(***************************************************************************)
(* The executors whose tasks meet in a shared buffer.  A CTA runs stages:  *)
(* stage 0 initialises cells of the buffer, stages 1 and 2 add to them     *)
(* (REDG), the last loads them and stores the output.                      *)
(* execute_qkv_projection joins its pool after every stage; ffn_contract   *)
(* runs the four stages of a CTA back to back and joins once.  Both count  *)
(* stores per cell in plain uint8 arrays that the workers share, so the    *)
(* counts are read and written in separate steps here.                     *)
(*                                                                         *)
(* What a CTA adds is a dot product, published as a half; half addition    *)
(* rounds, so a sum depends on its order, and may overflow in one order    *)
(* and not in the other.  A cell stands for one half of the buffer, or for *)
(* the one E4M3 code of the output made from it.                           *)
(***************************************************************************)
EXTENDS HalfFloat, ContractMaps, Sequences, FiniteSets

CONSTANTS Worker, None,
          Launches  \* the launches a caller may ask for

StoreKind == {"init", "red", "out"}
Upto(n)   == 0 .. n - 1

(* A launch: its tokens (0 for the launches of execute_qkv_projection),    *)
(* its stages (2 for qkv, 4 otherwise), what each CTA does in each stage,  *)
(* the length of buffer and output, whether the pool is joined after every *)
(* stage, whether written and red_count are checked after the last join,   *)
(* what parse_program says, and the release words that must come out: each *)
(* of the first region once per stage, each of the second once.  An        *)
(* operation has the cell it stores, the dot product an init or red        *)
(* contributes, and the cells an output is made from.                      *)
VARIABLES launch, rev, \* the launch and reverse_red
          round,     \* how many pools were joined
          left,      \* the CTAs whose ticket is not taken in this pool
          cta,       \* the CTA each worker runs, or None
          turn,      \* which stage of it, counted in the order they are run
          pos,       \* the operation of that stage
          micro,     \* the micro-step within the operation
          reg,       \* what the worker read from a shared array
          acc,       \* the buffer contents loaded for the output at hand
          written, cover, red, \* the shared uint8 counters
          buffer, output,
          failed,    \* some worker threw
          main       \* "run", "returned" or "raised"

asked   == <<launch, rev>>
counts  == <<written, cover, red>>
private == <<cta, turn, pos, micro, reg, acc>>
rvars   == <<asked, round, left, private, counts, buffer, output, failed, main>>

Stages    == launch.stages
map       == launch.map
Cta       == DOMAIN map
Cell      == Upto(launch.size)
StageJoin_Never == FALSE
StageJoin == launch.join
CountsRed == launch.counts
Rounds    == IF StageJoin THEN Stages ELSE 1

-----------------------------------------------------------------------------
(* The stage program of ffn_contract: in every stage the warps in turn,    *)
(* each with its rows in turn; the stores of a masked half are none.  What *)
(* they add is one dot product a stage.                                    *)
ContractStage(t, groups, pairs, dots, c, z) ==
  LET warps == IF Masked(t, c, 1) THEN pairs ELSE 2 * pairs
  IN  [i \in 1 .. warps * Rows |->
        LET x == Address(t, groups, pairs, c, (i - 1) \div Rows, (i - 1) % Rows)
        IN  IF z = 3 THEN [kind |-> "out", cell |-> x, from |-> <<x>>]
            ELSE [kind |-> IF z = 0 THEN "init" ELSE "red", cell |-> x, dot |-> dots[z + 1]]]
Contract(t, groups, pairs, releases, dots) ==
  LET ctas == Upto(groups * Bands(t))
  IN  [tokens |-> t, groups |-> groups, pairs |-> pairs, dots |-> dots,
       stages |-> 4, join |-> FALSE, counts |-> FALSE,
       admitted |-> Admitted(t, groups * Bands(t), groups), size |-> Extent(t, groups, pairs),
       words |-> <<1, 1>>, releases |-> releases,
       map |-> [c \in ctas |-> [z \in Upto(4) |-> ContractStage(t, groups, pairs, dots, c, z)]]]

Signeds    == [neg : BOOLEAN, code : Nat]
Dots       == {d \in [a : Seq(Signeds), b : Seq(Signeds), seed : Signeds, sm120 : BOOLEAN] :
                 Len(d.a) = Len(d.b)}
Operations == [kind : {"init", "red"}, cell : Int, dot : Dots]
                \cup [kind : {"out"}, cell : Int, from : Seq(Int)]

(* Which launches there are: those of ffn_contract, which have the maps it *)
(* admits, and those of execute_qkv_projection, which may have any.        *)
ASSUME StagedAssumption ==
  \A l \in Launches :
    /\ l.stages \in {2, 4} /\ {l.tokens, l.size} \subseteq Nat /\ None \notin DOMAIN l.map
    /\ {l.join, l.counts, l.admitted} \subseteq BOOLEAN
    /\ \A c \in DOMAIN l.map, z \in Upto(l.stages) : l.map[c][z] \in Seq(Operations)
    /\ IF l.tokens = 0 THEN l.join /\ l.counts
       ELSE /\ {l.groups, l.pairs} \subseteq Nat \ {0}
            /\ l = Contract(l.tokens, l.groups, l.pairs, l.releases, l.dots)

-----------------------------------------------------------------------------
(* stage_order: reverse_red swaps stages 1 and 2. *)
Order_Fixed(k) == k
Order(k) == IF Stages = 4 /\ rev THEN <<0, 2, 1, 3>>[k + 1] ELSE k

Zero == [x \in Cell |-> 0]
RInit == /\ launch \in Launches /\ rev \in BOOLEAN
         /\ round = 0 /\ left = Cta
         /\ cta = [w \in Worker |-> None]
         /\ turn = [w \in Worker |-> 0]
         /\ pos = [w \in Worker |-> 1]
         /\ micro = [w \in Worker |-> "read"]
         /\ reg = [w \in Worker |-> None]
         /\ acc = [w \in Worker |-> <<>>]
         /\ written = Zero /\ cover = Zero /\ red = Zero
         /\ buffer = [x \in Cell |-> Number(0, HalfRound)]
         /\ output = [x \in Cell |-> <<>>]
         /\ failed = FALSE
         /\ main = IF launch.admitted THEN "run" ELSE "raised"

(* A worker without a CTA tests the stop flag and takes the next ticket,   *)
(* in the order queue_seed gave.  TicketPool has the two as separate steps.*)
Claim(w) == /\ main = "run" /\ cta[w] = None /\ ~failed
            /\ \E c \in left : /\ cta' = [cta EXCEPT ![w] = c]
                               /\ left' = left \ {c}
            /\ turn' = [turn EXCEPT ![w] = round]
            /\ pos' = [pos EXCEPT ![w] = 1]
            /\ micro' = [micro EXCEPT ![w] = "read"]
            /\ acc' = [acc EXCEPT ![w] = <<>>]
            /\ UNCHANGED <<asked, round, reg, counts, buffer, output, failed, main>>

Z(w)    == Order(turn[w])
Busy(w) == main = "run" /\ cta[w] # None /\ pos[w] <= Len(map[cta[w]][Z(w)])
Op(w)   == map[cta[w]][Z(w)][pos[w]]
X(w)    == Op(w).cell
(* "BUF stage", "REDG stage invalid", "output store". *)
Allowed(kind, z) == CASE kind = "init" -> z = 0
                      [] kind = "red"  -> z \in {1, 2}
                      [] OTHER         -> launch.tokens = 0 \/ z = 3
Placed(w) == X(w) \in Cell /\ Allowed(Op(w).kind, Z(w))
At(w, kind, m) == Busy(w) /\ Placed(w) /\ Op(w).kind = kind /\ micro[w] = m

Go(w, m)   == micro' = [micro EXCEPT ![w] = m] /\ UNCHANGED pos
Advance(w) == micro' = [micro EXCEPT ![w] = "read"] /\ pos' = [pos EXCEPT ![w] = @ + 1]
Read(w, v) == reg' = [reg EXCEPT ![w] = v]

(* The exception unwinds the CTA: the worker leaves its loop. *)
Unwind(w) == /\ failed' = TRUE
            /\ cta' = [cta EXCEPT ![w] = None]
            /\ UNCHANGED <<asked, round, left, turn, pos, micro, reg, acc, counts, buffer, output, main>>
(* An absent address, one past the end or a store of another stage; the    *)
(* dot product itself. *)
Outside(w)   == Busy(w) /\ ~Placed(w) /\ Unwind(w)
Contribution(w) == Dot(Op(w).dot)
Refused(d)   == D27(d) \/ Dot(d).code = Inf
DotThrows(w) == /\ \E kind \in {"init", "red"} : At(w, kind, "read")
                /\ Refused(Op(w).dot)
                /\ Unwind(w)
Computed(w, kind) == At(w, kind, "read") /\ ~Refused(Op(w).dot)

(* if(written[ix]++) throw "buffer duplicate store"; buffer[ix] = val      *)
InitRead(w) == /\ Computed(w, "init")
               /\ Read(w, written[X(w)]) /\ Go(w, "count")
               /\ UNCHANGED <<asked, round, left, cta, turn, acc, counts, buffer, output, failed, main>>
InitCount(w) == /\ At(w, "init", "count")
                /\ written' = [written EXCEPT ![X(w)] = reg[w] + 1]
                /\ IF reg[w] # 0
                     THEN /\ failed' = TRUE /\ cta' = [cta EXCEPT ![w] = None]
                          /\ UNCHANGED <<pos, micro>>
                     ELSE Go(w, "value") /\ UNCHANGED <<failed, cta>>
                /\ UNCHANGED <<asked, round, left, turn, reg, acc, cover, red, buffer, output, main>>
InitValue(w) == /\ At(w, "init", "value")
                /\ buffer' = [buffer EXCEPT ![X(w)] = Contribution(w)]
                /\ Advance(w)
                /\ UNCHANGED <<asked, round, left, cta, turn, reg, acc, counts, output, failed, main>>

(* if(!written[ix]) throw "REDG before buffer store"; old = buffer[ix]     *)
RedRead(w) == /\ Computed(w, "red")
              /\ \/ written[X(w)] = 0 /\ Unwind(w)
                 \/ /\ written[X(w)] # 0
                    /\ Read(w, buffer[X(w)]) /\ Go(w, "value")
                    /\ UNCHANGED <<asked, round, left, cta, turn, acc, counts, buffer, output, failed, main>>
(* sum = h_add(old, val); throw "REDG half overflow"; buffer[ix] = sum     *)
RedSum(w)   == HalfAdd(reg[w], Contribution(w))
RedValue(w) ==
  /\ At(w, "red", "value")
  /\ \/ RedSum(w).code = Inf /\ Unwind(w)
     \/ /\ RedSum(w).code # Inf
        /\ buffer' = [buffer EXCEPT ![X(w)] = RedSum(w)]
        /\ IF CountsRed THEN Go(w, "tally") ELSE Advance(w)
        /\ UNCHANGED <<asked, round, left, cta, turn, reg, acc, counts, output, failed, main>>
(* ++red_count[ix] *)
RedTally(w) == /\ At(w, "red", "tally")
               /\ Read(w, red[X(w)]) /\ Go(w, "count")
               /\ UNCHANGED <<asked, round, left, cta, turn, acc, counts, buffer, output, failed, main>>
RedCount(w) == /\ At(w, "red", "count")
               /\ red' = [red EXCEPT ![X(w)] = reg[w] + 1]
               /\ Advance(w)
               /\ UNCHANGED <<asked, round, left, cta, turn, reg, acc, written, cover, buffer, output, failed, main>>

(* bufload: if(!written[ix]) throw "buffer read before write" *)
Loaded(w) == Len(acc[w]) = Len(Op(w).from)
Load(w) == /\ At(w, "out", "read") /\ ~Loaded(w)
           /\ LET x == Op(w).from[Len(acc[w]) + 1] IN
              \/ (x \notin Cell \/ written[x] = 0) /\ Unwind(w)
              \/ /\ x \in Cell /\ written[x] # 0
                 /\ acc' = [acc EXCEPT ![w] = Append(@, buffer[x])]
                 /\ UNCHANGED <<asked, round, left, cta, turn, pos, micro, reg, counts, buffer, output, failed, main>>

(* if(cover[ix]++) throw "duplicate output owner"; output[ix] = sat(val)   *)
OutRead(w) == /\ At(w, "out", "read") /\ Loaded(w)
              /\ Read(w, cover[X(w)]) /\ Go(w, "count")
              /\ UNCHANGED <<asked, round, left, cta, turn, acc, counts, buffer, output, failed, main>>
OutCount(w) == /\ At(w, "out", "count")
               /\ cover' = [cover EXCEPT ![X(w)] = reg[w] + 1]
               /\ IF reg[w] # 0
                    THEN /\ failed' = TRUE /\ cta' = [cta EXCEPT ![w] = None]
                         /\ UNCHANGED <<pos, micro>>
                    ELSE Go(w, "value") /\ UNCHANGED <<failed, cta>>
               /\ UNCHANGED <<asked, round, left, turn, reg, acc, written, red, buffer, output, main>>
Saturated(h) == [h EXCEPT !.code = SatE4(HalfUnits(h.code))]
OutValue(w) == /\ At(w, "out", "value")
               /\ output' = [output EXCEPT ![X(w)] = [j \in DOMAIN acc[w] |-> Saturated(acc[w][j])]]
               /\ acc' = [acc EXCEPT ![w] = <<>>]
               /\ Advance(w)
               /\ UNCHANGED <<asked, round, left, cta, turn, reg, counts, buffer, failed, main>>

(* The end of a stage: the CTA's next one, or the join.                    *)
StageEnd(w) ==
  /\ main = "run" /\ cta[w] # None
  /\ pos[w] > Len(map[cta[w]][Z(w)])
  /\ IF StageJoin \/ turn[w] + 1 = Stages
       THEN cta' = [cta EXCEPT ![w] = None] /\ UNCHANGED <<turn, pos>>
       ELSE /\ turn' = [turn EXCEPT ![w] = @ + 1] /\ pos' = [pos EXCEPT ![w] = 1]
            /\ UNCHANGED cta
  /\ UNCHANGED <<asked, round, left, micro, reg, acc, counts, buffer, output, failed, main>>

(* The join after a pool, the rethrow, and after the last pool the         *)
(* coverage checks: one store per buffer and output cell, two REDG per     *)
(* buffer cell when they are counted.                                      *)
Written(region, n) == Cardinality({i \in DOMAIN launch.releases : launch.releases[i] = <<region, n>>})
Released == /\ \A n \in Upto(launch.words[1]) : Written(1, n) = 4
            /\ \A n \in Upto(launch.words[2]) : Written(2, n) = 1
Covered == /\ CountsRed => \A x \in Cell : written[x] = 1
           /\ \A x \in Cell : cover[x] = 1
           /\ CountsRed /\ Stages = 4 => \A x \in Cell : red[x] = 2
           /\ Released
Join == /\ main = "run"
        /\ \A w \in Worker : cta[w] = None
        /\ failed \/ left = {}
        /\ IF failed THEN main' = "raised" /\ UNCHANGED <<round, left>>
           ELSE IF round + 1 < Rounds
                THEN round' = round + 1 /\ left' = Cta /\ UNCHANGED main
                ELSE /\ main' = IF Covered THEN "returned" ELSE "raised"
                     /\ UNCHANGED <<round, left>>
        /\ UNCHANGED <<asked, private, counts, buffer, output, failed>>

Work(w) == \/ Claim(w) \/ Outside(w) \/ DotThrows(w) \/ InitRead(w) \/ InitCount(w) \/ InitValue(w)
           \/ RedRead(w) \/ RedValue(w) \/ RedTally(w) \/ RedCount(w)
           \/ Load(w) \/ OutRead(w) \/ OutCount(w) \/ OutValue(w) \/ StageEnd(w)

RNext == (\E w \in Worker : Work(w)) \/ Join

RSpec == RInit /\ [][RNext]_rvars

-----------------------------------------------------------------------------
(* The operations of a stage, each given by its CTA and its place there,   *)
(* and those on cell x. *)
Sites(z)    == UNION {{<<c, i>> : i \in DOMAIN map[c][z]} : c \in Cta}
OpAt(z, s)  == map[s[1]][z][s[2]]
On(x, z)    == {s \in Sites(z) : OpAt(z, s).cell = x}
Owner(x, z) == CHOOSE s \in On(x, z) : TRUE
KindOf(z)   == CASE z = 0          -> "init"
                 [] z = Stages - 1 -> "out"
                 [] OTHER          -> "red"

(* A launch whose maps are sound: each stage does what is its, on each     *)
(* cell once.  Of ffn_contract's own it is enough that the tokens fill the *)
(* last half: the rest follows from the geometry.                          *)
OneOwner ==
  \A z \in Upto(Stages) :
    /\ \A s \in Sites(z) :
         /\ OpAt(z, s).kind = KindOf(z) /\ OpAt(z, s).cell \in Cell
         /\ z = Stages - 1 => \A j \in DOMAIN OpAt(z, s).from : OpAt(z, s).from[j] \in Cell
    /\ \A x \in Cell : \E s \in Sites(z) : On(x, z) = {s}
Sound == /\ launch.admitted /\ Released
         /\ IF launch.tokens = 0 THEN OneOwner ELSE launch.tokens % Rows = 0

(* What should be in cell x after the first n stages: every contribution   *)
(* the nearest half, every sum of two the nearest half.                    *)
RefAdd(h, g) ==
  LET u == Signed(h, HalfUnits(h.code)) + Signed(g, HalfUnits(g.code))
  IN  [neg |-> IF u = 0 THEN h.neg /\ g.neg ELSE u < 0, code |-> Nearest(Abs(u))]
RefDot(d)  == Number(DotUnits(d), Nearest)
StageOrder == IF Stages = 2 THEN <<0>> ELSE IF rev THEN <<0, 2, 1>> ELSE <<0, 1, 2>>
Given(x, n) == LET z == StageOrder[n] IN OpAt(z, Owner(x, z)).dot
Partial(x, n) == LET h(k) == RefDot(Given(x, k)) IN
  CASE n = 1 -> h(1)
    [] n = 2 -> RefAdd(h(1), h(2))
    [] n = 3 -> RefAdd(RefAdd(h(1), h(2)), h(3))
Sum(x) == Partial(x, Len(StageOrder))

(* A returned launch summed every buffer cell in stage order, whatever the *)
(* interleaving of the CTAs, the thread count and queue_seed, each half    *)
(* rounded to nearest: one initial store, then the REDG of each stage      *)
(* ("fixed-order REDG", ffn_contract.cpp:541).  And every output was       *)
(* computed from finished sums: no CTA loads a cell before the last        *)
(* contribution to it arrived; it is the code nearest to the sum, the      *)
(* largest one for sums beyond.                                            *)
FixedOrderSum ==
  Sound /\ main = "returned" =>
    /\ \A x \in Cell : buffer[x] = Sum(x)
    /\ \A s \in Sites(Stages - 1) : LET o == OpAt(Stages - 1, s) IN
         output[o.cell] = [j \in DOMAIN o.from |->
                             [Sum(o.from[j]) EXCEPT !.code = NearestE4(HalfUnits(@))]]

(* Whether a launch with sound maps throws depends on its numbers alone:   *)
(* some dot product is refused, or a sum in stage order is too large for a *)
(* half.  "buffer read before write", "REDG before buffer store" and the   *)
(* coverage counts, which the workers keep without a lock, report bad      *)
(* maps, never a schedule; and the maps ffn_contract admits cannot trip    *)
(* them when the tokens fill the halves.                                   *)
TooLarge(x) == \E n \in 1 .. Len(StageOrder) : Refused(Given(x, n)) \/ Partial(x, n).code = Inf
NoSpuriousThrow == Sound /\ (failed \/ main = "raised") => \E x \in Cell : TooLarge(x)

(* A buffer cell stored by two CTAs is reported                            *)
(* (qkv_projection_impl.hpp:234 throws "buffer duplicate store").          *)
DuplicateReported ==
  main = "returned" => \A x \in Cell : Cardinality({s[1] : s \in On(x, 0)}) <= 1
=============================================================================
