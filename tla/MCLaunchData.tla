----------------------------- MODULE MCLaunchData -----------------------------
(***************************************************************************)
(* Small instances of the data of a launch.                                *)
(***************************************************************************)
EXTENDS LaunchData

Alike == Permutations(Member) \cup Permutations(Worker)

MCKind == {[bytes |-> 1, group |-> 0], [bytes |-> 2, group |-> 1]}

-----------------------------------------------------------------------------
(* Noise tables of 4 entries of 4 bits, in bytes of 2 bits and blocks of   *)
(* 2 or 4: a file is made from the widths of its blocks, and may lie about *)
(* an offset, the length of its payload or the length it announces.        *)
SizeAt(w, b, i) == (w[i] * b) \div 2
Ahead(w, b, i)  == SumFunction([j \in 1 .. i - 1 |-> SizeAt(w, b, j)])
Table(form, b, n, w, ends, lie, extra, ones) ==
  [form |-> form, count |-> n, block |-> b, blocks |-> Len(w), width |-> w,
   offset |-> [i \in DOMAIN w |-> Ahead(w, b, i) + lie[i]],
   last |-> Ahead(w, b, Len(w) + 1),
   payload |-> Ahead(w, b, Len(w) + 1) + extra[1], announced |-> Ahead(w, b, Len(w) + 1) + extra[2],
   ends |-> [i \in DOMAIN w |-> ends], ones |-> ones, tail |-> 3]

Forms  == {"lanes", "planes"}
Lying  == {f \in {Table(form, 2, n, w, <<3, 5>>, lie, extra, {}) :
             form \in Forms, n \in {2, 4}, w \in [1 .. 2 -> {0, 1, 4, 5, 6}],
             lie \in {<<0, 0>>, <<0, 1>>, <<1, -1>>}, extra \in {<<0, 0>>, <<1, 1>>, <<1, 0>>}} :
             f.form = "lanes" \/ f.count = f.block * f.blocks}
Bits   == {{p} : p \in 0 .. 19} \cup {0 .. 19, {p \in 0 .. 19 : p % 2 = 1}}
Ends   == {<<0, 15>>, <<9, 2>>, <<3, 4>>}
Honest == {Table(form, 2, 4, w, ends, <<0, 0>>, <<0, 0>>, ones) :
             form \in Forms, w \in [1 .. 2 -> {0, 1, 3, 4, 5}], ends \in Ends, ones \in Bits}
     \cup {Table(form, 4, 4, <<w>>, ends, <<0>>, <<0, 0>>, ones) :
             form \in Forms, w \in 0 .. 5, ends \in Ends, ones \in Bits}
MCFiles == Lying \cup Honest

-----------------------------------------------------------------------------
(* Templates of three products per stage and one store, for halves of two  *)
(* rows: several seeds of stage 0, two of which read the residual in ways  *)
(* the edge cannot replace, slots at and beyond their bound, a product     *)
(* that names itself, a sum into a cell that was never stored, and         *)
(* the other classes as they should be or not.                             *)
Leaf(op, ep, slot, n) == [op |-> op, ep |-> ep, slot |-> slot, part |-> n, kids |-> <<>>]
Tree(op, kids)    == [op |-> op, kids |-> kids]
Pair(j, n)        == Tree("dq", <<[op |-> "part", part |-> n, kids |-> <<Leaf("cg", 0, j, 0)>>]>>)
Zeros             == <<Tree("cat", <<ZeroHalf, ZeroHalf, ZeroHalf, ZeroHalf>>)>>
Both(ep, slot)    == <<Leaf("mma", ep, slot, 0), Leaf("mma", ep, slot, 1)>>
Twice(s)          == s \o s
Step(ep, slot, c) == [ep |-> ep, slot |-> slot, a |-> [j \in 1 .. 4 |-> Leaf("sread", 0, j - 1, 0)],
                      b |-> [j \in 1 .. 2 |-> Leaf("gload", 0, j - 1, 0)], c |-> c]
Finished(n)       == LET x == Leaf("mma", 1, 1, n) IN Tree("sat", <<Tree("add", <<x, Leaf("bufload", 15, 0, 0)>>)>>)
StoreAt(z, cell) ==
  IF z = 3 THEN [op |-> "outstore", slot |-> 0,
                 value |-> Tree("cat", Twice(Twice(<<Finished(0), Finished(1)>>)))]
  ELSE [op |-> IF z = 0 THEN "bufstore" ELSE "red", slot |-> IF z = 0 THEN 0 ELSE cell,
        value |-> Tree("cat", Twice(Both(1, 1)))]

Seeds == {<<Pair(0, 0), Pair(1, 1)>>, <<Pair(0, 2), Pair(1, 0)>>, <<Tree("cat", <<Pair(0, 1), ZeroHalf, ZeroHalf>>)>>,
          <<Leaf("cg", 0, 0, 0), Leaf("cg", 0, 1, 0)>>, Twice(<<Leaf("g32", 0, 3, 0)>>)}
LiveOf(seed, slot, named) ==
  [z \in Stages |->
     [wiring |-> <<Step(1, 0, IF z = 0 THEN seed ELSE Zeros), Step(0, slot, Both(1, 0)), Step(1, 1, Both(named[1], named[2]))>>,
      stores |-> <<StoreAt(z, IF slot = 1 /\ named[2] = 1 THEN 1 ELSE 0)>>]]
MaskedOf(of, zeroed, stored) ==
  [z \in Stages |->
     [wiring |-> IF z = 0 /\ zeroed THEN [i \in DOMAIN of[z].wiring |-> ZeroedStep(of[z].wiring[i])] ELSE of[z].wiring,
      stores |-> IF stored THEN of[z].stores ELSE <<>>]]
MCTemplates ==
  {LET of == LiveOf(seed, slot, named)
   IN  [rows |-> rows, of |-> [live |-> of, dead |-> IF plain THEN of ELSE MaskedOf(of, TRUE, FALSE),
                               edge |-> MaskedOf(of, zeroed, stored)]] :
     seed \in Seeds, slot \in 0 .. 2, named \in {<<1, 0>>, <<1, 1>>}, rows \in {2, 3, 4, 6},
     plain, zeroed, stored \in BOOLEAN}

-----------------------------------------------------------------------------
Tokens(w, h, c, planar) == [of |-> "tokens", W |-> w, H |-> h, C |-> c, planar |-> planar]
MCLayouts ==
  {Tokens(8, 8, 32, FALSE), Tokens(16, 8, 32, FALSE), Tokens(8, 12, 32, FALSE), Tokens(8, 4, 32, TRUE),
   Tokens(4, 12, 32, TRUE), Tokens(16, 8, 64, FALSE), Tokens(32, 4, 64, FALSE), Tokens(8, 8, 128, FALSE),
   Tokens(16, 4, 128, FALSE), Tokens(4, 8, 256, FALSE), Tokens(8, 4, 256, FALSE), Tokens(4, 4, 256, TRUE)}
  \cup [of : {"stage"}, C : {32, 64, 128}]
  \cup [of : {"matrix"}, K : {32, 64, 128}, N : {32, 96}, wide : {FALSE}]
  \cup [of : {"matrix"}, K : {64}, N : {128, 384}, wide : {TRUE}]
  \cup [of : {"chunks"}, rows : {4, 8}, cols : {4, 8}]

(* Grids of b70 that end early, at the margin and behind it, rows below    *)
(* and columns beside the colour extent, a texture row the network's tokens*)
(* do not fit in and one that is refused.                                  *)
Network(by, cw, ch, gx, gy, pitch) ==
  [by |-> by, W |-> 32, H |-> 32, C |-> 32, ox |-> 0, oy |-> 0, PW |-> 0, PH |-> 0,
   cw |-> cw, ch |-> ch, gx |-> gx, gy |-> gy, pitch |-> pitch]
MCImages ==
  [by : {"tin"}, W : {4, 6, 8, 12, 20}, H : {4, 8, 12}, C : {32, 64}, ox : {0, -4}, oy : {0, -4}, PW : {0, 1}, PH : {1}]
  \cup [by : {"tin"}, W : {4, 8, 12}, H : {4, 12}, C : {256}, ox : {0, -4}, oy : {0}, PW : {2, 5, 6, 8}, PH : {2, 6, 7}]
  \cup {Network("b00", 32, 32, 5, 5, 256)}
  \cup {Network("b70", cw, ch, gx, 5, 256) : cw \in {24, 32}, ch \in {26, 32}, gx \in {4, 5}}
  \cup {Network("b70", 32, 32, 6, 6, 260), Network("b70", 32, 26, 5, 3, 256), Network("b70", 24, 32, 5, 5, 192),
         Network("b70", 32, 32, 5, 5, 248)}
===============================================================================
