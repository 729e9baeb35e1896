----------------------------- MODULE TokenLayouts -----------------------------
(***************************************************************************)
(* The byte layouts the executors of one chain must agree on, each written *)
(* out again in every executor: activations in the workspace (tin.cpp's    *)
(* logical_of, the stores of b00.hpp, the loads of outtail.cpp), weights   *)
(* and biases in the upload (unpack, B0Weight, Matrix), the parts heads    *)
(* are given of them, and the chunks repack moves.                         *)
(*                                                                         *)
(* Sizes are the code's.  Layouts are the ones tried.                      *)
(***************************************************************************)
EXTENDS Integers, Sequences, FiniteSets, Functions

CONSTANT Layouts     \* activations [of, W, H, C, planar], matrices [of, K, N,
                     \* wide], the stages of C channels, chunks [of, rows, cols]

VARIABLE layout      \* the one looked at

LInit == layout \in Layouts

Upto(n)     == 0 .. n - 1
BitOf(v, n) == (v \div 2^n) % 2
(* perm, rowperm: a row of 16 as the matrix instruction wants it, and back. *)
Perm16 == <<0, 1, 8, 9, 2, 3, 10, 11, 4, 5, 12, 13, 6, 7, 14, 15>>
Back16 == <<0, 1, 4, 5, 8, 9, 12, 13, 2, 3, 6, 7, 10, 11, 14, 15>>

-----------------------------------------------------------------------------
(* logical_of: which (y * W + x) * C + c the byte at p holds. *)
Logical(s, x, y, c) == (y * s.W + x) * s.C + c
PlanarOf(p, s) == Logical(s, (p \div 16) % s.W, (p \div (16 * s.W)) % s.H,
                          (p \div (16 * s.W * s.H)) * 16 + Perm16[(p % 16) + 1])
(* C = 32: tiles of 4 by 4 tokens, 32 lanes of 16 bytes. *)
TileOf(p, s) ==
  LET tile == p \div 512   l == (p % 512) \div 16   b == p % 16
      x == (l \div 4) % 4
      y == l \div 16 + BitOf(b, 2) * 2
      c == (l % 4) * 2 + (b % 2) + BitOf(b, 1) * 8 + (b \div 8) * 16
  IN  Logical(s, (tile % (s.W \div 4)) * 4 + x, (tile \div (s.W \div 4)) * 4 + y, c)
(* C = 64, 128, 256: blocks of 4096 bytes, 4 rows of 1024 / C tokens.  Nine *)
(* bits of the offset are dealt as listed, the rest go to c, then to x.     *)
Dealt == <<<<"c", 0>>, <<"c", 3>>, <<"y", 1>>, <<"c", 4>>, <<"c", 1>>, <<"c", 2>>,
           <<"x", 0>>, <<"x", 1>>, <<"y", 0>>>>
Deal(s) == Dealt \o [b \in 1 .. (IF s.C = 64 THEN 1 ELSE IF s.C = 128 THEN 2 ELSE 3) |-> <<"c", b + 4>>]
                 \o [b \in 1 .. (IF s.C = 64 THEN 2 ELSE IF s.C = 128 THEN 1 ELSE 0) |-> <<"x", b + 1>>]
Gather(v, deal, axis) ==
  FoldFunctionOnSet(+, 0, [i \in DOMAIN deal |-> BitOf(v, i - 1) * 2^deal[i][2]],
                    {i \in DOMAIN deal : deal[i][1] = axis})
BlockedOf(p, s) ==
  LET deal == Deal(s)   off == p % 4096   blk == p \div 4096   xs == 1024 \div s.C
  IN  Logical(s, (blk % (s.W \div xs)) * xs + Gather(off, deal, "x"),
              (blk \div (s.W \div xs)) * 4 + Gather(off, deal, "y"), Gather(off, deal, "c"))
LogicalOf(p, s) == CASE s.planar -> PlanarOf(p, s) [] s.C = 32 -> TileOf(p, s) [] OTHER -> BlockedOf(p, s)

(* Where b00 stores channel c of pixel (x, y), and of its pooled image the *)
(* channel a byte of a plane holds; where b70 loads them.                  *)
FullStore_Rows(x, y, c, nw) ==
  LET lane == (x % 4) * 4 + (y % 2) * 16 + (c % 8) \div 2
      b    == (y % 2) * 4 + (c % 2) + ((c \div 8) % 2) * 2 + (c \div 16) * 8
  IN  ((y \div 4) * (nw \div 4) + x \div 4) * 512 + lane * 16 + b
FullStore(x, y, c, nw) ==
  LET lane == (x % 4) * 4 + (y % 2) * 16 + (c % 8) \div 2
      b    == ((y \div 2) % 2) * 4 + (c % 2) + ((c \div 8) % 2) * 2 + (c \div 16) * 8
  IN  ((y \div 4) * (nw \div 4) + x \div 4) * 512 + lane * 16 + b
PoolChannel(f) == (f \div 16) * 16 + ((f % 16) \div 4) * 2 + (f % 2) + ((f % 4) \div 2) * 8
PoolStore(x, y, f, W, H) == (f \div 16) * W * H * 16 + (y * W + x) * 16 + (f % 16)
SkipLoad(x, y, c, nw) ==
  LET inv == CHOOSE i \in Upto(512) :
               LET l == i \div 16   b == i % 16
               IN  /\ (l \div 4) % 4 = x % 4 /\ l \div 16 + BitOf(b, 2) * 2 = y % 4
                   /\ (l % 4) * 2 + (b % 2) + BitOf(b, 1) * 8 + (b \div 8) * 16 = c
  IN  ((y \div 4) * (nw \div 4) + x \div 4) * 512 + inv
FeatLoad(x, y, c, W, H) ==
  (((c \div 16) * H + y) * W + x) * 16 + (CHOOSE i \in Upto(16) : Perm16[i + 1] = c % 16)

-----------------------------------------------------------------------------
(* Weights: the byte of the upload that is row k, column n of a matrix.    *)
Unpack(k, n, m) ==
  LET rk == (k \div 16) * 16 + Back16[(k % 16) + 1]
      kt == rk \div 32   ki == rk % 32
      nt == n \div 32    ni == n % 32
      lane == (ni % 8) * 4 + (ki % 16) \div 4
      elem == (ki % 4) + (ki \div 16) * 4
      tile == IF m.wide THEN ((nt \div 4) * (m.K \div 32) + kt) * 4 + (nt % 4) ELSE kt * (m.N \div 32) + nt
  IN  tile * 1024 + (ni \div 16) * 512 + lane * 16 + ((ni \div 8) % 2) * 8 + elem
(* The other way round: the row and column a byte is put at.  b00 fills    *)
(* fragments and permutes their rows, outtail writes through the inverse.  *)
Fragment(r, m) ==
  LET i == r % 1024   tile == r \div 1024   l == (i \div 16) % 32   e == i % 8
  IN  <<(tile \div (m.N \div 32)) * 32 + (l % 4) * 4 + (e % 4) + (IF e >= 4 THEN 16 ELSE 0),
        (tile % (m.N \div 32)) * 32 + ((i \div 512) * 2 + ((i \div 8) % 2)) * 8 + l \div 4>>
FromFragment(k)    == k - (k % 16) + Back16[(k % 16) + 1]
TailRow(k)         == k - (k % 16) + Perm16[(k % 16) + 1]

(* Attention biases: query q, key j of a window of 64 tokens. *)
TokenInternal(t) == ((t \div 8) \div 4) * 32 + ((t % 8) \div 4) * 16 + ((t \div 8) % 4) * 4 + (t % 4)
BiasTin(q, j) ==
  LET r == TokenInternal(q)   k == TokenInternal(j)
  IN  ((r \div 16) * 4 + k \div 16) * 256 + ((r % 8) * 4 + (k % 8) \div 2) * 8
        + ((k % 16) \div 8) * 4 + ((r % 16) \div 8) * 2 + (k % 2)
BiasHead(q, j) ==
  LET qy == q \div 8   qx == q % 8   ky == j \div 8   kx == j % 8
  IN  BitOf(qy, 2) * 2048 + BitOf(qx, 2) * 1024 + BitOf(ky, 2) * 512 + BitOf(kx, 2) * 256
        + BitOf(qy, 0) * 128 + BitOf(qx, 1) * 64 + BitOf(qx, 0) * 32 + BitOf(ky, 0) * 16
        + BitOf(kx, 1) * 8 + BitOf(ky, 1) * 4 + BitOf(qy, 1) * 2 + BitOf(kx, 0)

(* decode_weights: where the sections of a stage begin, by walking them.   *)
Up16(o) == ((o + 15) \div 16) * 16
Sections(C, up, down) ==
  LET H      == C \div 32
      halves == IF C = 32 THEN 8 * C * C ELSE C * (4 * C + 128) + C * C
      extra  == IF up THEN 2 * C * C ELSE 0
      cs     == halves + extra + (IF ~up \/ C = 32 THEN 16 ELSE 0)
      qkv    == cs + 2 * C + (IF ~up THEN 16 ELSE 2 * C + (IF C = 32 THEN 16 ELSE 0))
      bias   == qkv + 3 * C * C
      scale  == bias + 2 * H * 4096
      proj   == Up16(scale + 4 * H)
      ca     == proj + C * C
  IN  [cs |-> cs, qkv |-> qkv, bias |-> bias, scale |-> scale, proj |-> proj, ca |-> ca,
       all |-> ca + 2 * C + (IF down THEN 2 * C * C ELSE 0)]
(* B0Weight: the same stage with an adapter of 1024 bytes before cs.       *)
HeadSections == [cs |-> 9232, qkv |-> 9312, bias |-> 12384, scale |-> 20576, proj |-> 20592, ca |-> 21616,
                 all |-> 21616 + 64]
(* b70: no adapter; behind the first channel factors those of the merge.   *)
TailSections == [cs |-> 8208, qkv |-> 8400, bias |-> 11472, scale |-> 19664, proj |-> 19680, ca |-> 20704]

(* prepare_panels: the cells of the expansion matrix (C by 4C + 128) that  *)
(* head h expands and branches with; decode_weights: the columns of qkv.   *)
Expands(h, k, j)  == <<k, h * 128 + j>>
Branches(h, k, j, C) == <<h * 32 + (k % 32), 4 * C + (k \div 32) * 32 + j>>
QkvColumn(j, C)   == LET type == j \div C   h == (j % C) \div 32   c == j % 32
                     IN  IF C = 32 THEN j ELSE h * 96 + type * 32 + c

-----------------------------------------------------------------------------
(* repack: chunks of a token, in tiles of 4 by 4 tokens or in rows of 16,  *)
(* with the 12 bits inside permuted.                                       *)
BitDest == <<2, 3, 1, 7, 8, 9, 10, 11, 4, 5, 6, 0>>
Swizzle == [v \in Upto(4096) |-> FoldFunctionOnSet(+, 0, [b \in 1 .. 12 |-> BitOf(v, b - 1) * 2^BitDest[b]], 1 .. 12)]
Tiled(g, cols)  == LET row == (g \div 256) \div cols   col == (g \div 256) % cols
                   IN  ((row \div 4) * ((cols + 3) \div 4) + col \div 4) * 4096
                         + Swizzle[((row % 4) * 4 + (col % 4)) * 256 + (g % 256)]
Raster(g)       == (g \div 4096) * 4096 + Swizzle[g % 4096]
DimsGood(d)     == /\ d.rows \in 1 .. 16383 /\ d.cols \in 1 .. 65535 /\ d.rows * d.cols <= 1000000
                   /\ d.rows % 4 = 0 /\ d.cols % 4 = 0 /\ (d.rows = 4 <=> d.cols = 4)

(* Launch 58 has a grid of whole 32s of tokens: what is left over of it     *)
(* stores zero words behind the output.                                    *)
Padded(tokens)  == ((tokens + 31) \div 32) * 32
PaddingOf(d)    == d.rows * d.cols * 256 .. Padded(d.rows * d.cols) * 256 - 1

-----------------------------------------------------------------------------
Is(of)      == layout.of = of
Onto(S, F(_), T) == {F(v) : v \in S} = T   \* of equally many: one to one
PerHead(C)  == Upto(C \div 32)

(* What one executor writes the next one reads, though each spells the     *)
(* layout out for itself: b00's full and pooled image is what tin decodes  *)
(* (b00.hpp:63-68, tin.cpp:79-92), what tin encodes is what b70 loads      *)
(* (outtail.cpp:82-84), and the three ways to read a weight, a bias and    *)
(* the sections of a stage meet the same byte of the upload.               *)
SameByte ==
  /\ Is("tokens") /\ layout.C = 32 =>
       \A x \in Upto(layout.W), y \in Upto(layout.H), c \in Upto(32) :
         LET here == Logical(layout, x, y, c)
         IN  IF layout.planar
               THEN /\ LogicalOf(FeatLoad(x, y, c, layout.W, layout.H), layout) = here
                    /\ LogicalOf(PoolStore(x, y, c, layout.W, layout.H), layout)
                         = Logical(layout, x, y, PoolChannel(c))
               ELSE /\ LogicalOf(FullStore(x, y, c, layout.W), layout) = here
                    /\ FullStore(x, y, c, layout.W) = SkipLoad(x, y, c, layout.W)
  /\ Is("matrix") /\ ~layout.wide =>
       \A r \in Upto(layout.K * layout.N) :
         LET f == Fragment(r, layout) IN Unpack(TailRow(f[1]), f[2], layout) = r
  /\ Is("matrix") =>
       \A k \in Upto(layout.K) : TailRow(FromFragment(k)) = k /\ FromFragment(TailRow(k)) = k
  /\ Is("stage") /\ layout.C = 32 =>
       /\ \A q, j \in Upto(64) : BiasTin(q, j) = BiasHead(q, j)
       /\ LET s == Sections(32, FALSE, FALSE)
          IN  /\ \A f \in DOMAIN s : HeadSections[f] = s[f] + 1024
              /\ TailSections.cs = s.cs
              /\ \A f \in DOMAIN TailSections \ {"cs"} : TailSections[f] = s[f] + 2 * 64 - 16

(* Nothing is read twice and nothing is left out: every layout is a        *)
(* permutation of its bytes, the heads share the cells of the expansion    *)
(* matrix out among themselves, and for the dimensions it accepts repack   *)
(* never throws "map not bijective" (repack.cpp:92), nor that a store of   *)
(* the padding lies outside it, is a duplicate or is missing (156-163).    *)
EachByteOnce ==
  /\ Is("tokens") => Onto(Upto(layout.W * layout.H * layout.C), LAMBDA p : LogicalOf(p, layout),
                          Upto(layout.W * layout.H * layout.C))
  /\ Is("matrix") => Onto(Upto(layout.K) \X Upto(layout.N), LAMBDA v : Unpack(v[1], v[2], layout),
                          Upto(layout.K * layout.N))
  /\ Is("stage") =>
       /\ Onto(Upto(3 * layout.C), LAMBDA j : QkvColumn(j, layout.C), Upto(3 * layout.C))
       /\ Onto(Upto(64) \X Upto(64), LAMBDA v : BiasTin(v[1], v[2]), Upto(4096))
       /\ layout.C > 32 =>
            LET C == layout.C
            IN  {Expands(h, k, j) : h \in PerHead(C), k \in Upto(C), j \in Upto(128)}
                  \cup {Branches(h, k, j, C) : h \in PerHead(C), k \in Upto(128), j \in Upto(32)}
                  = Upto(C) \X Upto(4 * C + 128)
  /\ Is("chunks") /\ DimsGood(layout) =>
       LET n == layout.rows * layout.cols * 256
       IN  /\ Onto(Upto(n), LAMBDA g : Tiled(g, layout.cols), Upto(n))
           /\ Onto(Upto(n), Raster, Upto(n))
           /\ Onto(PaddingOf(layout), Raster, PaddingOf(layout))

(* The layouts meet (SameByte), and each of them has every byte once.      *)
LayoutsAgree == SameByte /\ EachByteOnce
=============================================================================
