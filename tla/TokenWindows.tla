----------------------------- MODULE TokenWindows -----------------------------
(***************************************************************************)
(* The windows of 8 by 8 tokens that the stages work in: how b00, tin and  *)
(* b70 lay them over an image, what tin pools out of it, and the padding   *)
(* it clears behind.                                                       *)
(***************************************************************************)
EXTENDS Integers, FiniteSets

CONSTANT Images  \* [by, W, H, C, ox, oy, PW, PH]: which executor, extent (of
                 \* b00 and b70 the network's), channels, origin, and the
                 \* pooled extent of 256 channels; of b00 and b70 also
                 \* [cw, ch, gx, gy, pitch]: the colour extent and the grid
                 \* of the descriptor, and the bytes of a row of the texture
ASSUME ImagesAssumption ==
  \A m \in Images :
    /\ m.by \in {"tin", "b00", "b70"}
    /\ {m.W, m.H, m.C, m.PW, m.PH} \subseteq Nat /\ {m.ox, m.oy} \subseteq Int
    /\ m.by # "tin" => {m.cw, m.ch, m.gx, m.gy, m.pitch} \subseteq Nat

VARIABLE image

WInit == image \in Images

W == image.W
H == image.H

(* What run_launch accepts. *)
Geometric == /\ W > 0 /\ H > 0 /\ W % 4 = 0 /\ H % 4 = 0
             /\ image.ox \in {0, -4} /\ image.oy \in {0, -4}
(* The canvas: of 32 channels the image and its margins; otherwise up to   *)
(* the next window.                                                        *)
Canvas_NoOrigin(n, o) == IF image.C = 32 THEN n - 2 * o ELSE ((n + 7) \div 8) * 8
Canvas(n, o) == IF image.C = 32 THEN n - 2 * o ELSE ((n - o + 7) \div 8) * 8
TinFits      == Geometric /\ Canvas(W, image.ox) % 8 = 0 /\ Canvas(H, image.oy) % 8 = 0
(* b00 has one window per 8 tokens of the network's extent.  b70's grid    *)
(* starts 4 tokens outside it and is as large as the descriptor says.      *)
Across(n, o, given) == CASE image.by = "tin" -> Canvas(n, o) \div 8
                         [] image.by = "b00" -> n \div 8
                         [] image.by = "b70" -> given
GridX == Across(W, image.ox, image.gx)
GridY == Across(H, image.oy, image.gy)
Begins(o) == IF image.by = "b70" THEN -4 ELSE IF image.by = "b00" THEN 0 ELSE o
(* What configure asks of a descriptor (the grid need only be positive),   *)
(* and Texture of the colour texture.                                      *)
Described   == /\ W % 32 = 0 /\ H % 32 = 0 /\ image.gx > 0 /\ image.gy > 0
               /\ image.cw \in 1 .. W /\ image.ch \in 1 .. H
TextureFits == image.pitch >= image.cw * 8
Fits == IF image.by = "tin" THEN TinFits ELSE Described /\ TextureFits

(* Token t of task: what run_launch reads of it, and stores if it is       *)
(* inside; b70 computes rows below the colour extent but skips their store.*)
Pixel(task, t) ==
  <<(task % GridX) * 8 + (t % 8) + Begins(image.ox), (task \div GridX) * 8 + t \div 8 + Begins(image.oy)>>
Tasks == 0 .. GridX * GridY - 1
Inside(p) == p[1] \in 0 .. W - 1 /\ p[2] \in 0 .. H - 1
Stored(p) == Inside(p) /\ (image.by = "b70" => p[2] < image.ch)
(* b70 stores the 8 bytes of a pixel of the texture. *)
TexelAt(p) == p[2] * image.pitch + p[1] * 8
Meet(p, q) == IF image.by = "b70" THEN TexelAt(p) - TexelAt(q) \in -7 .. 7 ELSE p = q
Stores(p) == Cardinality({v \in Tasks \X (0 .. 63) :
                            LET q == Pixel(v[1], v[2]) IN Stored(q) /\ Meet(q, p)})
(* What is to be stored. *)
Wide == IF image.by = "b70" THEN image.cw ELSE W
High == IF image.by = "b70" THEN image.ch ELSE H

(* Pooling: PW, PH come from the parameters when there are 256 channels.   *)
Pools  == image.by = "tin" /\ image.PW > 0
PW     == IF image.C = 256 THEN image.PW ELSE W \div 2
PH     == IF image.C = 256 THEN image.PH ELSE H \div 2
PoolFits == PW * 2 >= W /\ PH * 2 >= H
PoolsOf(x, y) == {<<2 * x + i, 2 * y + j>> : i \in {0, 1}, j \in {0, 1}}
(* The padding of ds_wait, in each of the 64 planes: rows past the valid   *)
(* ones whole, the others from validW on.                                  *)
PadFrom(n)   == (n + 1) \div 2
Cleared(x, y) == image.C = 256 /\ x >= (IF y < PadFrom(H) THEN PadFrom(W) ELSE 0)

-----------------------------------------------------------------------------
(* Whatever the extent, the origin and the number of channels, tin and b00 *)
(* store every token by exactly one task and one place in its window       *)
(* (tin.cpp:158-159, b00.hpp:64-66): the tasks of a launch never meet, and *)
(* none is missed at the right or lower margin.  Nothing holds b70's grid  *)
(* against the extent (geometry.hpp:37, 43): whatever it is, every pixel   *)
(* of the colour extent that it reaches is stored exactly once, by no token *)
(* beside the colour extent either, and only those past its end are missed;*)
(* a grid with one window more than the extent has misses none.            *)
Reached(x, y)  == image.by = "b70" => x < image.gx * 8 - 4 /\ y < image.gy * 8 - 4
EveryTokenOnce == \A x \in 0 .. Wide - 1, y \in 0 .. High - 1 :
                    Stores(<<x, y>>) = IF Reached(x, y) THEN 1 ELSE 0
(* And no store of b70 leaves the texture of ch rows (outtail.cpp:94): the *)
(* tokens below the colour extent are the ones that would.                 *)
InTexture == image.by = "b70" =>
  \A task \in Tasks, t \in 0 .. 63 :
    LET q == Pixel(task, t) IN Stored(q) => TexelAt(q) \in 0 .. image.ch * image.pitch - 8
(* The tokens of a row of the network lie in a row of the texture: no code *)
(* asks for it, and it is so where the two extents are equally wide.       *)
RowsApart == image.by = "b70" => W * 8 <= image.pitch

(* "do not clear valid/aliased data" (tin.cpp:167): behind a pooled image  *)
(* of 256 channels the padding stores clear exactly the cells that no      *)
(* token pools into, and every token pools into a cell.                    *)
PaddingIsPadding ==
  Pools /\ PoolFits =>
    /\ \A x \in 0 .. PW - 1, y \in 0 .. PH - 1 :
         image.C = 256 => (Cleared(x, y) <=> \A p \in PoolsOf(x, y) : ~Inside(p))
    /\ \A x \in 0 .. W - 1, y \in 0 .. H - 1 : x \div 2 \in 0 .. PW - 1 /\ y \div 2 \in 0 .. PH - 1

(* A launch that accepts its extent and origin works on every token of the *)
(* image that its grid reaches once, keeps inside the texture, and clears  *)
(* none of what it pooled.                                                 *)
WindowsCover == Fits => (RowsApart => EveryTokenOnce /\ InTexture) /\ PaddingIsPadding
===============================================================================
