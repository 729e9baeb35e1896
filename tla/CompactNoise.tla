----------------------------- MODULE CompactNoise -----------------------------
(***************************************************************************)
(* The compact noise tables (compact_noise_optd.hpp): values on a line     *)
(* through each block's ends, plus a residual of the block's width.  Two   *)
(* forms: DNOISE01 keeps a block's residuals lane after lane, LG2DPR01     *)
(* keeps them bit plane after bit plane.                                   *)
(*                                                                         *)
(* A file is a record; its payload is the set of its one bits.  validate   *)
(* is a loop over the blocks; at is a function of an accepted file.        *)
(***************************************************************************)
EXTENDS Integers, FiniteSets, FiniteSetsExt, Functions

CONSTANTS ByteBits,     \* 8
          ValueBits,    \* of an entry: 32
          WindowBytes,  \* bytes of the extraction window: 5
          BlockSizes,   \* the powers of two from 8 to 512
          MaxCount,     \* noise_k_count
          Expected,     \* the count the caller asks for
          Files         \* what may be handed to from_bytes

ASSUME NoiseAssumption ==
  /\ {ByteBits, ValueBits, WindowBytes} \subseteq Nat \ {0} /\ MaxCount \in Nat
  /\ BlockSizes \subseteq {b \in Nat \ {0, 1} : b % ByteBits = 0}
(* As many metadata as the header says blocks, or they could not be read.  *)
ASSUME FilesAssumption ==
  \A f \in Files :
    /\ f.form \in {"lanes", "planes"}
    /\ {f.count, f.block, f.blocks, f.payload} \subseteq Nat
    /\ f.width \in [1 .. f.blocks -> Nat] /\ f.offset \in [1 .. f.blocks -> Int]

VARIABLES file,     \* [form, count, block, blocks, width, offset, payload, ...]
          checked,  \* blocks validate has been through
          cursor, verdict

nvars == <<file, checked, cursor, verdict>>

(* What at relies on, of any file whose metadata were read. *)
Lanes   == file.form = "lanes"     \* DNOISE01; else LG2DPR01, by planes
Blocks  == 1 .. file.blocks
(* "WIDTH": 33 bits, which the window holds behind a shift of 7; a plane   *)
(* needs 32.                                                               *)
MaxWidth == IF file.form = "lanes" THEN ValueBits + 1 ELSE ValueBits
Size(i)  == (file.width[i] * file.block) \div ByteBits

NInit == file \in Files /\ checked = 0 /\ cursor = 0 /\ verdict = "header"

Refuse(why) == verdict' = why /\ UNCHANGED <<file, checked, cursor>>

(* COUNT_ENDIAN, BLOCK_LAYOUT and, of lanes, EXACT_LENGTH: the payload the *)
(* header announces is what follows.  Planes announce neither the number   *)
(* of blocks, which is derived from the count, nor a length.               *)
GoodHeader ==
  /\ file.count = Expected /\ file.count \in 1 .. MaxCount
  /\ file.block \in BlockSizes /\ file.count % file.block = 0
  /\ file.blocks = file.count \div file.block
  /\ Lanes => file.announced = file.payload
ReadHeader == /\ verdict = "header"
              /\ IF GoodHeader THEN Refuse("blocks") ELSE Refuse("header refused")

Follows_Any(i) == file.offset[i] >= cursor
Follows(i) == file.offset[i] = cursor
(* One iteration of the loop of validate. *)
CheckBlock ==
  LET i == checked + 1
  IN  /\ verdict = "blocks" /\ i \in Blocks
      /\ IF file.width[i] <= MaxWidth /\ Follows(i) /\ cursor + Size(i) <= file.payload
           THEN checked' = i /\ cursor' = cursor + Size(i) /\ UNCHANGED <<file, verdict>>
           ELSE Refuse("block refused")
(* After the loop: nothing is left over; planes close with one more offset.*)
CheckEnd == /\ verdict = "blocks" /\ checked = file.blocks
            /\ Refuse(IF cursor = file.payload /\ (~Lanes => file.last = cursor) THEN "accepted" ELSE "end refused")

NNext == ReadHeader \/ CheckBlock \/ CheckEnd
NSpec == NInit /\ [][NNext]_nvars

-----------------------------------------------------------------------------
(* at(k) of an accepted file. *)
BlockOf(k) == (k - 1) \div file.block + 1
LaneOf(k)  == (k - 1) % file.block
Sum(n, f)  == SumFunction([j \in 0 .. n - 1 |-> f[j]])
Bit(p)     == IF p \in file.ones THEN 1 ELSE 0
Byte(p)    == Sum(ByteBits, [j \in 0 .. ByteBits - 1 |-> Bit(p * ByteBits + j) * 2^j])

(* Lanes: a window of bytes, those past the payload taken as zero, shifted *)
(* and masked.  Planes: one bit of each plane.                             *)
InWindow_Short(j, p) == j < WindowBytes - 1 /\ p + j < file.payload
InWindow(j, p)       == j < WindowBytes /\ p + j < file.payload
FromLanes(k) ==
  LET w   == file.width[BlockOf(k)]
      bit == LaneOf(k) * w
      p   == file.offset[BlockOf(k)] + bit \div ByteBits
      window == Sum(WindowBytes, [j \in 0 .. WindowBytes - 1 |->
                                    IF InWindow(j, p) THEN Byte(p + j) * 2^(j * ByteBits) ELSE 0])
  IN  IF w = 0 THEN 0 ELSE (window \div 2^(bit % ByteBits)) % 2^w
FromPlanes(k) ==
  LET w   == file.width[BlockOf(k)]
      row == file.block \div ByteBits
      lane == LaneOf(k)
  IN  Sum(w, [j \in 0 .. w - 1 |->
        Bit((file.offset[BlockOf(k)] + j * row + lane \div ByteBits) * ByteBits + (lane % ByteBits)) * 2^j])

ResidualOf(zz) == IF zz % 2 = 1 THEN -(zz \div 2) - 1 ELSE zz \div 2
(* floor_div, without the build option that truncates.                     *)
FloorDiv(n, d) == n \div d
At(k) ==
  LET i     == BlockOf(k)
      a     == file.ends[i][1]
      z     == file.ends[i][2]
      lane  == LaneOf(k)
      line  == IF Lanes THEN a + FloorDiv((z - a) * lane, file.block - 1)
               ELSE a - FloorDiv((a - z) * lane, file.block - 1)
      value == line + ResidualOf(IF Lanes THEN FromLanes(k) ELSE FromPlanes(k))
  IN  CASE ~Lanes /\ k = file.count -> file.tail
        [] value \in 0 .. 2^ValueBits - 1 -> value
        [] OTHER -> -1  \* DECODED_U32_RANGE

-----------------------------------------------------------------------------
(* The bits that belong to entry k, the lowest first. *)
Place(k, j) == LET i == BlockOf(k) IN
  file.offset[i] * ByteBits + (IF Lanes THEN LaneOf(k) * file.width[i] + j ELSE j * file.block + LaneOf(k))
Places(k)   == {Place(k, j) : j \in 0 .. file.width[BlockOf(k)] - 1}

(* An accepted file gives every entry bits of its own, inside the payload, *)
(* however its widths and offsets were written: no entry is read from      *)
(* another one's residual (compact_noise_optd.hpp:60-68).                  *)
EntriesApart ==
  verdict = "accepted" =>
    \A k \in 1 .. file.count :
      /\ Places(k) \subseteq 0 .. file.payload * ByteBits - 1
      /\ \A m \in 1 .. file.count : m # k => Places(m) \cap Places(k) = {}

(* "packed LE metadata and lane-major zigzag residuals"                    *)
(* (compact_noise_optd.hpp:41): at reads exactly the entry's own bits and  *)
(* adds their residual to the line between the block's ends, rounded down  *)
(* in lanes and up in planes, also for the last entries of a payload that  *)
(* ends inside the window.                                                 *)
Code(k)    == Sum(file.width[BlockOf(k)], [j \in 0 .. file.width[BlockOf(k)] - 1 |-> Bit(Place(k, j)) * 2^j])
Coded(r)   == IF r < 0 THEN -2 * r - 1 ELSE 2 * r
OnLine(k)  ==
  LET a    == file.ends[BlockOf(k)][1]
      z    == file.ends[BlockOf(k)][2]
      run  == file.block - 1
      rise == (z - a) * LaneOf(k)
      near == Min({a, z}) .. Max({a, z})
  IN  IF Lanes THEN Max({v \in near : (v - a) * run <= rise}) ELSE Min({v \in near : (v - a) * run >= rise})
Meant(k) == LET v == OnLine(k) + (CHOOSE r \in -2^ValueBits .. 2^ValueBits - 1 : Coded(r) = Code(k))
            IN  IF v \in 0 .. 2^ValueBits - 1 THEN v ELSE -1
DecodesItsBits ==
  verdict = "accepted" =>
    \A k \in 1 .. file.count : At(k) = IF ~Lanes /\ k = file.count THEN file.tail ELSE Meant(k)
=============================================================================
