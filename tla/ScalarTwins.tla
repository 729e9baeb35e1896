------------------------------ MODULE ScalarTwins ------------------------------
(***************************************************************************)
(* The scalar code that exists twice.  Every executor spells out the gate  *)
(* of the network again; tables stand in for functions that throw; the     *)
(* matrix products of tin read a row that was decoded before, and those of *)
(* b00 values that were cached before.  A second form is right when it     *)
(* gives what the first one gives, and when the first to throw throws the  *)
(* same.                                                                   *)
(*                                                                         *)
(* Numbers are those of HalfFloat, and its codes end before the NaNs: here *)
(* the code after Inf, and after E4Max, is a NaN.  The factors of the gate *)
(* are in units of the smallest half.                                      *)
(***************************************************************************)
EXTENDS HalfFloat, Sequences

CONSTANTS HmmaLow,              \* 21: no exponent counts as less than -HmmaLow
          Room,                 \* 52: bits of the accumulator
          Limit, Slope, Middle, Shift, \* 4, 0.0559..., 0.4472... and 0.8945...
          Block,                \* 32: codes of one product
          Nothing,
          Jobs                  \* [kind |-> "half", h], [kind |-> "row", a, cols,
                                \* seeds, sm120] or [kind |-> "pixel", noise,
                                \* colour, history, constant, temporal, cols]

ASSUME TwinsAssumption ==
  /\ {HmmaLow, Limit, Slope, Middle, Shift} \subseteq Nat /\ {Room, Block} \subseteq Nat \ {0}
  /\ HmmaLow + AccBits <= 2 * HalfFrac

VARIABLES job,    \* what is computed
          at,     \* the next step of it, or "done"
          row,    \* the decoded row of codes; the features of the pixel
          cached, \* the values of the features, once looked up
          k, total, \* codes of the column multiplied so far, and their sum
          sums,   \* the columns finished
          codes,  \* what is published of them
          error   \* the message thrown
vars == <<job, at, row, cached, k, total, sums, codes, error>>

Value(v) == [value |-> v, error |-> Nothing]
Throw(e) == [value |-> Nothing, error |-> e]

IsNaN(x)    == x.code > Inf
Infinite(x) == x.code = Inf
PlusZero    == [neg |-> FALSE, code |-> 0]
HalfOf(u)   == Number(u, HalfRound)
UnitsOf(x)  == Signed(x, HalfUnits(x.code))

-----------------------------------------------------------------------------
(* Half arithmetic.  A product counts units of 2^(-2 * HalfFrac), and its   *)
(* half has a step of its binade, or of the smallest half.                 *)
Stepped(a, sh) == LET n == a \div Pow2[sh]
                      r == a % Pow2[sh]
                      up == 2 * r > Pow2[sh] \/ (2 * r = Pow2[sh] /\ n % 2 = 1)
                  IN  (IF up THEN n + 1 ELSE n) * Pow2[sh - HalfFrac]
FineRound(a) == IF a = 0 THEN 0 ELSE HalfRound(Stepped(a, Max({Log2(a) - MantBits, HalfFrac})))
FineHalf(u) == [neg |-> u < 0, code |-> FineRound(Abs(u))]

NaNHalf == "NaN half publication outside measured domain"
HalfMul(x, y) ==
  LET neg == x.neg # y.neg
  IN  CASE \/ IsNaN(x) \/ IsNaN(y)
           \/ Infinite(x) /\ y.code = 0
           \/ Infinite(y) /\ x.code = 0     -> Throw(NaNHalf)
        [] Infinite(x) \/ Infinite(y)       -> Value([neg |-> neg, code |-> Inf])
        [] OTHER -> Value([neg |-> neg, code |-> FineRound(HalfUnits(x.code) * HalfUnits(y.code))])
(* h_fma of finite halves, and the same sum without the fused operation:   *)
(* a double holds the product exactly.                                     *)
HalfFma(x, y, z) == FineHalf(UnitsOf(x) * UnitsOf(y) + UnitsOf(z) * Pow2[HalfFrac])
HalfMin(x, y) == IF UnitsOf(x) < UnitsOf(y) THEN x ELSE y
HalfMax(x, y) == IF UnitsOf(x) > UnitsOf(y) THEN x ELSE y
Magnitude(x)  == [x EXCEPT !.neg = FALSE]

-----------------------------------------------------------------------------
(* sat_e4 and its table, where a byte no half saturates to stands for the  *)
(* error.                                                                  *)
NaNQuantized == "NaN into E4M3 quantizer"
(* All halves, in the order of their bits: those from zero to the NaN, then *)
(* the negative ones.                                                      *)
AllHalves == [n \in 1 .. 2 * (Inf + 2) |-> IF n <= Inf + 2 THEN [neg |-> FALSE, code |-> n - 1]
                                           ELSE [neg |-> TRUE, code |-> n - Inf - 3]]
EveryHalf == {AllHalves[n] : n \in DOMAIN AllHalves}

SatReference(x) == IF IsNaN(x) THEN Throw(NaNQuantized)
                   ELSE Value([neg |-> x.neg, code |-> SatE4(HalfUnits(x.code))])
Sentinel    == [neg |-> TRUE, code |-> E4Max + 1]
Entry(o)     == IF o.error = Nothing THEN o.value ELSE Sentinel
SatTable     == [x \in EveryHalf |-> Entry(SatReference(x))]
Looked(b)    == IF b = Sentinel THEN Throw(NaNQuantized) ELSE Value(b)
SatLookup(x) == Looked(SatTable[x])
Quantized(o) == IF o.error = Nothing THEN SatLookup(o.value) ELSE o

(* The gates of tin, which clamps a double; of b00 and b70, which clamp a   *)
(* half from above first; and of ffn_expand, which takes finite halves.    *)
Factored(x, clamped) ==
  LET linear == HalfFma(Magnitude(clamped), HalfOf(-Slope), HalfOf(Middle))
      factor == HalfFma(clamped, linear, HalfOf(Shift))
  IN  Quantized(HalfMul(x, factor))
GateTin(x) ==
  LET c == CASE UnitsOf(x) < -Limit -> -Limit
             [] UnitsOf(x) > Limit  -> Limit
             [] OTHER               -> UnitsOf(x)
      l == FineHalf(Middle * Pow2[HalfFrac] - Abs(c) * Slope)
      f == FineHalf(c * UnitsOf(l) + Shift * Pow2[HalfFrac])
  IN  IF IsNaN(x) THEN Throw(NaNHalf) ELSE Quantized(HalfMul(x, f))
GateHead(x) == IF IsNaN(x) THEN Throw("NaN min")
               ELSE Factored(x, HalfMax(HalfMin(x, HalfOf(Limit)), HalfOf(-Limit)))
GateExpand(x) == IF IsNaN(x) \/ Infinite(x) THEN Throw("nonfinite gate input")
                 ELSE Factored(x, HalfMin(HalfMax(x, HalfOf(-Limit)), HalfOf(Limit)))

(* generate and lookup: a value or the place of a message in a catalogue,  *)
(* which grows as the halves are tried one after the other.  The gate has  *)
(* one message; the limit of 255 is not reached.                           *)
Gated     == [x \in EveryHalf |-> GateTin(x)]
Added(known, e) == IF e = Nothing \/ \E i \in DOMAIN known : known[i] = e THEN known ELSE Append(known, e)
Catalogue[n \in 0 .. Len(AllHalves)] ==
  IF n = 0 THEN <<>> ELSE Added(Catalogue[n - 1], Gated[AllHalves[n]].error)
Errors    == Catalogue[Len(AllHalves)]
Filed(o)  == [outcome |-> IF o.error = Nothing THEN 0 ELSE CHOOSE i \in DOMAIN Errors : Errors[i] = o.error,
              value |-> o.value]
GateTable == [x \in EveryHalf |-> Filed(Gated[x])]
Found(t)  == IF t.outcome = 0 THEN Value(t.value) ELSE Throw(Errors[t.outcome])
GateLookup(x) == Found(GateTable[x])

-----------------------------------------------------------------------------
(* qmma_dot: the seed is looked at before the codes, the codes before the  *)
(* sum.  The limit of 2^52 is not reached.                                 *)
Product(d, nan) ==
  CASE d.seed.code >= Inf  -> Throw("nonfinite QMMA seed")
    [] nan                 -> Throw("E4M3 NaN code")
    [] D27(d)              -> Throw("D27 QMMA counterexample domain")
    [] Dot(d).code >= Inf  -> Throw("QMMA half overflow")
    [] OTHER               -> Value(Dot(d))
QmmaDot(a, b, seed, sm120) ==
  Product([a |-> a, b |-> b, seed |-> seed, sm120 |-> sm120],
          \E i \in DOMAIN a : a[i].code > E4Max \/ b[i].code > E4Max)

(* make_e4_table: values, here as the codes that have them, and flags that *)
(* qmma_decoded looks at in the place of the codes.                        *)
E4Table(c) == IF c.code > E4Max THEN [value |-> PlusZero, nan |-> TRUE] ELSE [value |-> c, nan |-> FALSE]
Decoded(s) == [i \in DOMAIN s |-> E4Table(s[i])]
QmmaDecoded(av, bv, seed, sm120) ==
  Product([a |-> [i \in DOMAIN av |-> av[i].value], b |-> [i \in DOMAIN bv |-> bv[i].value],
           seed |-> seed, sm120 |-> sm120],
          \E i \in DOMAIN av : av[i].nan \/ bv[i].nan)

(* hmma_dot and hmma_cached: the terms are cut AccBits below the largest   *)
(* sum of exponents, and a zero is published without a sign.  Exponents    *)
(* are read from the halves, everything else from the values.              *)
HalfExp(x)  == Max({x.code \div Pow2[MantBits], 1}) - (HalfFrac - MantBits + 1)
Grid(exps)  == Max({-HmmaLow} \cup exps) - AccBits + 2 * HalfFrac
Canonical(x) == IF x.code = 0 THEN PlusZero ELSE x
HmmaCached(a, av, b) ==
  LET some == {i \in DOMAIN a : av[i].code # 0 /\ b[i].code # 0}
      grid == Grid({HalfExp(a[i]) + HalfExp(b[i]) : i \in some})
      p    == [i \in DOMAIN a |-> UnitsOf(av[i]) * UnitsOf(b[i])]
  IN  CASE \E i \in DOMAIN a : av[i].code >= Inf \/ b[i].code >= Inf -> Throw("LOONG HMMA nonfinite operand")
        [] some = {} -> Value(PlusZero)
        [] \E i \in DOMAIN a : Abs(p[i]) >= Pow2[Room + grid] -> Throw("LOONG HMMA accumulator range")
        [] OTHER -> Value(Canonical(FineHalf(SumFunction([i \in DOMAIN a |-> Place(p[i], grid)]))))
HmmaDot(a, b) == HmmaCached(a, a, b)
(* hmma_seed, of b70: the exponent of the seed is that of its value, and    *)
(* infinity is refused.                                                    *)
HmmaSeed(a, b, seed) ==
  LET s    == UnitsOf(seed)
      some == {i \in DOMAIN a : a[i].code # 0 /\ b[i].code # 0}
      grid == Grid({HalfExp(a[i]) + HalfExp(b[i]) : i \in some}
                   \cup (IF s = 0 THEN {} ELSE {Log2(Abs(s)) - HalfFrac}))
      sum  == SumFunction([i \in DOMAIN a |-> Place(UnitsOf(a[i]) * UnitsOf(b[i]), grid)])
                + Place(s * Pow2[HalfFrac], grid)
  IN  CASE seed.code >= Inf -> Throw("HMMA nonfinite seed")
        [] \E i \in DOMAIN a : a[i].code >= Inf \/ b[i].code >= Inf -> Throw("HMMA nonfinite")
        [] Abs(sum) >= Pow2[Room + grid] -> Throw("HMMA exact range")
        [] FineHalf(sum).code >= Inf     -> Throw("HMMA half overflow")
        [] OTHER                         -> Value(Canonical(FineHalf(sum)))

-----------------------------------------------------------------------------
SInit ==
  /\ job \in Jobs
  /\ at = (CASE job.kind = "row" -> "decode" [] job.kind = "pixel" -> "features" [] OTHER -> "done")
  /\ row = <<>> /\ cached = <<>> /\ k = 0 /\ total = PlusZero
  /\ sums = <<>> /\ codes = <<>> /\ error = Nothing

Thrown(o) == /\ o.error # Nothing
             /\ error' = o.error /\ at' = "done"
             /\ UNCHANGED <<job, row, cached, k, total, sums, codes>>

(* multiply: a row is decoded before its columns; window: the gate follows *)
(* the last column.                                                        *)
DecodeRow == /\ at = "decode"
             /\ row' = Decoded(job.a) /\ total' = job.seeds[1] /\ at' = "multiply"
             /\ UNCHANGED <<job, cached, k, sums, codes, error>>
Here      == Len(sums) + 1
Summed    == QmmaDecoded(SubSeq(row, k + 1, k + Block), SubSeq(Decoded(job.cols[Here]), k + 1, k + Block),
                         total, job.sm120)
NextBlock(o)  == /\ k + Block < Len(row)
                 /\ total' = o.value /\ k' = k + Block
                 /\ UNCHANGED <<job, at, row, cached, sums, codes, error>>
LastBlock(o)  == /\ k + Block >= Len(row)
                 /\ sums' = Append(sums, o.value) /\ k' = 0
                 /\ IF Here < Len(job.cols) THEN total' = job.seeds[Here + 1] /\ at' = at
                                            ELSE total' = total /\ at' = "gate"
                 /\ UNCHANGED <<job, row, cached, codes, error>>
Multiply  == /\ at = "multiply"
             /\ \E o \in {Summed} :
                  Thrown(o) \/ (o.error = Nothing /\ (NextBlock(o) \/ LastBlock(o)))
Gate      == /\ at = "gate"   \* sums are finite, and no finite half has a message
             /\ LET n == Len(codes) + 1
                IN  /\ codes' = Append(codes, GateLookup(sums[n]).value)
                    /\ at' = (IF n = Len(sums) THEN "done" ELSE at)
             /\ UNCHANGED <<job, row, cached, k, total, sums, error>>

(* b0window: the colour is two features, and the history replaces one.     *)
Features  == /\ at = "features"
             /\ row' = [<<job.noise, job.colour, job.colour, job.constant>>
                          EXCEPT ![3] = IF job.temporal THEN job.history ELSE @]
             /\ at' = "cache"
             /\ UNCHANGED <<job, cached, k, total, sums, codes, error>>
Cache     == /\ at = "cache"
             /\ cached' = row /\ at' = "adapt"
             /\ UNCHANGED <<job, row, k, total, sums, codes, error>>
Adapted   == HmmaCached(row, cached, job.cols[Here])
Published(o) == /\ o.error = Nothing
                /\ sums' = Append(sums, o.value) /\ codes' = Append(codes, SatLookup(o.value).value)
                /\ at' = (IF Here = Len(job.cols) THEN "done" ELSE at)
                /\ UNCHANGED <<job, row, cached, k, total, error>>
Adapt     == /\ at = "adapt"
             /\ \E o \in {Adapted} : Thrown(o) \/ Published(o)

SNext == DecodeRow \/ Multiply \/ Gate \/ Features \/ Cache \/ Adapt
SSpec == SInit /\ [][SNext]_vars

-----------------------------------------------------------------------------
(* A row gives what multiplying the codes as they are gives, column by     *)
(* column and gate after gate, and when one product throws, the message is *)
(* that of the first column to throw in that order, however the row was    *)
(* decoded (decode_reuse.inc:9: flags are consumed only at the original    *)
(* dot position, after the seed).                                          *)
RowAsWritten ==
  LET blocks == Len(job.a) \div Block
      Part(s, n) == SubSeq(s, (n - 1) * Block + 1, n * Block)
      Through[j \in DOMAIN job.cols, n \in 0 .. blocks] ==
        IF n = 0 THEN Value(job.seeds[j])
        ELSE LET before == Through[j, n - 1]
             IN  IF before.error # Nothing THEN before
                 ELSE QmmaDot(Part(job.a, n), Part(job.cols[j], n), before.value, job.sm120)
      bad    == {j \in DOMAIN job.cols : Through[j, blocks].error # Nothing}
  IN  job.kind = "row" /\ at = "done" =>
        IF bad # {} THEN error = Through[Min(bad), blocks].error /\ codes = <<>>
        ELSE /\ error = Nothing
             /\ sums = [j \in DOMAIN job.cols |-> Through[j, blocks].value]
             /\ codes = [j \in DOMAIN job.cols |-> GateTin(Through[j, blocks].value).value]

(* A pixel's columns are the halves nearest to the sum of the products of  *)
(* its final features, each cut to the grid, an unsigned zero included;    *)
(* a column with an operand that is not finite ends it, and nothing else   *)
(* does: the range of the accumulator is never left (b00.hpp:39-42).       *)
FineHalves == [c \in 0 .. Inf |-> HalfUnits(c) * Pow2[HalfFrac]]
Final == <<job.noise, job.colour, IF job.temporal THEN job.history ELSE job.colour, job.constant>>
Summand(col, i) == UnitsOf(Final[i]) * UnitsOf(col[i])
CutSum(col) == SumFunction([i \in DOMAIN col |->
                 Place(Summand(col, i), Grid({HalfExp(Final[f]) + HalfExp(col[f]) :
                                                f \in {e \in DOMAIN col : Summand(col, e) # 0}}))])
PixelAsWritten ==
  job.kind = "pixel" /\ at = "done" =>
    LET bad == {j \in DOMAIN job.cols : \E i \in 1 .. 4 : Final[i].code = Inf \/ job.cols[j][i].code = Inf}
    IN  /\ error = IF bad = {} THEN Nothing ELSE "LOONG HMMA nonfinite operand"
        /\ Len(sums) = IF bad = {} THEN Len(job.cols) ELSE Min(bad) - 1
        /\ \A j \in DOMAIN sums :
             LET code == NearestOf(FineHalves, Abs(CutSum(job.cols[j])))
                 neg  == CutSum(job.cols[j]) < 0 /\ code # 0
             IN  /\ sums[j] = [neg |-> neg, code |-> code]
                 /\ codes[j] = [neg |-> neg, code |-> NearestE4(HalfUnits(code))]

(* b70's product is b00's: its seed counts as one more product, by one,    *)
(* unless the sum is too large to be published or the seed is subnormal    *)
(* (outtail.cpp:60-61, whose exponent of the seed is that of its value).   *)
One == HalfOf(Pow2[HalfFrac])
Seeds == {s \in EveryHalf : s.code = 0 \/ s.code \in Pow2[MantBits] .. Inf - 1}
TailIsHead ==
  job.kind = "pixel" /\ at = "cache" =>
    \A j \in DOMAIN job.cols : \A s \in Seeds :
      LET head == HmmaDot(Append(row, s), Append(job.cols[j], One))
          tail == HmmaSeed(row, job.cols[j], s)
      IN  IF head.error # Nothing \/ head.value.code = Inf THEN tail.error # Nothing ELSE tail = head

(* Every executor gates a half to the same code, the sign of a zero        *)
(* included, or refuses it as the others do; ffn_expand also refuses the   *)
(* infinity that the others saturate (tin.cpp:105, b00.hpp:24,             *)
(* outtail.cpp:88, ffn_expand-resume2.cpp:149-155).                        *)
GatesAgree ==
  job.kind = "half" =>
    LET tin == GateTin(job.h)   head == GateHead(job.h)   expand == GateExpand(job.h)
    IN  /\ tin = head \/ (tin.error # Nothing /\ head.error # Nothing)
        /\ IF job.h.code < Inf THEN expand = tin /\ tin.error = Nothing ELSE expand.error # Nothing

(* A table throws what its function throws, at the halves it throws at,    *)
(* and has its value everywhere else: no half saturates to the byte that   *)
(* stands for the error (primitives.inc:84), and no outcome is another's   *)
(* (unary_tables_optb2.inc:39-59).                                         *)
TablesAgree ==
  job.kind = "half" => SatLookup(job.h) = SatReference(job.h) /\ GateLookup(job.h) = GateTin(job.h)

=============================================================================
