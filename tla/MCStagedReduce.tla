--------------------------- MODULE MCStagedReduce ---------------------------
(***************************************************************************)
(* Two CTAs, two cells and two workers.  In CrossMaps every stage of a CTA *)
(* meets what the other wrote in the stage before, as the token bands of   *)
(* projection do; TwiceMaps stores one buffer cell from two CTAs.  The     *)
(* launches of ffn_contract have the maps it admits, for token counts that *)
(* fill the last half, end inside it or are refused.  The jobs beside them *)
(* are at the end.                                                         *)
(***************************************************************************)
EXTENDS ScalarWork

x == 0
y == 1

(* Halves of 3 bits and E4 codes of 2; the largest half is 224.  Factors    *)
(* are given in units, and contributions are listed per stage.             *)
Code(u)   == Number(u, LAMBDA n : CHOOSE c \in 0 .. E4Max : E4Units(c) = n)
D(a1, b1, a2, b2, s, new) == [a |-> <<Code(a1), Code(a2)>>, b |-> <<Code(b1), Code(b2)>>,
                              seed |-> Number(s, Nearest), sm120 |-> new]
Numbers ==
  {<<D(4, 2, 0, 1, 0, TRUE), D(1, 1, 0, 1, 0, TRUE), D(1, 1, 0, 1, 1, TRUE)>>,     \* 16, 2 and 3
   <<D(6, 8, 8, 1, 0, TRUE), D(8, 8, 0, 1, 0, TRUE), D(8, -8, 0, 1, 0, TRUE)>>,    \* 112, 128 and -128
   <<D(6, 8, 8, 1, 0, FALSE), D(6, 8, 8, 1, 0, FALSE), D(0, -1, 0, 1, 0, FALSE)>>, \* 112, 112 and 0
   <<D(8, 8, 6, 8, 20, TRUE), D(2, 1, 1, 1, 1, TRUE), D(1, -3, 1, 1, 40, TRUE)>>,  \* 244, too large
   <<D(4, 4, 1, 1, 0, FALSE), D(8, 8, 1, 1, -112, FALSE), D(1, 1, 1, 1, 0, FALSE)>>} \* refused: 128 + 2 - 112

I(c, v) == [kind |-> "init", cell |-> c, dot |-> v[1]]
R(c, z, v) == [kind |-> "red", cell |-> c, dot |-> v[z + 1]]
O(c, from) == [kind |-> "out", cell |-> c, from |-> from]

Stages4(s0, s1, s2, s3) == [z \in 0 .. 3 |-> CASE z = 0 -> s0 [] z = 1 -> s1
                                               [] z = 2 -> s2 [] z = 3 -> s3]
Stages2(s0, s1) == [z \in 0 .. 1 |-> IF z = 0 THEN s0 ELSE s1]
Both(p, q) == [c \in {0, 1} |-> IF c = 0 THEN p ELSE q]

CrossMaps(v) == {Both(Stages4(<<I(x, v)>>, <<R(y, 1, v)>>, <<R(x, 2, v)>>, <<O(x, <<x, y>>)>>),
                      Stages4(<<I(y, v)>>, <<R(x, 1, v)>>, <<R(y, 2, v)>>, <<O(y, <<y>>)>>)),
                 Both(Stages4(<<I(x, v), I(y, v)>>, <<R(x, 1, v)>>, <<R(x, 2, v)>>, <<O(x, <<y>>)>>),
                      Stages4(<<>>, <<R(y, 1, v)>>, <<R(y, 2, v)>>, <<O(y, <<x>>)>>))}
QkvMaps(v)   == {Both(Stages2(<<I(x, v)>>, <<O(x, <<x, y>>)>>),
                      Stages2(<<I(y, v)>>, <<O(y, <<y, x>>)>>)),
                 Both(Stages2(<<I(x, v), I(y, v)>>, <<O(y, <<y>>)>>),
                      Stages2(<<>>, <<O(x, <<x>>)>>))}
TwiceMaps(v) == {Both(Stages2(<<I(x, v)>>, <<O(x, <<x, y>>)>>),
                      Stages2(<<I(x, v), I(y, v)>>, <<O(y, <<y>>)>>))}
(* Maps that must be refused: a REDG or a load before any store, and two   *)
(* owners of a buffer cell and of an output, and a store in the wrong stage.*)
BrokenMaps(v) == {Both(Stages4(<<I(x, v)>>, <<R(y, 1, v)>>, <<>>, <<O(x, <<x>>)>>),
                       Stages4(<<>>, <<>>, <<R(x, 2, v)>>, <<O(y, <<x>>)>>)),
                  Both(Stages4(<<I(x, v)>>, <<>>, <<>>, <<O(x, <<x>>)>>),
                       Stages4(<<>>, <<>>, <<>>, <<O(y, <<y>>)>>)),
                  Both(Stages4(<<I(x, v)>>, <<>>, <<>>, <<O(x, <<x>>)>>),
                       Stages4(<<I(x, v)>>, <<>>, <<>>, <<O(x, <<x>>)>>)),
                  Both(Stages4(<<I(x, v)>>, <<I(y, v)>>, <<>>, <<>>),
                       Stages4(<<>>, <<>>, <<>>, <<O(y, <<y>>)>>))}
Every(maps, st) ==
  {[tokens |-> 0, groups |-> 0, pairs |-> 0, dots |-> <<>>, stages |-> st, map |-> m, join |-> TRUE, counts |-> TRUE,
    admitted |-> TRUE, size |-> 2, words |-> <<0, 0>>, releases |-> <<>>] : m \in maps}
AllReleases  == <<<<1, 0>>, <<1, 0>>, <<1, 0>>, <<1, 0>>, <<2, 0>>>>
Built(v, t, releases) == Contract(t[1], t[2], t[3], releases, v)
Contracts(v) == {Built(v, t, AllReleases) :
                   t \in {<<1, 1, 1>>, <<2, 1, 1>>, <<4, 2, 1>>, <<4, 1, 2>>, <<8, 1, 1>>, <<10, 1, 1>>, <<12, 1, 1>>}}
                \cup {Built(v, <<4, 1, 1>>, Tail(AllReleases))}
Owned == UNION {Every(CrossMaps(v) \cup BrokenMaps(v), 4) \cup Every(QkvMaps(v), 2) \cup Contracts(v) : v \in Numbers}
Twice == UNION {Every(TwiceMaps(v), 2) : v \in Numbers}

-----------------------------------------------------------------------------
(* Rows of two blocks of two codes and two columns, among them the NaN     *)
(* code, seeds that are not finite and products that overflow or fall into *)
(* the refused domain.  The features and columns of a pixel include sums   *)
(* that round to zero from below, and infinities.                          *)
Near(u) == Number(u, Nearest)
Bad  == [neg |-> TRUE, code |-> E4Max + 1]
Top  == [neg |-> FALSE, code |-> Inf]

Parts == {<<Code(1), Code(-3)>>, <<Code(8), Code(8)>>, <<Code(-8), Code(1)>>, <<Code(4), Bad>>}
Codes == {p \o q : p, q \in Parts}
Starts == {<<Near(0), Near(1)>>, <<Near(40), Near(-224)>>, <<Near(3), Top>>}
Multiplied == [kind : {"row"}, a : Codes, cols : {<<c, d>> : c, d \in Codes}, seeds : Starts, sm120 : BOOLEAN]

Features3 == {Near(0), Near(1), Near(-40), Top}
Columns == {<<<<Near(1), Near(-1), Near(0), Near(1)>>, <<Near(-3), Near(20), Near(-20), Near(2)>>>>,
            <<<<Near(-1), Near(-1), Near(-2), Near(-1)>>, <<Top, Near(1), Near(1), Near(1)>>>>,
            <<<<Near(7), Near(224), Near(3), Near(-6)>>, <<Near(28), Near(-96), Near(96), Near(5)>>>>}
Pixels == [kind : {"pixel"}, noise : {Near(1), Near(-24)}, colour : Features3, history : Features3,
           constant : {Near(-2), Near(128)}, temporal : BOOLEAN, cols : Columns]
TwinJobs == Multiplied \cup Pixels \cup [kind : {"half"}, h : EveryHalf]

-----------------------------------------------------------------------------
(* The two roundings of the sources and the quantizer find the nearest     *)
(* code, and the halves are their own.                                     *)
ASSUME RoundingAssumption ==
  /\ \A a \in 0 .. 3 * HalfUnits(Inf) : HalfRound(a) = Nearest(a) /\ Publish(a) = Nearest(a)
                                        /\ SatE4(a) = NearestE4(a)
  /\ \A c \in 0 .. Inf : HalfRound(HalfUnits(c)) = c
=============================================================================
