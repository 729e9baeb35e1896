--------------------------- MODULE ContractTemplates ---------------------------
(***************************************************************************)
(* The templates ffn_contract is handed with its maps: per stage, and per  *)
(* class of warps, the matrix products to compute (wiring) and the stores. *)
(* parse_program admits them, calculate_cta runs the four warps of a CTA   *)
(* through the four stages with them.                                      *)
(*                                                                         *)
(* An expression is a node of the template.  Of its value the model keeps  *)
(* the number of bytes, and of a tile the step that computed it; that the  *)
(* numbers of a product do not overflow is assumed.  CTAs share no cells,  *)
(* so one is run.  Tokens are counted in rows of 16, as in ContractMaps.   *)
(***************************************************************************)
EXTENDS ContractMaps, FiniteSets, SequencesExt

CONSTANTS TileEps, TileSlots,  \* 16 and 64: the tiles of a warp
          Templates            \* [rows, of]: what may be handed in; of[class][z]
                               \* is [wiring, stores]

VARIABLES given, band,   \* the templates; the band of the CTA
          reverse,       \* reverse_red
          place,         \* where calculate_cta is: stage, warp, entry
          tile,          \* warp -> what its tiles hold: index -> the step
          written, covered,  \* cells of the buffer and of the output
          mixed,         \* a product has read a tile of another step
          verdictOf      \* "given", "refused", "running", "threw", "stored"

tvars == <<given, band, reverse, place, tile, written, covered, mixed, verdictOf>>

Warp   == 0 .. 3
Stages == 0 .. 3
TInit  == /\ given \in Templates /\ band \in 0 .. Bands(given.rows) - 1 /\ reverse \in BOOLEAN
          /\ place = [n |-> 1, warp |-> 0, entry |-> 1]
          /\ tile = [y \in Warp |-> <<>>] /\ written = {} /\ covered = {}
          /\ mixed = FALSE /\ verdictOf = "given"

-----------------------------------------------------------------------------
(* parse_program *)
HasEdge == 2 * Rows * Bands(given.rows) - given.rows >= Rows
Named(class) == IF class = "edge" /\ ~HasEdge THEN "live" ELSE class

RECURSIVE Zeroed(_)
ZeroHalf == [op |-> "c16", kids |-> <<>>]
ZeroPair == [op |-> "dq", kids |-> <<[op |-> "sat", kids |-> <<[op |-> "cat", kids |-> <<ZeroHalf, ZeroHalf>>]>>]>>]
(* native_zero_residual_graph: dq(part(cg)) is a pair of zeros. *)
ReadsResidual(n) == n.op = "dq" /\ n.kids[1].op = "part" /\ n.kids[1].kids[1].op = "cg"
Zeroed(n) == IF ReadsResidual(n) THEN ZeroPair ELSE [n EXCEPT !.kids = [i \in DOMAIN @ |-> Zeroed(@[i])]]
ZeroedStep(s) == [s EXCEPT !.a = [i \in DOMAIN @ |-> Zeroed(@[i])], !.b = [i \in DOMAIN @ |-> Zeroed(@[i])],
                           !.c = [i \in DOMAIN @ |-> Zeroed(@[i])]]
Wanted_Live(class, z) == given.of["live"][z].wiring
Wanted(class, z) ==
  LET w == given.of["live"][z].wiring
  IN  IF class = "edge" /\ HasEdge /\ z = 0 THEN [i \in DOMAIN w |-> ZeroedStep(w[i])] ELSE w
StoresWanted(class, z) == IF class = "edge" /\ HasEdge THEN <<>> ELSE given.of["live"][z].stores

RECURSIVE Parts(_)
Parts(n) == {n} \cup UNION {Parts(n.kids[i]) : i \in DOMAIN n.kids}
Nodes(s) == UNION {Parts(n) : n \in Range(s.a \o s.b \o s.c)}
InTiles(n)  == n.ep \in 0 .. TileEps - 1 /\ n.slot \in 0 .. TileSlots - 1
(* get_map: the maps are the 512 of validate_native_maps.                  *)
Mapped(n) == n.slot \in CASE n.op \in {"sread", "gload", "cg", "outstore"} -> 0 .. 2 * Rows - 1
                          [] n.op = "g32" -> 0 .. 16 * Rows - 1
                          [] OTHER -> 0 .. 4 * Rows - 1
Reads      == {"sread", "gload", "cg", "g32", "bufload"}
GoodNode(n) == /\ n.op = "mma" => InTiles(n) /\ n.part \in {0, 1}
               /\ n.op \in Reads => Mapped(n)
GoodClass(class, z) ==
  LET t == given.of[Named(class)][z]
  IN  /\ t.wiring = Wanted(class, z) /\ t.stores = StoresWanted(class, z)
      /\ \A s \in Range(t.wiring) : InTiles(s) /\ \A n \in Nodes(s) : GoodNode(n)
      /\ \A s \in Range(t.stores) : Mapped(s) /\ \A n \in Parts(s.value) : GoodNode(n)
Parse == /\ verdictOf = "given"
         /\ verdictOf' = IF \A class \in {"live", "dead", "edge"}, z \in Stages : GoodClass(class, z)
                         THEN "running" ELSE "refused"
         /\ UNCHANGED <<given, band, reverse, place, tile, written, covered, mixed>>

-----------------------------------------------------------------------------
(* calculate_cta *)
Stage   == (IF reverse THEN <<0, 2, 1, 3>> ELSE <<0, 1, 2, 3>>)[place.n]
HalfOf(y) == y \div 2
ClassOf(y) == CASE HalfOf(y) = 0 -> "live" [] Masked(given.rows, band, HalfOf(y)) -> "edge" [] OTHER -> "dead"
Template == given.of[Named(ClassOf(place.warp))][Stage]
LiveHere == Live(given.rows, band, HalfOf(place.warp))
RowOf(j) == (2 * band + HalfOf(place.warp)) * Rows + j \div 2

(* evaluate: the bytes of a node, Threw when it throws. *)
Threw == -1
ZeroSource(j) == RowOf(j) >= 2 * ((given.rows + 1) \div 2)
Readable(n) ==
  CASE n.op = "sread"   -> ZeroSource(n.slot) \/ RowOf(n.slot) < given.rows
    [] n.op = "gload"   -> TRUE
    [] n.op = "g32"     -> Stage = 0
    [] n.op = "cg"      -> Stage = 0 /\ LiveHere /\ RowOf(n.slot) < given.rows
    [] n.op = "bufload" -> Stage = 3 /\ LiveHere /\ <<place.warp, n.slot>> \in written
RECURSIVE Bytes(_)
AllBytes(kids, most) ==
  LET w == [i \in DOMAIN kids |-> Bytes(kids[i])]
      n == FoldSeq(+, 0, w)
  IN  IF (\E i \in DOMAIN w : w[i] = Threw) \/ n > most THEN Threw ELSE n
Bytes(n) ==
  LET w == [i \in DOMAIN n.kids |-> Bytes(n.kids[i])]
  IN  CASE n.op \in Reads -> IF Readable(n) THEN 4 ELSE Threw
        [] n.op = "mma"  -> 4
        [] n.op = "c16"  -> 2
        [] n.op = "cat"  -> AllBytes(n.kids, 16)
        [] n.op = "part" -> IF 2 * n.part + 2 > w[1] THEN Threw ELSE 2
        [] n.op = "dq"   -> IF w[1] \in 0 .. 8 THEN 2 * w[1] ELSE Threw
        [] n.op = "sat"  -> IF w[1] = Threw \/ w[1] % 2 = 1 THEN Threw ELSE w[1] \div 2
        [] n.op \in {"add", "mul"} -> IF w[1] = Threw \/ w[1] # w[2] \/ w[1] % 2 = 1 THEN Threw ELSE w[1]

Index(n)    == n.ep * TileSlots + n.slot
HeldBy(y, i) == IF i \in DOMAIN tile[y] THEN tile[y][i] ELSE <<>>
(* An MMA node meets the tile of the step it names, of this stage.         *)
Meets(n)    == HeldBy(place.warp, Index(n)) = <<Stage, n.ep, n.slot>>
Mixes(nodes) == \E n \in nodes : n.op = "mma" /\ ~Meets(n)

Goto(n, y, e) == place' = [n |-> n, warp |-> y, entry |-> e]
Entries  == Len(Template.wiring) + Len(Template.stores)
Onward   == Goto(place.n, place.warp, place.entry + 1)
Fail     == verdictOf' = "threw" /\ UNCHANGED <<place, tile, written, covered>>
Shape(s) == AllBytes(s.a, 16) = 16 /\ AllBytes(s.b, 8) = 8 /\ AllBytes(s.c, 8) = 8

Product ==
  /\ verdictOf = "running" /\ place.entry <= Len(Template.wiring)
  /\ LET s == Template.wiring[place.entry]
     IN  /\ mixed' = (mixed \/ Mixes(Nodes(s)))
         /\ IF Shape(s)
              THEN /\ tile' = [tile EXCEPT ![place.warp] =
                         [i \in DOMAIN @ \cup {Index(s)} |->
                            IF i = Index(s) THEN <<Stage, s.ep, s.slot>> ELSE @[i]]]
                   /\ Onward /\ UNCHANGED <<verdictOf, written, covered>>
              ELSE Fail
  /\ UNCHANGED <<given, band, reverse>>

(* The predicate of the store's map, and the stage each kind is for.       *)
StageOf == [bufstore |-> {0}, red |-> {1, 2}, outstore |-> {3}]
CellOf(s)  == <<place.warp, s.slot>>
InOrder(s) == CASE s.op = "bufstore" -> CellOf(s) \notin written
                [] s.op = "red"      -> CellOf(s) \in written
                [] OTHER             -> CellOf(s) \notin covered
Store ==
  /\ verdictOf = "running" /\ place.entry > Len(Template.wiring) /\ place.entry <= Entries
  /\ LET s == Template.stores[place.entry - Len(Template.wiring)]
     IN  /\ mixed' = (mixed \/ Mixes(Parts(s.value)))
         /\ IF LiveHere /\ Stage \in StageOf[s.op] /\ Bytes(s.value) = 16 /\ InOrder(s)
              THEN /\ written' = IF s.op = "bufstore" THEN written \cup {CellOf(s)} ELSE written
                   /\ covered' = IF s.op = "outstore" THEN covered \cup {CellOf(s)} ELSE covered
                   /\ Onward /\ UNCHANGED <<verdictOf, tile>>
              ELSE Fail
  /\ UNCHANGED <<given, band, reverse>>

Turn == /\ verdictOf = "running" /\ place.entry > Entries
        /\ IF place.warp < 3 THEN Goto(place.n, place.warp + 1, 1) /\ UNCHANGED verdictOf
           ELSE IF place.n < 4 THEN Goto(place.n + 1, 0, 1) /\ UNCHANGED verdictOf
           ELSE verdictOf' = "stored" /\ UNCHANGED place
        /\ UNCHANGED <<given, band, reverse, tile, written, covered, mixed>>

TNext == Parse \/ Product \/ Store \/ Turn

-----------------------------------------------------------------------------
(* Live templates that mean what they say: the residual is read as the     *)
(* pair that is replaced at the edge, the buffer in stores alone, and an   *)
(* MMA node names a product that stands before it in the stage.            *)
RECURSIVE Sane(_, _)
Sane(n, storing) ==
  \/ ReadsResidual(n)
  \/ /\ n.op # "cg" /\ (n.op = "bufload" => storing)
     /\ \A i \in DOMAIN n.kids : Sane(n.kids[i], storing)
Computed(n, w)     == \E i \in DOMAIN w : w[i].ep = n.ep /\ w[i].slot = n.slot
Mmas(nodes)      == {n \in nodes : n.op = "mma"}
LiveSound ==
  \A z \in Stages : LET t == given.of["live"][z] IN
    /\ \A k \in DOMAIN t.wiring : LET s == t.wiring[k] IN
         /\ \A n \in Range(s.a \o s.b \o s.c) : Sane(n, FALSE)
         /\ \A m \in Mmas(Nodes(s)) : Computed(m, SubSeq(t.wiring, 1, k - 1))
    /\ \A s \in Range(t.stores) : /\ Sane(s.value, TRUE)
                                  /\ \A m \in Mmas(Parts(s.value)) : Computed(m, t.wiring)

(* What works for live warps works for every warp of an admitted template: *)
(* no masked half reads the residual, the buffer or a map that excludes    *)
(* it, so a launch never throws for its edge alone ("native masked edge    *)
(* emits stores", ffn_contract.cpp:323); and though evaluate asks for no   *)
(* stage (ffn_contract.cpp:400), every product reads tiles of its own      *)
(* stage, not what an earlier stage or another slot left there.  The rows  *)
(* fill the halves.                                                        *)
EdgeFollowsLive ==
  verdictOf \in {"threw", "running", "stored"} /\ LiveSound /\ given.rows % Rows = 0 =>
    /\ verdictOf = "threw" => ClassOf(place.warp) = "live"
    /\ ~mixed
================================================================================
