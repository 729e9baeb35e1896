---------------------------- MODULE FrameRunProofs ----------------------------
(***************************************************************************)
(* That a session runs every launch with the geometry of its own frame and *)
(* refuses none without a cause, for every set of frames and launches and  *)
(* every assignment of parameters to them; that a launch stays inside the  *)
(* workspace and leaves the first of its pieces in it, for every program   *)
(* of roles; and that the static pools share their indices out exactly,    *)
(* for every number of indices and threads and every queue_seed.           *)
(***************************************************************************)
EXTENDS FrameRun, Arithmetic

(* Why it is so.  A call that got past the comparison has the parameters   *)
(* of self.cfg, which is its frame (CallInv).  _geo_key tells the truth of *)
(* all modules unless a switch is on its way or failed (KeyInv), and a     *)
(* switch in progress leaves the modules before next with the new set      *)
(* (SwitchInv).  Past the switch _geo_key is the set of the frame, but for *)
(* frame 0, which is never switched to (PastInv).  Until a later frame was *)
(* prepared _geo_key is the set of frame 0 (FirstInv).                     *)
Past    == {"configure", "run", "native", "refused"}
Handed  == {"run", "native", "refused"}
TypeInv == /\ cfg \in Frame /\ next \in Nat \ {0}
           /\ torn \in Frame \cup {NoFrame} /\ rose \in BOOLEAN
           /\ DOMAIN geo = NativeModule
           /\ session \in Sessions
CallInv == /\ brun \in {"profile", "switch"} \cup Past => cfg = call.frame /\ call.launch \in DOMAIN session.progs
           /\ brun \in {"switch"} \cup Past => Param[cfg][call.launch] = call.params
           /\ brun \in Handed => packet = call.params
           /\ brun = "native" => Bound
           /\ brun = "refused" => ~Bound
KeyInv  == /\ brun # "switch" /\ torn = NoFrame => \A m \in NativeModule : geo[m] = key
           /\ torn # NoFrame => rose /\ Param[torn] # key
SwitchInv == brun = "switch" =>
               /\ rose /\ Param[cfg] # key
               /\ \A i \in 1 .. Len(GeoModules) : i < next => geo[GeoModules[i]] = Param[cfg]
PastInv   == brun \in Past => call.frame = 0 \/ Param[cfg] = key
FirstInv  == ~rose => key = Param[0]
GInv == TypeInv /\ CallInv /\ KeyInv /\ SwitchInv /\ PastInv /\ FirstInv

(* The invariant holds when the session begins. *)
LEMMA GStarts == FInit => GInv
<1> SUFFICES ASSUME FInit PROVE GInv
  OBVIOUS
<1> USE DEF FInit, BInit
<1>1. TypeInv
  <2>1. cfg \in Frame /\ torn = NoFrame /\ session \in Sessions
    BY FrameAssumption DEF FrameAssumption
  <2>2. next \in Nat \ {0}
    OBVIOUS
  <2>3. rose \in BOOLEAN
    OBVIOUS
  <2>4. DOMAIN geo = NativeModule
    OBVIOUS
  <2> QED BY <2>1, <2>2, <2>3, <2>4 DEF TypeInv
<1>2. CallInv
  BY DEF CallInv, Past, Handed
<1>3. KeyInv /\ SwitchInv
  BY DEF KeyInv, SwitchInv
<1>4. PastInv /\ FirstInv
  BY DEF PastInv, FirstInv, Past
<1> QED BY <1>1, <1>2, <1>3, <1>4 DEF GInv

(* Choosing the frame of a call keeps it, and so does the comparison. *)
LEMMA GSelect ==
  ASSUME GInv, NEW f \in Frame, NEW l \in DOMAIN session.progs, NEW p, session' = session,
         Select(f, l, p) \/ SelectFails(f, l, p)
  PROVE  GInv'
<1> USE DEF Select, SelectFails, Free
<1>1. TypeInv'
  BY DEF GInv, TypeInv
<1>2. CallInv'
  BY DEF GInv, CallInv, Past, Handed
<1>3. KeyInv' /\ SwitchInv'
  BY DEF GInv, KeyInv, SwitchInv
<1>4. PastInv' /\ FirstInv'
  BY DEF GInv, PastInv, FirstInv, Past
<1> QED BY <1>1, <1>2, <1>3, <1>4 DEF GInv

(* The comparison of the parameters, which decides on a switch, keeps it. *)
LEMMA GCheck ==
  ASSUME GInv, session' = session, RefuseCall \/ CheckCall
  PROVE  GInv'
<1> USE DEF RefuseCall, CheckCall, Stale
<1>1. TypeInv'
  <2>1. CASE RefuseCall
    BY <2>1 DEF GInv, TypeInv
  <2>2. CASE CheckCall
    <3>1. rose' \in BOOLEAN /\ next' \in Nat \ {0}
      BY <2>2
    <3> QED BY <2>2, <3>1 DEF GInv, TypeInv
  <2> QED BY <2>1, <2>2
<1>2. CallInv'
  BY DEF GInv, CallInv, Past, Handed
<1>3. KeyInv'
  BY DEF GInv, TypeInv, KeyInv
<1>4. SwitchInv'
  <2> SUFFICES ASSUME brun' = "switch" PROVE SwitchInv'
    BY DEF SwitchInv
  <2>1. CheckCall /\ Stale
    BY DEF GInv
  <2>2. rose' = TRUE /\ Param[cfg] # key /\ next' = 1
    BY <2>1
  <2> QED BY <2>1, <2>2 DEF SwitchInv
<1>5. PastInv'
  <2>1. call.frame \in Nat /\ cfg' = cfg /\ call' = call /\ key' = key
    BY FrameAssumption DEF FrameAssumption, GInv, TypeInv, CallInv
  <2> QED BY <2>1 DEF PastInv, Past
<1>6. FirstInv'
  BY DEF GInv, TypeInv, FirstInv
<1> QED BY <1>1, <1>2, <1>3, <1>4, <1>5, <1>6 DEF GInv

(* The switch of the modules keeps it, wherever it fails. *)
LEMMA GSwitch ==
  ASSUME GInv, session' = session, SwitchModule \/ SwitchFails \/ SwitchDone
  PROVE  GInv'
<1>1. CASE SwitchModule
  <2> USE <1>1 DEF SwitchModule
  <2>1. TypeInv'
    BY DEF GInv, TypeInv
  <2>2. CallInv'
    BY DEF GInv, CallInv, Past, Handed
  <2>3. KeyInv'
    BY DEF GInv, TypeInv, KeyInv
  <2>4. SwitchInv'
    <3>1. ASSUME NEW i \in 1 .. Len(GeoModules), i < next + 1
          PROVE  geo'[GeoModules[i]] = Param[cfg]
      <4>1. GeoModules[i] \in NativeModule
        BY DEF NativeModule
      <4>2. i < next \/ i = next
        BY <3>1 DEF GInv, TypeInv
      <4> QED BY <4>1, <4>2 DEF GInv, TypeInv, SwitchInv
    <3> QED BY <3>1 DEF GInv, SwitchInv
  <2>5. PastInv' /\ FirstInv'
    BY DEF GInv, PastInv, FirstInv, Past
  <2> QED BY <2>1, <2>2, <2>3, <2>4, <2>5 DEF GInv
<1>2. CASE SwitchFails
  <2> USE <1>2 DEF SwitchFails
  <2>1. TypeInv'
    BY DEF GInv, TypeInv, CallInv
  <2>2. CallInv' /\ SwitchInv'
    BY DEF GInv, CallInv, SwitchInv, Past, Handed
  <2>3. KeyInv'
    BY FrameAssumption DEF FrameAssumption, GInv, TypeInv, CallInv, KeyInv, SwitchInv
  <2>4. PastInv' /\ FirstInv'
    BY DEF GInv, PastInv, FirstInv, Past
  <2> QED BY <2>1, <2>2, <2>3, <2>4 DEF GInv
<1>3. CASE SwitchDone
  <2> USE <1>3 DEF SwitchDone
  <2>1. TypeInv'
    BY DEF GInv, TypeInv
  <2>2. CallInv' /\ SwitchInv'
    BY DEF GInv, CallInv, SwitchInv, Past, Handed
  <2>3. KeyInv'
    <3>1. ASSUME NEW m \in NativeModule PROVE geo[m] = Param[cfg]
      <4>1. PICK i \in 1 .. Len(GeoModules) : m = GeoModules[i]
        BY DEF NativeModule
      <4>2. i < next
        BY FrameAssumption DEF FrameAssumption, GInv, TypeInv
      <4> QED BY <4>1, <4>2 DEF GInv, SwitchInv
    <3> QED BY <3>1 DEF GInv, KeyInv
  <2>4. PastInv' /\ FirstInv'
    BY DEF GInv, PastInv, SwitchInv, FirstInv, Past
  <2> QED BY <2>1, <2>2, <2>3, <2>4 DEF GInv
<1> QED BY <1>1, <1>2, <1>3

(* So do the steps of the launch, from configure to its end. *)
LEMMA GLaunch ==
  ASSUME GInv, session' = session, Configure \/ Refuse \/ Admit \/ Done
  PROVE  GInv'
<1> USE DEF Configure, Refuse, Admit, Done
<1>1. TypeInv'
  BY DEF GInv, TypeInv
<1>2. CallInv'
  BY DEF GInv, CallInv, Past, Handed, Bound, NativeModule
<1>3. KeyInv' /\ SwitchInv'
  BY DEF GInv, KeyInv, SwitchInv
<1>4. PastInv' /\ FirstInv'
  BY DEF GInv, PastInv, FirstInv, Past
<1> QED BY <1>1, <1>2, <1>3, <1>4 DEF GInv

(* Every step of a session keeps the invariant. *)
LEMMA GStep == GInv /\ [FNext]_fvars => GInv'
<1> SUFFICES ASSUME GInv, [FNext]_fvars PROVE GInv'
  OBVIOUS
<1>1. CASE Call
  <2>1. session' = session /\ session.frames \subseteq Frame
    BY <1>1, SessionAssumption DEF SessionAssumption, Call, GInv, TypeInv
  <2> QED BY <1>1, <2>1, GSelect DEF Call
<1>2. CASE Prepare
  BY <1>2, GCheck, GSwitch, GLaunch DEF Prepare, BStep, OnlyBridge
<1>3. CASE Launched \/ Ended
  BY <1>3, GLaunch DEF Launched, Ended
<1>4. CASE UNCHANGED <<bvars, session>>
  BY <1>4 DEF bvars, GInv, TypeInv, CallInv, KeyInv, SwitchInv, PastInv, FirstInv, Bound, NativeModule
<1> QED BY <1>1, <1>2, <1>3, <1>4 DEF FNext, Transfer, Pool, Finished, Failed, OnlyIO, fvars

(* The invariant holds throughout. *)
THEOREM Geometry == FSpec => []GInv
  BY GStarts, GStep, PTL DEF FSpec

(* No launch runs with the parameters or the geometry of another frame, in *)
(* a session of any frames and launches, switches that fail half way and   *)
(* returns to earlier frames included (bridge.py:145-153). *)
THEOREM RunsOwnFrame == FSpec => []OwnGeometry
<1>1. GInv => OwnGeometry
  <2> SUFFICES ASSUME GInv, brun = "native" PROVE OwnGeometry
    BY DEF OwnGeometry
  <2>1. packet = call.params /\ Bound /\ cfg = call.frame
    BY DEF GInv, CallInv, Past, Handed
  <2>2. ASSUME torn = NoFrame, ~(call.frame = 0 /\ rose), NEW m \in NativeModule
        PROVE  geo[m] = Param[call.frame]
    BY <2>1, <2>2 DEF GInv, KeyInv, PastInv, FirstInv, Past
  <2> QED BY <2>1, <2>2 DEF OwnGeometry, Bound
<1> QED BY <1>1, Geometry, PTL

(* A launch is refused for its geometry only on a return to frame 0 or     *)
(* after a switch that failed half way (bridge.py:148, 152). *)
THEOREM RefusedForCause == FSpec => []RefusalExplained
<1>1. GInv => RefusalExplained
  <2> SUFFICES ASSUME GInv, brun = "refused" PROVE RefusalExplained
    BY DEF RefusalExplained
  <2>1. packet = call.params /\ ~Bound /\ cfg = call.frame /\ Param[cfg][call.launch] = call.params
    BY DEF GInv, CallInv, Past, Handed
  <2>2. PICK m \in NativeModule : geo[m] # Param[call.frame]
    BY <2>1 DEF Bound
  <2>3. call.frame = 0 \/ Param[call.frame] = key
    BY <2>1 DEF GInv, PastInv, Past
  <2>4. CASE torn = NoFrame
    BY <2>2, <2>3, <2>4 DEF GInv, KeyInv, FirstInv, RefusalExplained
  <2>5. CASE torn # NoFrame
    BY <2>3, <2>5 DEF GInv, KeyInv, RefusalExplained
  <2> QED BY <2>4, <2>5
<1> QED BY <1>1, Geometry, PTL

-----------------------------------------------------------------------------
(* Why no access leaves the bytearray.  What a native launch runs is one   *)
(* of the session's programs or none (ProgInv), and only under the ViT     *)
(* adapter, which asks for the length again, was the bytearray resized     *)
(* (SizeInv); a role that fits has all its cells inside, because the check *)
(* forms no sum that wraps. *)
ProgInv == /\ prog.ins \in Seq(Roles) /\ prog.outs \in Seq(Roles) /\ prog.rels \in Seq(Roles)
           /\ prog.family = "vit" \/ prog.zstore = <<>>
           /\ prog.zstore # <<>> => prog.outs # <<>> /\ OneRun(prog.zstore)
           /\ role \in Nat \ {0}
SizeInv == /\ size \in Nat /\ size <= Size
           /\ moved => prog.family = "vit" \/ io = "out"
SInv == GInv /\ ProgInv /\ SizeInv /\ ~wild

(* A role that is admitted lies inside. *)
LEMMA InsideFits ==
  ASSUME SizeInv, NEW r, r.ptr \in Nat, r.len \in Nat, Fits(r), prog.family # "vit", io # "out"
  PROVE  ~Stray(r)
<1>1. PICK p \in Nat, k \in Nat : p = r.ptr /\ k = r.len
  OBVIOUS
<1>2. p >= Base /\ p - Base <= size /\ k <= size - (p - Base)
  BY <1>1 DEF Fits, InSpan
<1>3. (p - Base) % Word = p - Base
  BY <1>2, IOAssumption DEF IOAssumption, SizeInv
<1>4. Cells(r) \subseteq 0 .. size - 1
  BY <1>1, <1>2, <1>3, IOAssumption DEF IOAssumption, SizeInv, Cells
<1> QED BY <1>4 DEF Stray, SizeInv

(* The elements of four sequences one after the other. *)
Strung(p, s, t, u, v) ==
  /\ Len(p) = Len(s) + Len(t) + Len(u) + Len(v)
  /\ \A k \in 1 .. Len(s) : p[k] = s[k]
  /\ \A k \in 1 .. Len(t) : p[Len(s) + k] = t[k]
  /\ \A k \in 1 .. Len(u) : p[Len(s) + Len(t) + k] = u[k]
  /\ \A k \in 1 .. Len(v) : p[Len(s) + Len(t) + Len(u) + k] = v[k]
LEMMA Joined ==
  ASSUME NEW E, NEW s \in Seq(E), NEW t \in Seq(E), NEW u \in Seq(E), NEW v \in Seq(E)
  PROVE  Strung(s \o t \o u \o v, s, t, u, v)
  BY DEF Strung

(* A piece is an output or a release, with words for its place, told as it *)
(* is written, or else one of the zstores, which follow the first output.  *)
Plain(q) == q.ptr \in Nat /\ q.len \in Nat /\ q.tells = <<Extent(q)>>
LEMMA PieceKinds ==
  ASSUME ProgInv
  PROVE  /\ Len(Pieces(prog)) \in Nat
         /\ \A k \in 1 .. Len(Pieces(prog)) :
              \/ Plain(Pieces(prog)[k])
              \/ /\ prog.zstore # <<>>
                 /\ \E j \in 1 .. Len(prog.zstore) : k = 1 + j /\ Pieces(prog)[k] = ZStores(prog)[j]
         /\ prog.zstore # <<>> =>
              \A j \in 1 .. Len(prog.zstore) :
                1 + j \in 1 .. Len(Pieces(prog)) /\ Pieces(prog)[1 + j] = ZStores(prog)[j]
<1> DEFINE outs == [j \in 1 .. Len(prog.outs) |-> Piece(prog.outs[j], j)]
           rels == [j \in 1 .. Len(prog.rels) |-> Piece(prog.rels[j], 0)]
<1>2. PICK a \in Nat, b \in Nat : a = Len(prog.outs) /\ b = Len(prog.rels)
  BY DEF ProgInv
<1>3. /\ \A j \in 1 .. a : Plain(outs[j])
      /\ \A j \in 1 .. b : Plain(rels[j])
  <2>1. \A r \in Roles : r.ptr \in Nat /\ r.len \in Nat
    BY IOAssumption DEF Roles, IOAssumption
  <2>2. ASSUME NEW j \in 1 .. a
        PROVE  Plain(outs[j])
    <3>1. prog.outs[j] \in Roles
      BY <1>2, <2>2 DEF ProgInv
    <3>2. outs[j] = Piece(prog.outs[j], j)
      BY <1>2, <2>2
    <3> HIDE DEF outs
    <3> QED BY <2>1, <3>1, <3>2 DEF Piece, Plain, Extent
  <2>3. ASSUME NEW j \in 1 .. b
        PROVE  Plain(rels[j])
    <3>1. prog.rels[j] \in Roles
      BY <1>2, <2>3 DEF ProgInv
    <3>2. rels[j] = Piece(prog.rels[j], 0)
      BY <1>2, <2>3
    <3> HIDE DEF rels
    <3> QED BY <2>1, <3>1, <3>2 DEF Piece, Plain, Extent
  <2> QED BY <2>2, <2>3
<1>4. outs \in Seq(Range(outs)) /\ rels \in Seq(Range(rels)) /\ Len(outs) = a /\ Len(rels) = b
  BY <1>2 DEF Range
<1>5. /\ prog.zstore = <<>> => Pieces(prog) = outs \o rels
      /\ prog.zstore # <<>> => Pieces(prog) = <<outs[1]>> \o ZStores(prog) \o Tail(outs) \o rels
  BY DEF Pieces
<1> HIDE DEF outs, rels
<1>6. CASE prog.zstore = <<>>
  <2>1. /\ Len(outs \o rels) = a + b
        /\ \A k \in 1 .. a + b : (outs \o rels)[k] = IF k <= a THEN outs[k] ELSE rels[k - a]
    BY <1>4
  <2>2. ASSUME NEW k \in 1 .. a + b PROVE Plain((outs \o rels)[k])
    <3>1. CASE k <= a
      BY <1>3, <2>1, <3>1
    <3>2. CASE k > a
      <4>1. k - a \in 1 .. b
        BY <3>2
      <4> QED BY <1>3, <2>1, <3>2, <4>1
    <3>3. k <= a \/ k > a
      OBVIOUS
    <3> QED BY <3>1, <3>2, <3>3
  <2>3. Pieces(prog) = outs \o rels /\ Len(outs \o rels) \in Nat
    BY <1>5, <1>6, <2>1
  <2>4. \A k \in 1 .. Len(Pieces(prog)) : Plain(Pieces(prog)[k])
    BY <2>1, <2>2, <2>3, Zenon
  <2> QED BY <1>6, <2>3, <2>4
<1>7. CASE prog.zstore # <<>>
  <2>1. PICK z \in Nat \ {0} : z = Len(prog.zstore)
    BY <1>7 DEF ProgInv, OneRun
  <2>2. a >= 1
    BY <1>2, <1>7 DEF ProgInv
  <2>3. PICK Z : Z = ZStores(prog) /\ Z \in Seq(Range(Z)) /\ Len(Z) = z
    <3>1. PICK Z : Z = ZStores(prog)
      OBVIOUS
    <3>2. DOMAIN Z = 1 .. z /\ Z = [j \in 1 .. z |-> Z[j]]
      BY <2>1, <3>1 DEF ZStores
    <3>3. Z \in Seq(Range(Z)) /\ Len(Z) = z
      BY <2>1, <3>2 DEF Range
    <3> QED BY <3>1, <3>3
  <2>4. PICK U : U = Tail(outs) /\ U \in Seq(Range(outs)) /\ Len(U) = a - 1
                 /\ \A k \in 1 .. a - 1 : U[k] = outs[k + 1]
    <3>1. outs # <<>>
      BY <1>4, <2>2
    <3>2. Tail(outs) \in Seq(Range(outs)) /\ Len(Tail(outs)) = a - 1
      BY <1>4, <3>1
    <3>3. \A k \in 1 .. a - 1 : Tail(outs)[k] = outs[k + 1]
      BY <1>2, <1>4, <3>1
    <3> QED BY <3>2, <3>3
  <2> DEFINE P == <<outs[1]>> \o Z \o U \o rels
  <2>5. /\ Len(P) = 1 + z + (a - 1) + b
        /\ P[1] = outs[1]
        /\ \A k \in 1 .. Len(P) :
             /\ k > 1 /\ k <= 1 + z => P[k] = Z[k - 1]
             /\ k > 1 + z /\ k <= z + a => P[k] = U[k - 1 - z]
             /\ k > z + a => P[k] = rels[k - z - a]
    <3> DEFINE E == Range(outs) \cup Range(rels) \cup Range(Z) \cup {outs[1]}
    <3>1. <<outs[1]>> \in Seq(E) /\ Z \in Seq(E) /\ U \in Seq(E) /\ rels \in Seq(E)
      BY <1>4, <2>3, <2>4
    <3>2. PICK O : O = <<outs[1]>> /\ Len(O) = 1 /\ O[1] = outs[1]
      <4>1. Len(<<outs[1]>>) = 1 /\ <<outs[1]>>[1] = outs[1]
        OBVIOUS
      <4> QED BY <4>1
    <3> HIDE DEF E
    <3>3. Strung(P, O, Z, U, rels)
      BY <3>1, <3>2, Joined
    <3> HIDE DEF P
    <3>4. /\ Len(P) = 1 + z + (a - 1) + b
          /\ P[1] = outs[1]
          /\ \A j \in 1 .. z : P[1 + j] = Z[j]
          /\ \A j \in 1 .. a - 1 : P[1 + z + j] = U[j]
          /\ \A j \in 1 .. b : P[1 + z + (a - 1) + j] = rels[j]
      BY <1>4, <2>3, <2>4, <3>2, <3>3 DEF Strung
    <3>5. ASSUME NEW k \in 1 .. Len(P), k > 1, k <= 1 + z PROVE P[k] = Z[k - 1]
      <4>1. k - 1 \in 1 .. z /\ k = 1 + (k - 1)
        BY <3>5
      <4> QED BY <3>4, <4>1
    <3>6. ASSUME NEW k \in 1 .. Len(P), k > 1 + z, k <= z + a PROVE P[k] = U[k - 1 - z]
      <4>1. k - 1 - z \in 1 .. a - 1 /\ k = 1 + z + (k - 1 - z)
        BY <3>6
      <4> QED BY <3>4, <4>1
    <3>7. ASSUME NEW k \in 1 .. Len(P), k > z + a PROVE P[k] = rels[k - z - a]
      <4>1. k - z - a \in 1 .. b /\ k = 1 + z + (a - 1) + (k - z - a)
        BY <3>4, <3>7
      <4> QED BY <3>4, <4>1
    <3> QED BY <3>4, <3>5, <3>6, <3>7
  <2>6. Pieces(prog) = P
    BY <1>5, <1>7, <2>3, <2>4
  <2> HIDE DEF P
  <2>7. ASSUME NEW k \in 1 .. Len(P), ~(k > 1 /\ k <= 1 + z) PROVE Plain(P[k])
    <3>1. CASE k = 1
      BY <1>3, <2>2, <2>5, <3>1
    <3>2. CASE k > 1 + z /\ k <= z + a
      <4>1. k - z \in 1 .. a /\ k - 1 - z \in 1 .. a - 1 /\ (k - 1 - z) + 1 = k - z
        BY <3>2
      <4> QED BY <1>3, <2>4, <2>5, <3>2, <4>1
    <3>3. CASE k > z + a
      <4>1. k - z - a \in 1 .. b
        BY <2>5, <3>3
      <4> QED BY <1>3, <2>5, <3>3, <4>1
    <3> QED BY <2>2, <2>5, <2>7, <3>1, <3>2, <3>3
  <2>8. ASSUME NEW j \in 1 .. z PROVE 1 + j \in 1 .. Len(P) /\ P[1 + j] = Z[j]
    <3>1. 1 + j \in 1 .. Len(P) /\ 1 + j > 1 /\ 1 + j <= 1 + z /\ (1 + j) - 1 = j
      BY <2>2, <2>5
    <3> QED BY <2>5, <3>1
  <2>9. ASSUME NEW k \in 1 .. Len(P), k > 1, k <= 1 + z
        PROVE  \E j \in 1 .. z : k = 1 + j /\ P[k] = Z[j]
    <3>1. k - 1 \in 1 .. z /\ k = 1 + (k - 1)
      BY <2>9
    <3> QED BY <2>5, <2>9, <3>1
  <2>10. Len(P) \in Nat
    BY <2>2, <2>5
  <2> QED BY <1>7, <2>1, <2>3, <2>6, <2>7, <2>8, <2>9, <2>10
<1> QED BY <1>6, <1>7

(* The pieces of a native launch are of the first kind. *)
LEMMA PieceRole ==
  ASSUME ProgInv, prog.family # "vit", role <= Len(Pieces(prog))
  PROVE  Pieces(prog)[role].ptr \in Nat /\ Pieces(prog)[role].len \in Nat
<1>1. role \in 1 .. Len(Pieces(prog)) /\ prog.zstore = <<>>
  BY PieceKinds DEF ProgInv
<1> QED BY <1>1, PieceKinds DEF Plain

(* The invariant holds when the session begins. *)
LEMMA SStarts == FInit => SInv
<1>1. ASSUME FInit PROVE ProgInv /\ SizeInv /\ ~wild
  BY <1>1, IOAssumption DEF FInit, IOInit, Idle, ProgInv, SizeInv, IOAssumption
<1> QED BY <1>1, GStarts DEF SInv

(* A launch begins with a program of the session. *)
LEMMA SEnters == ASSUME SInv, Launched
                 PROVE  ProgInv' /\ SizeInv' /\ ~wild'
<1>1. call.launch \in DOMAIN session.progs /\ session \in Sessions
  BY DEF SInv, GInv, CallInv, TypeInv, Past, Launched, Admit
<1>2. PICK p : p = session.progs[call.launch] /\ Enter(p)
  BY DEF Launched
<1>3. /\ p.ins \in Seq(Roles) /\ p.outs \in Seq(Roles) /\ p.rels \in Seq(Roles)
      /\ p.family = "vit" \/ p.zstore = <<>>
      /\ p.zstore # <<>> => p.outs # <<>> /\ OneRun(p.zstore)
  BY <1>1, <1>2, SessionAssumption DEF SessionAssumption
<1> QED BY <1>2, <1>3 DEF Enter, SInv, ProgInv, SizeInv, Roles

(* Reading and publishing stay inside, and a resize is the adapter's. *)
LEMMA STransfers == ASSUME SInv, IOStep \/ Computed \/ ComputeFails \/ Leave
                    PROVE  ProgInv' /\ SizeInv' /\ ~wild'
<1> USE DEF SInv, ProgInv
<1>1. CASE ReadRole
  <2>1. ~Stray(prog.ins[role])
    <3>1. CASE prog.family = "vit"
      BY <3>1 DEF Stray
    <3>2. CASE prog.family # "vit"
      <4>1. prog.ins[role] \in Roles /\ Fits(prog.ins[role])
        BY <1>1 DEF ReadRole
      <4>2. prog.ins[role].ptr \in Nat /\ prog.ins[role].len \in Nat
        BY <4>1, IOAssumption DEF Roles, IOAssumption
      <4> QED BY <1>1, <3>2, <4>1, <4>2, InsideFits DEF ReadRole
    <3> QED BY <3>1, <3>2
  <2>2. ~wild'
    BY <1>1, <2>1 DEF ReadRole
  <2>3. ProgInv'
    BY <1>1 DEF ReadRole
  <2>4. SizeInv'
    BY <1>1 DEF ReadRole, SizeInv
  <2> QED BY <2>2, <2>3, <2>4
<1>2. CASE Publish
  <2>1. PICK p : p = Pieces(prog)[role] /\ Fits(p) /\ wild' = (wild \/ Stray(p))
    BY <1>2 DEF Publish
  <2>2. ~Stray(p)
    <3>1. CASE prog.family = "vit"
      BY <3>1 DEF Stray
    <3>2. CASE prog.family # "vit"
      BY <1>2, <2>1, <3>2, PieceRole, InsideFits DEF Publish
    <3> QED BY <3>1, <3>2
  <2>3. ~wild'
    BY <2>1, <2>2
  <2>4. ProgInv'
    BY <1>2 DEF Publish
  <2>5. SizeInv'
    BY <1>2 DEF Publish, SizeInv
  <2> QED BY <2>3, <2>4, <2>5
<1>3. CASE Resize
  <2>1. ~wild' /\ ProgInv'
    BY <1>3 DEF Resize
  <2>2. size' \in Nat /\ size' <= Size
    BY <1>3, IOAssumption DEF Resize, SizeInv, IOAssumption
  <2>3. prog'.family = "vit"
    BY <1>3 DEF Resize, Pinned
  <2> QED BY <2>1, <2>2, <2>3 DEF SizeInv
<1>4. CASE ReadFails \/ StartCompute \/ PublishFails \/ Return \/ Computed \/ ComputeFails
  BY <1>4 DEF ReadFails, StartCompute, PublishFails, Return, Computed, ComputeFails, SizeInv, Roles
<1>5. CASE Leave
  <2>1. ~wild' /\ ProgInv'
    BY <1>5 DEF Leave, Idle
  <2>2. SizeInv'
    BY <1>5 DEF Leave, Idle, SizeInv
  <2> QED BY <2>1, <2>2
<1> QED BY <1>1, <1>2, <1>3, <1>4, <1>5 DEF IOStep

(* Every step of a session keeps it. *)
LEMMA SStep == SInv /\ [FNext]_fvars => SInv'
<1> SUFFICES ASSUME SInv, [FNext]_fvars PROVE SInv'
  OBVIOUS
<1>1. CASE Launched
  BY <1>1, SEnters, GStep DEF SInv
<1>2. CASE Transfer \/ Finished \/ Failed \/ Ended
  BY <1>2, STransfers, GStep DEF SInv, Transfer, Finished, Failed, Ended
<1>3. CASE UNCHANGED iovars
  BY <1>3, GStep DEF SInv, iovars, ProgInv, SizeInv, Roles
<1> QED BY <1>1, <1>2, <1>3 DEF FNext, Call, Prepare, OnlyBridge, Pool, fvars

(* No native access leaves the bytearray, whatever the words of a role and *)
(* whoever tries to resize it (split16.cpp:71, backend_abi.py:223). *)
THEOREM StaysInside == FSpec => []NoWildAccess
  BY SStep, SStarts, PTL DEF FSpec, SInv, NoWildAccess

-----------------------------------------------------------------------------
(* Why the workspace is at every moment what was found with the first      *)
(* pieces over it.  The inputs copied so far are those of the moment the   *)
(* launch began, since nothing is written while they are read (ReadInv)    *)
(* and the computation holds them all (CopyInv); the pieces written so far *)
(* were admitted, and what was reported is what they tell (WroteInv); each *)
(* cell is as the last of them that covers it left it (CellInv).  At the   *)
(* end the reported ranges are the written cells: an output tells its own  *)
(* extent, and the zstores are one run of words and told as such (AllTold). *)
Extents   == [off : Int, bytes : Int]
Tells(k, c) == \E m \in 1 .. Len(Pieces(prog)[k].tells) : Spans(Pieces(prog)[k].tells[m], c)
ShapeInv == /\ ws = [c \in DOMAIN ws |-> ws[c]]
            /\ before = [c \in DOMAIN before |-> before[c]]
            /\ wrote \in Seq(Extents)
ReadInv  == io = "read" =>
              /\ ~moved /\ role <= Len(prog.ins) + 1
              /\ snap = [j \in 1 .. role - 1 |-> Contents(before, prog.ins[j])]
CopyInv  == /\ io \in {"compute", "publish"} => snap = Inputs
            /\ io = "compute" => role = 1
            /\ io \in {"read", "compute"} => wrote = <<>>
WroteInv == io \in {"publish", "returned"} =>
              /\ io = "returned" => role > Len(Pieces(prog))
              /\ role <= Len(Pieces(prog)) + 1
              /\ ~moved => \A k \in 1 .. role - 1 : Fits(Pieces(prog)[k])
              /\ \A c \in Int : (\E m \in 1 .. Len(wrote) : Spans(wrote[m], c))
                                   <=> \E k \in 1 .. role - 1 : Tells(k, c)
Placed   == IF io = "read" THEN 0 ELSE role - 1
CellInv  == io # "out" /\ ~moved => ws = After(Placed)
WInv     == SInv /\ ShapeInv /\ ReadInv /\ CopyInv /\ WroteInv /\ CellInv

(* One more piece is written over what the pieces before it left. *)
LEMMA OneMore ==
  ASSUME NEW k \in Nat
  PROVE  After(k + 1) = Overlay(After(k), Pieces(prog)[k + 1], Inputs)
<1> DEFINE q == Pieces(prog)[k + 1]
<1>1. DOMAIN After(k) = DOMAIN before /\ DOMAIN After(k + 1) = DOMAIN before
  BY DEF After
<1>2. ASSUME NEW c \in DOMAIN before
      PROVE  After(k + 1)[c] = IF c \in Cells(q) THEN Stamp(q, c, Inputs) ELSE After(k)[c]
  <2>1. CASE c \in Cells(q)
    <3>1. k + 1 \in Upon(k + 1, c) /\ \A j \in Upon(k + 1, c) : j \in Nat /\ j <= k + 1
      BY <2>1 DEF Upon
    <3>2. Max(Upon(k + 1, c)) = k + 1
      BY <3>1 DEF Max
    <3> QED BY <1>2, <2>1, <3>1, <3>2 DEF After
  <2>2. CASE c \notin Cells(q)
    <3>1. Upon(k + 1, c) = Upon(k, c)
      BY <2>2 DEF Upon
    <3> QED BY <1>2, <2>2, <3>1 DEF After
  <2> QED BY <2>1, <2>2
<1>3. After(k + 1) = [c \in DOMAIN before |-> After(k + 1)[c]]
  BY DEF After
<1> HIDE DEF q
<1>4. After(k + 1) = [c \in DOMAIN before |-> IF c \in Cells(q) THEN Stamp(q, c, Inputs) ELSE After(k)[c]]
  BY <1>2, <1>3
<1> QED BY <1>1, <1>4 DEF Overlay, q

(* An admitted piece of the first kind covers the extent it tells. *)
LEMMA PlainCells ==
  ASSUME SizeInv, NEW q, Plain(q), Fits(q), NEW c \in Int
  PROVE  c \in Cells(q) <=> Spans(Extent(q), c)
<1>1. PICK p \in Nat, len \in Nat : p = q.ptr /\ len = q.len
  BY DEF Plain
<1>2. p >= Base /\ p - Base <= size
  BY <1>1, IOAssumption DEF Fits, InSpan, InRange, IOAssumption, SizeInv
<1>3. (p - Base) % Word = p - Base
  BY <1>2, IOAssumption DEF IOAssumption, SizeInv
<1>4. Cells(q) = {(p - Base) + k : k \in 0 .. len - 1}
  BY <1>1, <1>3 DEF Cells
<1>5. Extent(q).off = p - Base /\ Extent(q).bytes = len
  BY <1>1 DEF Extent
<1>6. PICK d \in Int : d = p - Base
  BY IOAssumption DEF IOAssumption
<1>7. c \in {d + k : k \in 0 .. len - 1} <=> d <= c /\ c < d + len
  <2>1. ASSUME d <= c, c < d + len PROVE c \in {d + k : k \in 0 .. len - 1}
    <3>1. c - d \in 0 .. len - 1 /\ c = d + (c - d)
      BY <2>1
    <3> QED BY <3>1
  <2> QED BY <2>1
<1> QED BY <1>4, <1>5, <1>6, <1>7 DEF Spans

(* The zstores cover the one range they tell, once all of them fit. *)
LEMMA ZStoreCells ==
  ASSUME SizeInv, ProgInv, prog.zstore # <<>>, NEW c \in Int,
         \A j \in 1 .. Len(prog.zstore) : Fits(ZStores(prog)[j])
  PROVE  (\E j \in 1 .. Len(prog.zstore) : c \in Cells(ZStores(prog)[j]))
           <=> \E j \in 1 .. Len(prog.zstore) : \E m \in 1 .. Len(ZStores(prog)[j].tells) :
                 Spans(ZStores(prog)[j].tells[m], c)
<1> DEFINE z == prog.zstore
           f == prog.outs[1].ptr
<1>1. PICK l \in Nat \ {0} : l = Len(z)
  BY DEF ProgInv, OneRun
<1>2. \A j \in 1 .. l : z[j] \in Nat
  BY <1>1 DEF ProgInv, OneRun
<1>3. PICK a \in Nat : {z[j] : j \in 1 .. l} = a .. a + l - 1
  <2>1. ToSet(z) = {z[j] : j \in 1 .. l}
    BY <1>1 DEF ProgInv, OneRun, ToSet
  <2>2. \E a \in 0 .. Word : ToSet(z) = a .. a + l - 1
    BY <1>1 DEF ProgInv, OneRun
  <2>3. 0 .. Word \subseteq Nat
    BY IOAssumption DEF IOAssumption
  <2> QED BY <2>1, <2>2, <2>3, Zenon
<1>4. Min(ToSet(z)) = a
  <2>1. ToSet(z) = a .. a + l - 1
    BY <1>1, <1>3 DEF ProgInv, OneRun, ToSet
  <2>2. a \in ToSet(z) /\ \A x \in ToSet(z) : x \in Nat /\ a <= x
    BY <2>1
  <2>3. \E x \in ToSet(z) : \A y \in ToSet(z) : x <= y
    BY <2>2
  <2>4. PICK x : x = Min(ToSet(z))
    OBVIOUS
  <2>5. x \in ToSet(z) /\ \A y \in ToSet(z) : x <= y
    BY <2>3, <2>4, Zenon DEF Min
  <2>6. x \in Nat /\ x <= a /\ a <= x
    BY <2>2, <2>5
  <2> QED BY <2>4, <2>6
<1>5. f \in Nat
  <2>1. prog.outs[1] \in Roles
    BY DEF ProgInv
  <2> QED BY <2>1, IOAssumption DEF Roles, IOAssumption
<1>6. \A j \in 1 .. l :
        /\ ZStores(prog)[j].ptr = f + z[j]
        /\ ZStores(prog)[j].len = 1
        /\ ZStores(prog)[j].tells = IF j < l THEN <<>> ELSE <<[off |-> f - Base + a, bytes |-> l]>>
  BY <1>1, <1>4 DEF ZStores
<1>7. PICK d \in Int : d = f - Base
  BY <1>5, IOAssumption DEF IOAssumption
<1>8. prog.family = "vit"
  BY DEF ProgInv
<1> HIDE DEF f, z
<1>9. ASSUME NEW j \in 1 .. l
      PROVE  c \in Cells(ZStores(prog)[j]) <=> c = d + z[j]
  <2>1. PICK v \in Nat : v = z[j]
    BY <1>2
  <2>2. InRange(ZStores(prog)[j])
    BY <1>1, <1>8 DEF Fits, z
  <2>3. (f + v) - Base >= 0 /\ ((f + v) - Base) + 1 <= size
    <3>1. ZStores(prog)[j].ptr = f + v /\ ZStores(prog)[j].len = 1
      BY <1>6, <2>1
    <3> QED BY <2>2, <3>1 DEF InRange
  <2>4. ((f + v) - Base) % Word = d + v
    BY <1>5, <1>7, <2>3, IOAssumption DEF SizeInv, IOAssumption
  <2>5. Cells(ZStores(prog)[j]) = {(((f + v) - Base) % Word) + k : k \in 0 .. 0}
    <3>1. ZStores(prog)[j].ptr = f + v /\ ZStores(prog)[j].len = 1
      BY <1>6, <2>1
    <3>2. Cells(ZStores(prog)[j]) = {(((f + v) - Base) % Word) + k : k \in 0 .. 1 - 1}
      BY <3>1 DEF Cells
    <3> QED BY <3>2
  <2> QED BY <2>1, <2>4, <2>5
<1>10. (\E j \in 1 .. l : c = d + z[j]) <=> d + a <= c /\ c < d + a + l
  <2>1. (\E j \in 1 .. l : c = d + z[j]) <=> c - d \in {z[j] : j \in 1 .. l}
    BY <1>2
  <2>2. c - d \in a .. a + l - 1 <=> d + a <= c /\ c < d + a + l
    OBVIOUS
  <2> QED BY <1>3, <2>1, <2>2
<1>11. (\E j \in 1 .. l : \E m \in 1 .. Len(ZStores(prog)[j].tells) : Spans(ZStores(prog)[j].tells[m], c))
         <=> d + a <= c /\ c < d + a + l
  <2> DEFINE e == [off |-> f - Base + a, bytes |-> l]
  <2>1. \A j \in 1 .. l : j < l => Len(ZStores(prog)[j].tells) = 0
    BY <1>6
  <2>2. ZStores(prog)[l].tells = <<e>>
    BY <1>6
  <2>3. Len(ZStores(prog)[l].tells) = 1 /\ ZStores(prog)[l].tells[1] = e
    BY <2>2
  <2>4. Spans(e, c) <=> d + a <= c /\ c < d + a + l
    BY <1>7 DEF Spans
  <2> HIDE DEF e
  <2>5. (\E j \in 1 .. l : \E m \in 1 .. Len(ZStores(prog)[j].tells) : Spans(ZStores(prog)[j].tells[m], c))
          <=> Spans(e, c)
    BY <2>1, <2>3
  <2> QED BY <2>4, <2>5
<1> QED BY <1>1, <1>9, <1>10, <1>11 DEF z

(* When every piece was admitted, what they tell is what they cover. *)
LEMMA AllTold ==
  ASSUME SizeInv, ProgInv, \A k \in 1 .. Len(Pieces(prog)) : Fits(Pieces(prog)[k]), NEW c \in Int
  PROVE  (\E k \in 1 .. Len(Pieces(prog)) : c \in Cells(Pieces(prog)[k]))
           <=> \E k \in 1 .. Len(Pieces(prog)) : Tells(k, c)
<1> DEFINE P == Pieces(prog)
           N == Len(Pieces(prog))
           Z == ZStores(prog)
           l == Len(prog.zstore)
           One(k) == \E j \in 1 .. l : k = 1 + j /\ P[k] = Z[j]
           ZTells(j) == \E m \in 1 .. Len(Z[j].tells) : Spans(Z[j].tells[m], c)
<1>1. ASSUME NEW k \in 1 .. N, Plain(P[k])
      PROVE  c \in Cells(P[k]) <=> Tells(k, c)
  <2>1. P[k].tells = <<Extent(P[k])>>
    BY <1>1 DEF Plain
  <2>2. Tells(k, c) <=> Spans(Extent(P[k]), c)
    BY <2>1 DEF Tells
  <2> QED BY <1>1, <2>2, PlainCells
<1>2. \A k \in 1 .. N : Plain(P[k]) \/ (prog.zstore # <<>> /\ One(k))
  BY PieceKinds
<1>3. CASE prog.zstore = <<>>
  BY <1>1, <1>2, <1>3
<1>4. CASE prog.zstore # <<>>
  <2>1. \A j \in 1 .. l : 1 + j \in 1 .. N /\ P[1 + j] = Z[j]
    BY <1>4, PieceKinds
  <2>2. \A j \in 1 .. l : Fits(Z[j])
    BY <2>1
  <2>3. (\E j \in 1 .. l : c \in Cells(Z[j])) <=> \E j \in 1 .. l : ZTells(j)
    BY <1>4, <2>2, ZStoreCells
  <2>4. \A j \in 1 .. l : Tells(1 + j, c) <=> ZTells(j)
    BY <2>1 DEF Tells
  <2> HIDE DEF P, N, Z, l, ZTells
  <2>5. ASSUME NEW k \in 1 .. N, c \in Cells(P[k])
        PROVE  \E i \in 1 .. N : Tells(i, c)
    <3>1. CASE Plain(P[k])
      BY <1>1, <2>5, <3>1
    <3>2. CASE One(k)
      <4>1. \E j \in 1 .. l : ZTells(j)
        BY <2>3, <2>5, <3>2
      <4> QED BY <2>1, <2>4, <4>1
    <3> QED BY <1>2, <3>1, <3>2
  <2>6. ASSUME NEW k \in 1 .. N, Tells(k, c)
        PROVE  \E i \in 1 .. N : c \in Cells(P[i])
    <3>1. CASE Plain(P[k])
      BY <1>1, <2>6, <3>1
    <3>2. CASE One(k)
      <4>1. \E j \in 1 .. l : c \in Cells(Z[j])
        BY <2>3, <2>4, <2>6, <3>2
      <4> QED BY <2>1, <4>1
    <3> QED BY <1>2, <3>1, <3>2
  <2>7. (\E k \in 1 .. N : c \in Cells(P[k])) <=> \E k \in 1 .. N : Tells(k, c)
    BY <2>5, <2>6
  <2> QED BY <2>7 DEF P, N
<1> QED BY <1>3, <1>4

(* What a piece tells are extents. *)
LEMMA TellsExtents ==
  ASSUME ProgInv, NEW k \in 1 .. Len(Pieces(prog))
  PROVE  Pieces(prog)[k].tells \in Seq(Extents)
<1> DEFINE q == Pieces(prog)[k]
<1>1. CASE Plain(q)
  <2>1. Extent(q) \in Extents
    BY <1>1, IOAssumption DEF Plain, Extent, Extents, IOAssumption
  <2> QED BY <1>1, <2>1 DEF Plain
<1>2. ASSUME prog.zstore # <<>>, NEW j \in 1 .. Len(prog.zstore), q = ZStores(prog)[j]
      PROVE  q.tells \in Seq(Extents)
  <2>1. PICK a \in 0 .. Word : ToSet(prog.zstore) = a .. a + Len(prog.zstore) - 1
    BY <1>2 DEF ProgInv, OneRun
  <2>2. Len(prog.zstore) \in Nat \ {0}
    BY <1>2 DEF ProgInv, OneRun
  <2>3. a \in ToSet(prog.zstore) /\ \A x \in ToSet(prog.zstore) : x \in Nat /\ a <= x
    BY <2>1, <2>2, IOAssumption DEF IOAssumption
  <2>4. Min(ToSet(prog.zstore)) \in ToSet(prog.zstore)
    BY <2>3 DEF Min
  <2>5. prog.outs[1] \in Roles
    BY <1>2 DEF ProgInv
  <2>6. prog.outs[1].ptr \in Nat
    BY <2>5, IOAssumption DEF Roles, IOAssumption
  <2>7. PICK e : e = [off |-> (prog.outs[1].ptr - Base) + Min(ToSet(prog.zstore)), bytes |-> Len(prog.zstore)]
    OBVIOUS
  <2>8. e \in Extents
    <3>1. PICK p \in Nat, m \in Nat : p = prog.outs[1].ptr /\ m = Min(ToSet(prog.zstore))
      BY <2>3, <2>4, <2>6
    <3>2. (p - Base) + m \in Int
      BY IOAssumption DEF IOAssumption
    <3>3. e.off \in Int /\ e.bytes \in Int /\ e = [off |-> e.off, bytes |-> e.bytes]
      BY <2>2, <2>7, <3>1, <3>2
    <3> QED BY <3>3 DEF Extents
  <2>9. q.tells = IF j < Len(prog.zstore) THEN <<>> ELSE <<e>>
    BY <1>2, <2>7 DEF ZStores
  <2> QED BY <2>8, <2>9
<1> QED BY <1>1, <1>2, PieceKinds

(* A range spans a cell in s \o t when one does in s or in t. *)
LEMMA SpansEither ==
  ASSUME NEW s \in Seq(Extents), NEW t \in Seq(Extents), NEW c
  PROVE  (\E m \in 1 .. Len(s \o t) : Spans((s \o t)[m], c))
           <=> (\E m \in 1 .. Len(s) : Spans(s[m], c)) \/ \E m \in 1 .. Len(t) : Spans(t[m], c)
<1>1. PICK a \in Nat, b \in Nat : a = Len(s) /\ b = Len(t)
  OBVIOUS
<1>2. PICK u : u = s \o t
  OBVIOUS
<1>3. Len(u) = a + b /\ \A m \in 1 .. a + b : u[m] = IF m <= a THEN s[m] ELSE t[m - a]
  BY <1>1, <1>2
<1>4. ASSUME NEW m \in 1 .. a + b, Spans(u[m], c)
      PROVE  (\E i \in 1 .. a : Spans(s[i], c)) \/ \E i \in 1 .. b : Spans(t[i], c)
  <2>1. CASE m <= a
    BY <1>3, <1>4, <2>1
  <2>2. CASE m > a
    <3>1. m - a \in 1 .. b
      BY <2>2
    <3> QED BY <1>3, <1>4, <2>2, <3>1
  <2>3. m <= a \/ m > a
    OBVIOUS
  <2> QED BY <2>1, <2>2, <2>3
<1>5. ASSUME NEW i \in 1 .. a, Spans(s[i], c) PROVE \E m \in 1 .. a + b : Spans(u[m], c)
  <2>1. i \in 1 .. a + b /\ u[i] = s[i]
    BY <1>3
  <2> QED BY <1>5, <2>1
<1>6. ASSUME NEW i \in 1 .. b, Spans(t[i], c) PROVE \E m \in 1 .. a + b : Spans(u[m], c)
  <2>1. a + i \in 1 .. a + b /\ u[a + i] = t[i]
    BY <1>3
  <2> QED BY <1>6, <2>1
<1> QED BY <1>1, <1>2, <1>3, <1>4, <1>5, <1>6

(* Nothing is written when a session begins. *)
LEMMA WStarts == FInit => WInv
<1> SUFFICES ASSUME FInit PROVE WInv
  OBVIOUS
<1>1. io = "out" /\ ws = before /\ wrote = <<>> /\ ws = [c \in 0 .. Size - 1 |-> Old(c)]
  BY DEF FInit, IOInit
<1>2. ShapeInv
  BY <1>1 DEF ShapeInv
<1>3. ReadInv /\ CopyInv /\ WroteInv /\ CellInv
  BY <1>1 DEF ReadInv, CopyInv, WroteInv, CellInv
<1> QED BY <1>2, <1>3, SStarts DEF WInv

(* Nor when a launch begins. *)
LEMMA WEnters ==
  ASSUME WInv, Launched
  PROVE  ShapeInv' /\ ReadInv' /\ CopyInv' /\ WroteInv' /\ CellInv'
<1>1. /\ io' = "read" /\ role' = 1 /\ snap' = <<>> /\ wrote' = <<>> /\ moved' = FALSE
      /\ before' = ws /\ ws' = ws
  BY DEF Launched, Enter
<1>2. ShapeInv'
  BY <1>1 DEF WInv, ShapeInv
<1>3. prog'.ins \in Seq(Roles)
  BY SEnters DEF WInv, ProgInv
<1>4. ReadInv'
  <2>1. role' - 1 = 0 /\ role' <= Len(prog'.ins) + 1
    BY <1>1, <1>3
  <2> QED BY <1>1, <2>1 DEF ReadInv
<1>5. CopyInv' /\ WroteInv'
  BY <1>1 DEF CopyInv, WroteInv
<1>6. CellInv'
  <2>1. Placed' = 0
    BY <1>1 DEF Placed
  <2>2. \A c : Upon(0, c)' = {}
    BY DEF Upon
  <2>3. After(0)' = before'
    BY <1>1, <2>2 DEF After, WInv, ShapeInv
  <2> QED BY <1>1, <2>1, <2>3 DEF CellInv
<1> QED BY <1>2, <1>4, <1>5, <1>6

(* While a launch runs, what its pieces make of what it found stays. *)
LEMMA SamePieces ==
  ASSUME UNCHANGED <<prog, before>>
  PROVE  /\ Inputs' = Inputs /\ Pieces(prog)' = Pieces(prog)
         /\ \A k : After(k)' = After(k)
         /\ \A k, c : Tells(k, c)' = Tells(k, c)
<1>1. Inputs' = Inputs /\ Pieces(prog)' = Pieces(prog)
  BY DEF Inputs
<1>2. \A k, c : Upon(k, c)' = Upon(k, c)
  BY <1>1 DEF Upon
<1>3. \A k : After(k)' = After(k)
  BY <1>1, <1>2 DEF After
<1>4. \A k, c : Tells(k, c)' = Tells(k, c)
  BY <1>1 DEF Tells
<1> QED BY <1>1, <1>3, <1>4

(* Writing a piece lays it over the pieces before it and reports it. *)
LEMMA WPublishes ==
  ASSUME WInv, Publish
  PROVE  ShapeInv' /\ ReadInv' /\ CopyInv' /\ WroteInv' /\ CellInv'
<1>1. PICK q : /\ q = Pieces(prog)[role] /\ Fits(q)
               /\ ws' = Overlay(ws, q, snap) /\ wrote' = wrote \o q.tells
  BY DEF Publish
<1>2. /\ io = "publish" /\ io' = "publish" /\ role' = role + 1
      /\ role <= Len(Pieces(prog)) /\ UNCHANGED <<size, prog, snap, moved, before>>
  BY DEF Publish
<1>3. role \in 1 .. Len(Pieces(prog)) /\ role \in Nat /\ Len(Pieces(prog)) \in Nat
  BY <1>2, PieceKinds DEF WInv, SInv, ProgInv
<1>4. PICK k \in Nat : role = k + 1
  <2>1. role - 1 \in Nat /\ role = (role - 1) + 1
    BY <1>3
  <2> QED BY <2>1
<1>5. wrote \in Seq(Extents) /\ q.tells \in Seq(Extents)
  BY <1>1, <1>3, TellsExtents DEF WInv, SInv, ShapeInv
<1>6. ShapeInv'
  BY <1>1, <1>2, <1>5 DEF WInv, ShapeInv, Overlay
<1>7. ReadInv' /\ CopyInv'
  <2>1. snap = Inputs
    BY <1>2 DEF WInv, CopyInv
  <2> QED BY <1>2, <2>1, SamePieces DEF ReadInv, CopyInv
<1>8. WroteInv'
  <2>1. role' <= Len(Pieces(prog))' + 1
    BY <1>2, <1>3, SamePieces
  <2>2. ASSUME ~moved', NEW i \in 1 .. role' - 1 PROVE Fits(Pieces(prog)[i])'
    <3>1. i \in 1 .. role - 1 \/ i = role
      BY <1>2, <1>3
    <3>2. Fits(Pieces(prog)[i])
      BY <1>1, <1>2, <2>2, <3>1 DEF WInv, WroteInv
    <3> QED BY <1>2, <3>2, SamePieces DEF Fits, InRange, InSpan
  <2>3. ASSUME NEW c \in Int
        PROVE  (\E m \in 1 .. Len(wrote') : Spans(wrote'[m], c))
                  <=> \E i \in 1 .. role' - 1 : Tells(i, c)'
    <3>1. (\E m \in 1 .. Len(wrote) : Spans(wrote[m], c)) <=> \E i \in 1 .. role - 1 : Tells(i, c)
      BY <1>2 DEF WInv, WroteInv
    <3>2. (\E m \in 1 .. Len(q.tells) : Spans(q.tells[m], c)) <=> Tells(role, c)
      BY <1>1 DEF Tells
    <3>3. (\E m \in 1 .. Len(wrote') : Spans(wrote'[m], c))
            <=> (\E i \in 1 .. role - 1 : Tells(i, c)) \/ Tells(role, c)
      BY <1>1, <1>5, <3>1, <3>2, SpansEither
    <3>4. 1 .. role' - 1 = (1 .. role - 1) \cup {role}
      BY <1>2, <1>3
    <3>5. \A i : Tells(i, c)' = Tells(i, c)
      BY <1>2, SamePieces
    <3> QED BY <3>3, <3>4, <3>5
  <2> QED BY <1>2, <2>1, <2>2, <2>3 DEF WroteInv
<1>9. CellInv'
  <2>1. Placed = k /\ Placed' = k + 1
    BY <1>2, <1>4 DEF Placed
  <2>2. ASSUME ~moved' PROVE ws' = After(k + 1)
    <3>1. ws = After(k) /\ snap = Inputs
      BY <1>2, <2>1, <2>2 DEF WInv, CellInv, CopyInv
    <3> QED BY <1>1, <1>4, <3>1, OneMore
  <2>3. \A j : After(j)' = After(j)
    BY <1>2, SamePieces
  <2> QED BY <1>2, <2>1, <2>2, <2>3 DEF CellInv
<1> QED BY <1>6, <1>7, <1>8, <1>9

(* Reading an input takes it as the launch found it. *)
LEMMA WReads ==
  ASSUME WInv, ReadRole
  PROVE  ShapeInv' /\ ReadInv' /\ CopyInv' /\ WroteInv' /\ CellInv'
<1>1. /\ io = "read" /\ io' = "read" /\ role' = role + 1 /\ role <= Len(prog.ins)
      /\ snap' = Append(snap, Contents(ws, prog.ins[role]))
      /\ UNCHANGED <<ws, size, prog, wrote, moved, before>>
  BY DEF ReadRole
<1>2. role \in Nat \ {0} /\ Len(prog.ins) \in Nat
  BY DEF WInv, SInv, ProgInv
<1>3. ws = before
  <2>1. ws = After(0) /\ before = [c \in DOMAIN before |-> before[c]]
    BY <1>1 DEF WInv, CellInv, ReadInv, Placed, ShapeInv
  <2>2. \A c : Upon(0, c) = {}
    BY DEF Upon
  <2> QED BY <2>1, <2>2 DEF After
<1>4. snap' = [j \in 1 .. role' - 1 |-> Contents(before, prog.ins[j])]
  <2>1. PICK k \in Nat : role = k + 1
    <3>1. role - 1 \in Nat /\ role = (role - 1) + 1
      BY <1>2
    <3> QED BY <3>1
  <2>2. snap = [j \in 1 .. k |-> Contents(before, prog.ins[j])]
    BY <1>1, <2>1 DEF WInv, ReadInv
  <2>3. snap' = [j \in 1 .. k + 1 |-> Contents(before, prog.ins[j])]
    <3>1. PICK V : V = [j \in 1 .. k + 1 |-> Contents(before, prog.ins[j])]
      OBVIOUS
    <3>2. snap \in Seq(Range(V)) /\ Len(snap) = k /\ \A j \in 1 .. k : snap[j] = V[j]
      BY <2>2, <3>1 DEF Range
    <3>3. snap' = Append(snap, V[k + 1])
      BY <1>1, <1>3, <2>1, <3>1
    <3>4. V \in Seq(Range(V)) /\ Len(V) = k + 1 /\ V[k + 1] \in Range(V)
      BY <3>1 DEF Range
    <3>5. snap' = V
      BY <3>2, <3>3, <3>4
    <3> QED BY <3>1, <3>5
  <2> QED BY <1>1, <2>1, <2>3
<1>5. ReadInv'
  <2>1. role' <= Len(prog'.ins) + 1
    BY <1>1, <1>2
  <2> QED BY <1>1, <1>4, <2>1 DEF WInv, ReadInv
<1>6. ShapeInv' /\ CopyInv' /\ WroteInv'
  BY <1>1 DEF WInv, ShapeInv, CopyInv, WroteInv
<1>7. CellInv'
  BY <1>1, SamePieces DEF WInv, CellInv, Placed
<1> QED BY <1>5, <1>6, <1>7

(* The computation begins with every input, and ends with nothing written. *)
LEMMA WComputes ==
  ASSUME WInv, StartCompute \/ Computed
  PROVE  ShapeInv' /\ ReadInv' /\ CopyInv' /\ WroteInv' /\ CellInv'
<1>1. CASE StartCompute
  <2>1. /\ io = "read" /\ io' = "compute" /\ role' = 1 /\ role > Len(prog.ins)
        /\ UNCHANGED <<ws, size, prog, snap, wrote, moved, wild, before>>
    BY <1>1 DEF StartCompute
  <2>2. snap = Inputs
    <3>1. role - 1 = Len(prog.ins)
      BY <2>1 DEF WInv, SInv, ProgInv, ReadInv
    <3>2. DOMAIN prog.ins = 1 .. Len(prog.ins)
      BY DEF WInv, SInv, ProgInv
    <3> QED BY <2>1, <3>1, <3>2 DEF WInv, ReadInv, Inputs
  <2>3. CopyInv'
    BY <2>1, <2>2, SamePieces DEF WInv, CopyInv
  <2>4. CellInv'
    <3>1. Placed = 0 /\ Placed' = 0
      BY <2>1 DEF Placed
    <3> QED BY <2>1, <3>1, SamePieces DEF WInv, CellInv
  <2>5. ShapeInv' /\ ReadInv' /\ WroteInv'
    BY <2>1 DEF WInv, ShapeInv, ReadInv, WroteInv
  <2> QED BY <2>3, <2>4, <2>5
<1>2. CASE Computed
  <2>1. /\ io = "compute" /\ io' = "publish" /\ role = 1 /\ wrote = <<>>
        /\ UNCHANGED <<ws, size, prog, role, snap, wrote, moved, wild, before>>
    BY <1>2 DEF Computed, WInv, CopyInv
  <2>2. WroteInv'
    <3>1. Len(Pieces(prog)) \in Nat /\ Pieces(prog)' = Pieces(prog)
      BY <2>1, PieceKinds, SamePieces DEF WInv, SInv
    <3>2. 1 .. role' - 1 = {} /\ 1 .. Len(wrote') = {} /\ role' <= Len(Pieces(prog))' + 1
      BY <2>1, <3>1
    <3> QED BY <2>1, <3>2 DEF WroteInv
  <2>3. CopyInv'
    BY <2>1, SamePieces DEF WInv, CopyInv
  <2>4. CellInv'
    BY <2>1, SamePieces DEF WInv, CellInv, Placed
  <2>5. ShapeInv' /\ ReadInv'
    BY <2>1 DEF WInv, ShapeInv, ReadInv
  <2> QED BY <2>2, <2>3, <2>4, <2>5
<1> QED BY <1>1, <1>2

(* A launch that fails or returns leaves everything as it is. *)
LEMMA WEnds ==
  ASSUME WInv, ReadFails \/ ComputeFails \/ PublishFails \/ Return \/ Leave \/ Resize
  PROVE  ShapeInv' /\ ReadInv' /\ CopyInv' /\ WroteInv' /\ CellInv'
<1>1. CASE ReadFails \/ ComputeFails \/ PublishFails
  <2>1. /\ io' = "raised" /\ UNCHANGED <<ws, size, prog, snap, wrote, moved, wild, before>>
        /\ io \in {"read", "compute", "publish"}
        /\ IF io = "read" THEN role' = 1 ELSE role' = role
    BY <1>1 DEF ReadFails, ComputeFails, PublishFails
  <2>2. Placed' = Placed
    BY <2>1 DEF Placed
  <2>3. CellInv'
    BY <2>1, <2>2, SamePieces DEF WInv, CellInv
  <2> QED BY <2>1, <2>3 DEF WInv, ShapeInv, ReadInv, CopyInv, WroteInv
<1>2. CASE Return
  <2>1. /\ io = "publish" /\ io' = "returned" /\ role > Len(Pieces(prog))
        /\ UNCHANGED <<ws, size, prog, role, snap, wrote, moved, wild, before>>
    BY <1>2 DEF Return
  <2>2. \A q : Fits(q)' = Fits(q)
    BY <2>1 DEF Fits, InRange, InSpan
  <2>3. WroteInv'
    BY <2>1, <2>2, SamePieces DEF WInv, WroteInv
  <2>4. CellInv'
    BY <2>1, SamePieces DEF WInv, CellInv, Placed
  <2> QED BY <2>1, <2>3, <2>4 DEF WInv, ShapeInv, ReadInv, CopyInv
<1>3. CASE Leave
  BY <1>3 DEF Leave, WInv, ShapeInv, ReadInv, CopyInv, WroteInv, CellInv
<1>4. CASE Resize
  <2>1. /\ io = "compute" /\ io' = io /\ moved' /\ ws' = [c \in 0 .. size - 2 |-> ws[c]]
        /\ UNCHANGED <<prog, io, role, snap, wrote, wild, before>>
    BY <1>4 DEF Resize
  <2>2. ShapeInv'
    BY <2>1 DEF WInv, ShapeInv
  <2> QED BY <2>1, <2>2, SamePieces DEF WInv, ReadInv, CopyInv, WroteInv, CellInv
<1> QED BY <1>1, <1>2, <1>3, <1>4

(* What the bridge, the pool and a session's calls do leaves it alone. *)
LEMMA WSame ==
  ASSUME WInv, UNCHANGED iovars
  PROVE  ShapeInv' /\ ReadInv' /\ CopyInv' /\ WroteInv' /\ CellInv'
<1> USE DEF iovars
<1>1. \A q : Fits(q)' = Fits(q)
  BY DEF Fits, InRange, InSpan
<1>2. ShapeInv'
  BY DEF WInv, ShapeInv
<1>3. ReadInv'
  BY DEF WInv, ReadInv
<1>4. CopyInv'
  BY SamePieces DEF WInv, CopyInv
<1>5. WroteInv'
  BY <1>1, SamePieces DEF WInv, WroteInv
<1>6. CellInv'
  BY SamePieces DEF WInv, CellInv, Placed
<1> QED BY <1>2, <1>3, <1>4, <1>5, <1>6

(* At every moment of a launch, one whose last role is refused or whose    *)
(* computation throws included, the workspace is the one it found with the *)
(* first pieces written over it, all computed from the inputs it found; it *)
(* returns with every piece written and reported (split16.cpp:71,          *)
(* tin.cpp:161, vit_adapter_geometry_padded_zstore.py:165-190). *)
THEOREM Published == FSpec => []PublishedPrefix
<1>1. FInit => WInv
  BY WStarts
<1>2. WInv /\ [FNext]_fvars => WInv'
  <2> SUFFICES ASSUME WInv, [FNext]_fvars PROVE WInv'
    OBVIOUS
  <2>1. SInv'
    BY SStep DEF WInv
  <2>2. CASE Launched
    BY <2>1, <2>2, WEnters DEF WInv
  <2>3. CASE Transfer
    BY <2>1, <2>3, WPublishes, WReads, WComputes, WEnds DEF WInv, Transfer, IOStep
  <2>4. CASE Finished \/ Failed \/ Ended
    BY <2>1, <2>4, WComputes, WEnds DEF WInv, Finished, Failed, Ended
  <2>5. CASE UNCHANGED iovars
    BY <2>1, <2>5, WSame DEF WInv
  <2> QED BY <2>2, <2>3, <2>4, <2>5 DEF FNext, Call, Prepare, OnlyBridge, Pool, fvars
<1>3. WInv => PublishedPrefix
  <2> SUFFICES ASSUME WInv, io # "out", ~moved PROVE PublishedPrefix
    BY DEF PublishedPrefix
  <2>1. ws = After(IF io = "read" THEN 0 ELSE role - 1)
    BY DEF WInv, CellInv, Placed
  <2>2. io \in {"read", "compute"} => wrote = <<>>
    BY DEF WInv, CopyInv
  <2>3. ASSUME io = "returned" PROVE role > Len(Pieces(prog)) /\ Reported = Written
    <3>1. Len(Pieces(prog)) \in Nat /\ role \in Nat
      BY PieceKinds DEF WInv, SInv, ProgInv
    <3>2. role - 1 = Len(Pieces(prog)) /\ role > Len(Pieces(prog))
      BY <2>3, <3>1 DEF WInv, WroteInv
    <3>3. \A k \in 1 .. Len(Pieces(prog)) : Fits(Pieces(prog)[k])
      BY <2>3, <3>2 DEF WInv, WroteInv
    <3>4. ASSUME NEW c \in 0 .. Size - 1
          PROVE  (\E m \in 1 .. Len(wrote) : Spans(wrote[m], c))
                   <=> \E k \in 1 .. Len(Pieces(prog)) : c \in Cells(Pieces(prog)[k])
      <4>1. c \in Int
        OBVIOUS
      <4>2. (\E m \in 1 .. Len(wrote) : Spans(wrote[m], c)) <=> \E k \in 1 .. role - 1 : Tells(k, c)
        BY <2>3, <4>1 DEF WInv, WroteInv
      <4> QED BY <3>2, <3>3, <4>1, <4>2, AllTold DEF WInv, SInv
    <3> QED BY <3>2, <3>4 DEF Reported, Written
  <2> QED BY <2>1, <2>2, <2>3 DEF PublishedPrefix
<1> QED BY <1>1, <1>2, <1>3, PTL DEF FSpec

-----------------------------------------------------------------------------
(* Whose index i is: the block it lies in, or the stride it is on.         *)
Owns(t, i) == IF strided THEN i % nt = First(t) ELSE Block(t) <= i /\ i < Block(t + 1)

ArgInv == /\ strided \in BOOLEAN /\ n \in Nat /\ nt \in Nat /\ nt > 0 /\ seed \in Nat

-----------------------------------------------------------------------------
(* Blocks follow one another, and the last one ends at n. *)
LEMMA BlockRises ==
  ASSUME ArgInv, NEW t \in Nat, NEW u \in Nat, t <= u
  PROVE  Block(t) \in Nat /\ Block(u) \in Nat /\ Block(t) <= Block(u)
<1>1. PICK a \in Nat, b \in Nat : a = t * n /\ b = u * n
  BY DEF ArgInv
<1>2. a <= b
  <2>1. t < u => a + n <= b
    BY <1>1, Rises DEF ArgInv
  <2> QED BY <2>1, <1>1 DEF ArgInv
<1>3. PICK q \in Nat : q = b \div nt
  BY Divided DEF ArgInv
<1>4. b < (q + 1) * nt /\ (q + 1) * nt \in Nat
  BY <1>3, Below DEF ArgInv
<1>5. a \div nt < q + 1 /\ a \div nt \in Nat
  BY <1>2, <1>4, Below, Divided DEF ArgInv
<1> QED BY <1>1, <1>3, <1>5 DEF Block

(* No block reaches past the last index. *)
LEMMA BlockFact ==
  ASSUME ArgInv, NEW t \in Nat
  PROVE  /\ Block(t) \in Nat /\ Block(t) <= Block(t + 1)
         /\ t <= nt => Block(t) <= n
<1>1. Block(nt) = n
  <2>1. nt * n = n * nt
    BY DEF ArgInv
  <2>2. (n * nt) \div nt = n
    BY Multiple DEF ArgInv
  <2> QED BY <2>1, <2>2 DEF Block
<1> QED BY <1>1, BlockRises DEF ArgInv

(* An index has an owner: the block of i is that of its last product.      *)
LEMMA BlockOwner ==
  ASSUME ArgInv, NEW i \in Index
  PROVE  \E t \in Threads : Block(t) <= i /\ i < Block(t + 1)
<1> DEFINE x == (i + 1) * nt - 1
           t == x \div n
<1>1. i \in Nat /\ i < n /\ n > 0
  BY DEF ArgInv, Index
<1>2. (i + 1) * nt \in Nat /\ (i + 1) * nt = i * nt + nt /\ i * nt \in Nat
  BY <1>1 DEF ArgInv
<1>3. x \in Nat
  BY <1>2 DEF ArgInv
<1>4. (i + 1) * nt <= n * nt /\ nt * n = n * nt /\ n * nt \in Nat
  <2>1. i * nt + nt <= n * nt
    BY <1>1, Rises DEF ArgInv
  <2> QED BY <2>1, <1>1, <1>2 DEF ArgInv
<1>5. t \in Nat /\ t < nt
  <2>1. x < nt * n
    BY <1>2, <1>3, <1>4
  <2> HIDE DEF x
  <2> QED BY <2>1, <1>1, <1>3, Divided, Below DEF ArgInv
<1>6. t * n <= x /\ x < (t + 1) * n
  <2> HIDE DEF x
  <2>1. x = t * n + (x % n) /\ x % n \in Nat /\ x % n < n
    BY <1>1, <1>3, Divided DEF ArgInv
  <2> HIDE DEF t
  <2>2. t * n \in Nat /\ (t + 1) * n = t * n + n
    BY <1>5 DEF ArgInv
  <2> QED BY <2>1, <2>2, <1>3 DEF ArgInv
<1> HIDE DEF t
<1>7. t * n \in Nat /\ (t + 1) * n \in Nat
  BY <1>5 DEF ArgInv
<1>8. Block(t) < i + 1
  <2>1. t * n < (i + 1) * nt
    BY <1>6, <1>7, <1>2
  <2>2. (t * n) \div nt < i + 1
    <3>1. PICK a \in Nat : a = t * n
      BY <1>7
    <3> QED BY <3>1, <2>1, <1>1, Below DEF ArgInv
  <2> QED BY <2>2 DEF Block
<1>9. ~(Block(t + 1) < i + 1)
  <2>1. ~((t + 1) * n < (i + 1) * nt)
    BY <1>6, <1>7, <1>2
  <2>2. ~(((t + 1) * n) \div nt < i + 1)
    <3>1. PICK a \in Nat : a = (t + 1) * n
      BY <1>7
    <3> QED BY <3>1, <2>1, <1>1, Below DEF ArgInv
  <2> QED BY <2>2 DEF Block
<1>10. Block(t) <= i /\ i < Block(t + 1) /\ t \in Threads
  <2>1. Block(t) \in Nat /\ Block(t + 1) \in Nat
    BY <1>5, BlockFact
  <2> QED BY <2>1, <1>1, <1>5, <1>8, <1>9 DEF Threads, ArgInv
<1> QED BY <1>10

(* Numbers nt apart are on the same stride, closer ones are not. *)
LEMMA Strides ==
  ASSUME ArgInv, NEW a \in Nat
  PROVE  /\ (a + nt) % nt = a % nt
         /\ \A j \in Nat : j % nt = a % nt /\ j < a + nt => j <= a
<1>1. PICK q \in Nat, r \in Nat : a = q * nt + r /\ r < nt /\ r = a % nt
  <2>1. PICK q \in Nat, r \in Nat : q = a \div nt /\ r = a % nt
    BY Divided DEF ArgInv
  <2>2. a = q * nt + r /\ r < nt
    BY <2>1, Divided DEF ArgInv
  <2> QED BY <2>1, <2>2
<1>2. (a + nt) % nt = r
  <2>1. a + nt = (q + 1) * nt + r
    BY <1>1 DEF ArgInv
  <2> QED BY <2>1, <1>1, Remade DEF ArgInv
<1>3. ASSUME NEW j \in Nat, j % nt = a % nt, j < a + nt
      PROVE  j <= a
  <2>1. PICK p \in Nat : j = p * nt + r
    BY <1>1, <1>3, Divided DEF ArgInv
  <2>2. p * nt \in Nat /\ q * nt \in Nat
    BY DEF ArgInv
  <2>3. ~(q < p)
    BY <1>1, <1>3, <2>1, <2>2, Rises DEF ArgInv
  <2>4. p < q => p * nt + nt <= q * nt
    BY Rises DEF ArgInv
  <2> QED BY <1>1, <2>1, <2>2, <2>3, <2>4 DEF ArgInv
<1> QED BY <1>1, <1>2, <1>3

(* The first index of a rotated stride is its remainder. *)
LEMMA RotatedFirst ==
  ASSUME ArgInv, strided, NEW t \in Threads
  PROVE  First(t) \in Nat /\ First(t) < nt /\ First(t) % nt = First(t)
<1>1. seed % nt \in Nat /\ t \in Nat
  BY Divided DEF ArgInv, Threads
<1>2. PICK a \in Nat : a = t + (seed % nt)
  BY <1>1
<1>3. a % nt \in Nat /\ a % nt < nt
  BY Divided DEF ArgInv
<1>4. PICK r \in Nat : r = a % nt
  BY <1>3
<1>5. (0 * nt + r) % nt = r /\ 0 * nt + r = r
  BY <1>3, <1>4, Remade DEF ArgInv
<1> QED BY <1>2, <1>3, <1>4, <1>5 DEF First

(* A thread is on the stride of every remainder. *)
LEMMA StrideOwner ==
  ASSUME ArgInv, strided, NEW i \in Index
  PROVE  \E t \in Threads : i % nt = First(t)
<1>1. PICK r \in Nat, s \in Nat : r = i % nt /\ r < nt /\ s = seed % nt /\ s < nt
  BY Divided DEF ArgInv, Index
<1>2. r % nt = r /\ (r + nt) % nt = r
  <2>1. (0 * nt + r) % nt = r /\ 0 * nt + r = r
    BY <1>1, Remade DEF ArgInv
  <2> QED BY <1>1, <2>1, Strides DEF ArgInv
<1>3. CASE s <= r
  <2>1. r - s \in Threads /\ (r - s) + s = r
    BY <1>1, <1>3 DEF ArgInv, Threads
  <2> QED BY <1>1, <1>2, <2>1 DEF First
<1>4. CASE r < s
  <2>1. r + nt - s \in Threads /\ (r + nt - s) + s = r + nt
    BY <1>1, <1>4 DEF ArgInv, Threads
  <2> QED BY <1>1, <1>2, <2>1 DEF First
<1> QED BY <1>1, <1>3, <1>4

(* Every index is some thread's. *)
LEMMA Owned == ASSUME ArgInv, NEW i \in Index
               PROVE  \E t \in Threads : Owns(t, i)
  BY BlockOwner, StrideOwner DEF Owns, ArgInv

(* And no index is two threads'. *)
LEMMA OneOwner ==
  ASSUME ArgInv, NEW t \in Threads, NEW u \in Threads, NEW i \in Index, Owns(t, i), Owns(u, i)
  PROVE  t = u
<1>1. t \in Nat /\ u \in Nat /\ t < nt /\ u < nt /\ i \in Nat
  BY DEF ArgInv, Threads, Index
<1>2. CASE ~strided
  <2>1. ASSUME NEW a \in Nat, NEW b \in Nat, Block(a) <= i, i < Block(a + 1), Block(b) <= i, a < b
        PROVE  FALSE
    <3>1. Block(a + 1) \in Nat /\ Block(b) \in Nat /\ Block(a + 1) <= Block(b)
      BY <2>1, BlockRises
    <3> QED BY <1>1, <2>1, <3>1
  <2> QED BY <1>1, <1>2, <2>1 DEF Owns
<1>3. CASE strided
  <2>1. PICK s \in Nat : s = seed % nt
    BY Divided DEF ArgInv
  <2>2. (t + s) % nt = (u + s) % nt
    BY <1>3, <2>1 DEF Owns, First
  <2>3. (t + s \in Nat) /\ (u + s \in Nat) /\ t + s < (u + s) + nt /\ u + s < (t + s) + nt
    BY <1>1 DEF ArgInv
  <2>4. t + s <= u + s /\ u + s <= t + s
    BY <2>2, <2>3, Strides
  <2> QED BY <1>1, <2>4
<1> QED BY <1>2, <1>3

-----------------------------------------------------------------------------
(* Why each index of a returned call has one writer.  A thread stays in    *)
(* its share and has written what lies behind it (PlaceInv, DoneInv), only *)
(* an owner writes (WriterInv), a thread leaves when its share is used up  *)
(* or the stop flag is raised (LeaveInv), and a flag once raised makes the *)
(* call raise (StopInv), so in a call that returns it never was.           *)
ShareTypes == /\ ArgInv
              /\ strided => bad = {}
              /\ main \in {"spawn", "join", "unwind", "returned", "raised", "terminated"}
              /\ pc \in [Threads -> {"unborn", "test", "run", "record", "exited"}]
              /\ at \in [Threads -> Nat]
              /\ writers \in [Index -> SUBSET Threads]
              /\ error \in Threads \cup {-1} /\ stop \in BOOLEAN
PlaceInv == \A t \in Threads :
              /\ IF strided THEN at[t] % nt = First(t) ELSE at[t] >= First(t)
              /\ pc[t] = "run" => at[t] < End(t)
WriterInv == \A i \in Index : \A t \in writers[i] : Owns(t, i)
DoneInv   == \A t \in Threads, i \in Index : Owns(t, i) /\ i < at[t] => t \in writers[i]
LeaveInv  == \A t \in Threads : pc[t] \in {"record", "exited"} => stop \/ at[t] >= End(t)
StopInv   == stop => \/ main \in {"unwind", "raised"} \/ error # -1
                     \/ \E t \in Threads : pc[t] = "record"
MainInv   == /\ main = "spawn" /\ strided => pc[0] = "unborn"
             /\ main = "join" => \A t \in Threads : pc[t] # "unborn"
             /\ main \in {"returned", "raised"} => \A t \in Threads : pc[t] \in {"unborn", "exited"}
             /\ main = "returned" => error = -1 /\ \A t \in Threads : pc[t] = "exited"
PInv == ShareTypes /\ PlaceInv /\ WriterInv /\ DoneInv /\ LeaveInv /\ StopInv /\ MainInv

(* A step that leaves the call's arguments alone leaves the shares alone. *)
LEMMA SharesStay ==
  ASSUME strided' = strided, n' = n, nt' = nt, seed' = seed
  PROVE  /\ Threads' = Threads /\ Index' = Index
         /\ ArgInv' <=> ArgInv
         /\ \A t : First(t)' = First(t) /\ End(t)' = End(t)
         /\ \A t, i : Owns(t, i)' <=> Owns(t, i)
  BY DEF Threads, Index, ArgInv, First, End, Owns, Block

(* Where a thread that works is, its index is its own. *)
LEMMA WorksItsOwn ==
  ASSUME PInv, NEW t \in Threads, pc[t] = "run"
  PROVE  at[t] \in Index /\ Owns(t, at[t])
<1>1. t \in Nat /\ t + 1 <= nt /\ at[t] \in Nat /\ at[t] < End(t)
  BY DEF PInv, ShareTypes, PlaceInv, ArgInv, Threads
<1>2. CASE strided
  BY <1>1, <1>2 DEF PInv, PlaceInv, ShareTypes, ArgInv, Index, End, Owns
<1>3. CASE ~strided
  <2>1. Block(t) \in Nat /\ Block(t + 1) \in Nat /\ Block(t + 1) <= n
    BY <1>1, BlockFact DEF PInv, ShareTypes
  <2> QED BY <1>1, <1>3, <2>1 DEF PInv, PlaceInv, ShareTypes, ArgInv, Index, End, Owns, First
<1> QED BY <1>2, <1>3

(* The invariant holds when the call begins. *)
LEMMA PStarts == StaticAssumption /\ Init => PInv
<1> SUFFICES ASSUME StaticAssumption, Init PROVE PInv
  OBVIOUS
<1>1. ArgInv
  BY DEF Init, StaticAssumption, ArgInv
<1>2. \A t \in Threads : First(t) \in Nat
  BY <1>1, RotatedFirst, BlockFact DEF First, ArgInv, Threads
<1>3. ShareTypes
  BY <1>1, <1>2 DEF Init, ShareTypes
<1>4. PlaceInv
  BY <1>1, <1>2, RotatedFirst DEF Init, PlaceInv
<1>5. DoneInv
  <2> SUFFICES ASSUME NEW t \in Threads, NEW i \in Index, Owns(t, i), i < First(t) PROVE FALSE
    BY DEF Init, DoneInv
  <2>1. CASE strided
    <3>1. PICK r \in Nat : r = First(t) /\ r < nt /\ i < r
      BY <1>1, <2>1, RotatedFirst
    <3>2. (0 * nt + i) % nt = i /\ 0 * nt + i = i
      BY <1>1, <3>1, Remade DEF ArgInv, Index
    <3> QED BY <2>1, <3>1, <3>2 DEF Owns, Index
  <2>2. CASE ~strided
    BY <1>1, <1>2, <2>2 DEF Owns, First, Index, ArgInv
  <2> QED BY <2>1, <2>2
<1>6. WriterInv /\ LeaveInv /\ StopInv /\ MainInv
  <2>1. 0 \in Threads
    BY <1>1 DEF ArgInv, Threads
  <2> QED BY <2>1 DEF Init, WriterInv, LeaveInv, StopInv, MainInv
<1> QED BY <1>3, <1>4, <1>5, <1>6 DEF PInv

(* A step that works no index keeps the shares, the places of the threads  *)
(* that do not start to work, and what was written. *)
LEMMA PlacesStay ==
  ASSUME PInv, UNCHANGED <<args, at, writers>>
  PROVE  /\ WriterInv' /\ DoneInv'
         /\ (\A t \in Threads : pc'[t] = "run" => at[t] < End(t)) => PlaceInv'
<1>1. strided' = strided /\ n' = n /\ nt' = nt /\ seed' = seed /\ at' = at /\ writers' = writers
  BY DEF args
<1>2. Threads' = Threads /\ Index' = Index
  BY <1>1, SharesStay
<1>3. ASSUME NEW t, NEW i
      PROVE  (Owns(t, i)' <=> Owns(t, i)) /\ First(t)' = First(t) /\ End(t)' = End(t)
  BY <1>1, SharesStay
<1>4. WriterInv'
  BY <1>1, <1>2, <1>3 DEF PInv, WriterInv
<1>5. DoneInv'
  BY <1>1, <1>2, <1>3 DEF PInv, DoneInv
<1>6. (\A t \in Threads : pc'[t] = "run" => at[t] < End(t)) => PlaceInv'
  BY <1>1, <1>2, <1>3 DEF PInv, PlaceInv, ShareTypes, ArgInv
<1> QED BY <1>4, <1>5, <1>6

(* Starting a thread keeps it. *)
LEMMA PSpawn == ASSUME PInv, NEW t \in Threads, Spawn(t)
                PROVE  PInv'
<1> USE DEF Spawn, Spawned
<1>1. ShareTypes'
  BY SharesStay DEF PInv, ShareTypes, args
<1>2. PlaceInv'
  BY PlacesStay DEF PInv, PlaceInv, ShareTypes
<1>3. LeaveInv'
  BY SharesStay DEF PInv, ShareTypes, LeaveInv, args
<1>4. StopInv'
  BY SharesStay DEF PInv, ShareTypes, StopInv, args
<1>5. MainInv'
  <2>1. strided => t # 0
    OBVIOUS
  <2> QED BY <2>1, SharesStay DEF PInv, ShareTypes, MainInv, args
<1> QED BY <1>1, <1>2, <1>3, <1>4, <1>5, PlacesStay DEF PInv

(* So does the caller's way to the join, or to its handler. *)
LEMMA PCaller == ASSUME PInv, StartJoin \/ SpawnFails \/ Join
                 PROVE  PInv'
<1>1. CASE StartJoin
  <2> USE <1>1 DEF StartJoin, AllSpawned, Spawned
  <2>1. ShareTypes'
    BY SharesStay DEF PInv, ShareTypes, args
  <2>2. PlaceInv'
    BY PlacesStay DEF PInv, PlaceInv, ShareTypes
  <2>3. LeaveInv'
    BY SharesStay DEF PInv, ShareTypes, LeaveInv, args
  <2>4. StopInv'
    BY SharesStay DEF PInv, ShareTypes, StopInv, MainInv, args
  <2>5. MainInv'
    BY SharesStay DEF PInv, ShareTypes, MainInv, args
  <2> QED BY <2>1, <2>2, <2>3, <2>4, <2>5, PlacesStay DEF PInv
<1>2. CASE SpawnFails
  <2> USE <1>2 DEF SpawnFails
  <2>1. ShareTypes'
    BY SharesStay DEF PInv, ShareTypes, args
  <2>2. PlaceInv'
    BY PlacesStay DEF PInv, PlaceInv, ShareTypes
  <2>3. LeaveInv' /\ StopInv' /\ MainInv'
    BY SharesStay DEF PInv, ShareTypes, LeaveInv, StopInv, MainInv, args, AllSpawned, Spawned
  <2> QED BY <2>1, <2>2, <2>3, PlacesStay DEF PInv
<1>3. CASE Join
  <2> USE <1>3 DEF Join
  <2>1. ShareTypes'
    BY SharesStay DEF PInv, ShareTypes, args
  <2>2. PlaceInv'
    BY PlacesStay DEF PInv, PlaceInv, ShareTypes
  <2>3. LeaveInv' /\ StopInv' /\ MainInv'
    BY SharesStay DEF PInv, ShareTypes, LeaveInv, StopInv, MainInv, args
  <2> QED BY <2>1, <2>2, <2>3, PlacesStay DEF PInv
<1> QED BY <1>1, <1>2, <1>3

(* A thread goes to work inside its share, or leaves with a reason. *)
LEMMA PTest == ASSUME PInv, NEW t \in Threads, Test(t)
               PROVE  PInv'
<1> USE DEF Test, Alive
<1>1. ShareTypes'
  BY SharesStay DEF PInv, ShareTypes, args
<1>2. PlaceInv'
  BY PlacesStay DEF PInv, PlaceInv, ShareTypes
<1>3. t \in Nat /\ at[t] \in Nat /\ End(t) \in Nat
  BY BlockFact DEF PInv, ShareTypes, ArgInv, End, Threads
<1>4. LeaveInv'
  <2>1. stop' = stop /\ at' = at /\ Threads' = Threads /\ End(t)' = End(t)
    BY SharesStay DEF args
  <2>2. ASSUME NEW u \in Threads, pc'[u] \in {"record", "exited"}
        PROVE  stop \/ at[u] >= End(u)
    <3>1. CASE u = t
      BY <1>3, <2>2, <3>1 DEF PInv, ShareTypes
    <3>2. CASE u # t
      BY <2>2, <3>2 DEF PInv, ShareTypes, LeaveInv
    <3> QED BY <3>1, <3>2
  <2>3. ASSUME NEW u PROVE End(u)' = End(u)
    BY SharesStay DEF args
  <2> QED BY <2>1, <2>2, <2>3 DEF LeaveInv
<1>5. StopInv'
  BY SharesStay DEF PInv, ShareTypes, StopInv, args
<1>6. MainInv'
  <2>1. 0 \in Threads /\ (main = "spawn" /\ strided => t # 0)
    BY DEF PInv, ShareTypes, ArgInv, Threads, MainInv
  <2>2. \A u \in Threads : pc'[u] # "unborn" \/ pc'[u] = pc[u]
    BY DEF PInv, ShareTypes
  <2>3. \A u \in Threads \ {t} : pc'[u] = pc[u]
    BY DEF PInv, ShareTypes
  <2> QED BY <2>1, <2>2, <2>3, SharesStay DEF PInv, MainInv, args
<1> QED BY <1>1, <1>2, <1>4, <1>5, <1>6, PlacesStay DEF PInv

(* An exception raises the flag, *)
LEMMA PThrow == ASSUME PInv, NEW t \in Threads, Throw(t)
                PROVE  PInv'
<1> USE DEF Throw, Alive
<1>1. ShareTypes'
  BY SharesStay DEF PInv, ShareTypes, args
<1>2. PlaceInv'
  BY PlacesStay DEF PInv, PlaceInv, ShareTypes
<1>3. LeaveInv'
  BY SharesStay DEF PInv, ShareTypes, LeaveInv, args
<1>4. StopInv'
  BY SharesStay DEF PInv, ShareTypes, StopInv, args
<1>5. MainInv'
  BY SharesStay DEF PInv, ShareTypes, MainInv, args
<1> QED BY <1>1, <1>2, <1>3, <1>4, <1>5, PlacesStay DEF PInv

(* and is kept, so that the call will raise. *)
LEMMA PRecord == ASSUME PInv, NEW t \in Threads, Record(t)
                 PROVE  PInv'
<1> USE DEF Record, Alive
<1>1. error' \in Threads \cup {-1} /\ error' # -1
  BY DEF PInv, ShareTypes, Threads, ArgInv
<1>2. ShareTypes'
  BY <1>1, SharesStay DEF PInv, ShareTypes, args
<1>3. PlaceInv'
  BY PlacesStay DEF PInv, PlaceInv, ShareTypes
<1>4. LeaveInv'
  BY SharesStay DEF PInv, ShareTypes, LeaveInv, args
<1>5. StopInv'
  BY <1>1, SharesStay DEF PInv, ShareTypes, StopInv, args
<1>6. MainInv'
  <2>1. 0 \in Threads /\ (main = "spawn" /\ strided => t # 0)
    BY DEF PInv, ShareTypes, ArgInv, Threads, MainInv
  <2>2. \A u \in Threads : pc'[u] # "unborn" \/ pc'[u] = pc[u]
    BY DEF PInv, ShareTypes
  <2>3. \A u \in Threads \ {t} : pc'[u] = pc[u]
    BY DEF PInv, ShareTypes
  <2> QED BY <2>1, <2>2, <2>3, SharesStay DEF PInv, MainInv, args
<1> QED BY <1>2, <1>3, <1>4, <1>5, <1>6, PlacesStay DEF PInv

(* Working an index writes it and moves on to the next of the share, so    *)
(* nothing of the share is left behind. *)
LEMMA PWork == ASSUME PInv, NEW t \in Threads, Work(t)
               PROVE  PInv'
<1> USE DEF Work, Alive
<1>1. PICK i \in Index : i = at[t] /\ Owns(t, i)
  BY WorksItsOwn
<1>2. /\ strided' = strided /\ Threads' = Threads /\ Index' = Index
      /\ \A u, j : Owns(u, j)' <=> Owns(u, j)
      /\ \A u : First(u)' = First(u) /\ End(u)' = End(u)
  BY SharesStay DEF args
<1>3. i \in Nat /\ Stride \in Nat /\ Stride > 0 /\ at'[t] = i + Stride
      /\ \A u \in Threads : u # t => at'[u] = at[u]
  BY <1>1 DEF PInv, ShareTypes, ArgInv, Index, Stride
<1>4. /\ writers'[i] = writers[i] \cup {t}
      /\ \A j \in Index : j # i => writers'[j] = writers[j]
  BY <1>1 DEF PInv, ShareTypes
<1>5. ShareTypes'
  <2>1. at' \in [Threads -> Nat]
    BY <1>1, <1>3 DEF PInv, ShareTypes, ArgInv
  <2>2. writers' \in [Index -> SUBSET Threads]
    BY <1>1 DEF PInv, ShareTypes
  <2>3. pc' \in [Threads -> {"unborn", "test", "run", "record", "exited"}]
    BY DEF PInv, ShareTypes
  <2> QED BY <1>2, <2>1, <2>2, <2>3, SharesStay DEF PInv, ShareTypes, args
<1>6. PlaceInv'
  <2>1. IF strided THEN at'[t] % nt = First(t) ELSE at'[t] >= First(t)
    <3>1. CASE strided
      BY <1>1, <1>3, <3>1, Strides DEF PInv, PlaceInv, ShareTypes, Stride
    <3>2. CASE ~strided
      <4>1. First(t) \in Nat
        BY <3>2, BlockFact DEF PInv, ShareTypes, ArgInv, Threads, First
      <4> QED BY <1>1, <1>3, <3>2, <4>1 DEF PInv, PlaceInv
    <3> QED BY <3>1, <3>2 DEF PInv, ShareTypes, ArgInv
  <2> QED BY <1>2, <1>3, <2>1 DEF PInv, PlaceInv, ShareTypes, args
<1>7. WriterInv'
  BY <1>1, <1>2, <1>4 DEF PInv, WriterInv
<1>8. DoneInv'
  <2> SUFFICES ASSUME NEW u \in Threads, NEW j \in Index, Owns(u, j), j < at'[u]
               PROVE  u \in writers'[j]
    BY <1>2 DEF DoneInv
  <2>1. CASE u # t
    BY <1>3, <1>4, <2>1 DEF PInv, DoneInv
  <2>2. CASE u = t /\ j < i
    BY <1>1, <1>4, <2>2 DEF PInv, DoneInv
  <2>3. CASE u = t /\ j >= i
    <3>1. j \in Nat /\ j < i + Stride
      BY <1>3, <2>3 DEF Index
    <3>2. j <= i
      <4>1. CASE strided
        BY <1>1, <1>3, <2>3, <3>1, <4>1, Strides DEF PInv, ShareTypes, Owns, Stride
      <4>2. CASE ~strided
        BY <1>3, <3>1, <4>2 DEF Stride
      <4> QED BY <4>1, <4>2
    <3> QED BY <1>3, <1>4, <2>3, <3>1, <3>2
  <2> QED BY <1>3, <2>1, <2>2, <2>3 DEF Index
<1>9. LeaveInv'
  BY <1>2, <1>3 DEF PInv, ShareTypes, LeaveInv
<1>10. StopInv' /\ MainInv'
  BY <1>2 DEF PInv, ShareTypes, StopInv, MainInv
<1> QED BY <1>5, <1>6, <1>7, <1>8, <1>9, <1>10 DEF PInv

(* Every step keeps the invariant. *)
LEMMA PStep == PInv /\ [Next]_vars => PInv'
<1> SUFFICES ASSUME PInv, [Next]_vars PROVE PInv'
  OBVIOUS
<1>1. CASE \E t \in Threads : Spawn(t) \/ Step(t)
  BY <1>1, PSpawn, PTest, PWork, PThrow, PRecord DEF Step
<1>2. CASE StartJoin \/ SpawnFails \/ Join
  BY <1>2, PCaller
<1>3. CASE UNCHANGED vars
  <2>1. ShareTypes'
    BY <1>3, SharesStay DEF PInv, ShareTypes, vars, args
  <2>2. PlaceInv' /\ WriterInv' /\ DoneInv'
    BY <1>3, PlacesStay DEF PInv, PlaceInv, vars
  <2>3. LeaveInv' /\ StopInv' /\ MainInv'
    BY <1>3, SharesStay DEF PInv, LeaveInv, StopInv, MainInv, vars, args
  <2> QED BY <2>1, <2>2, <2>3 DEF PInv
<1> QED BY <1>1, <1>2, <1>3 DEF Next

(* What the invariant says of the writers: an owner writes, nobody else    *)
(* does, and a call that returned left nothing of a share behind. *)
LEMMA PShares == PInv => SharesPartition
<1> SUFFICES ASSUME PInv PROVE SharesPartition
  OBVIOUS
<1>1. ASSUME NEW i \in Index
      PROVE  writers[i] = {} \/ \E t : writers[i] = {t}
  <2>1. \A t, u \in writers[i] : t = u
    <3>1. \A t \in writers[i] : t \in Threads /\ Owns(t, i)
      BY DEF PInv, ShareTypes, WriterInv
    <3> QED BY <3>1, OneOwner DEF PInv, ShareTypes
  <2> QED BY <2>1
<1>2. ASSUME NEW i \in Index
      PROVE  Cardinality(writers[i]) <= 1
  <2>1. Cardinality({}) <= 1
    BY FS_EmptySet
  <2>2. ASSUME NEW t PROVE Cardinality({t}) <= 1
    <3>1. Cardinality({t}) = 1
      BY FS_Singleton
    <3> QED BY <3>1
  <2> QED BY <1>1, <2>1, <2>2
<1>3. ASSUME main = "returned", NEW i \in Index
      PROVE  Cardinality(writers[i]) = 1
  <2>1. PICK t \in Threads : Owns(t, i)
    BY Owned DEF PInv, ShareTypes
  <2>2. at[t] \in Nat /\ at[t] >= End(t)
    <3>1. pc[t] = "exited" /\ ~stop
      BY <1>3 DEF PInv, MainInv, StopInv
    <3> QED BY <3>1 DEF PInv, ShareTypes, LeaveInv
  <2>3. i < at[t]
    <3>1. t \in Nat /\ End(t) \in Nat /\ i < End(t) /\ i \in Nat
      BY <2>1, BlockFact DEF PInv, ShareTypes, ArgInv, End, Owns, Threads, Index
    <3> QED BY <2>2, <3>1
  <2>4. t \in writers[i]
    BY <2>1, <2>3 DEF PInv, DoneInv
  <2> QED BY <1>1, <2>4, FS_Singleton
<1> QED BY <1>2, <1>3 DEF SharesPartition, PInv, MainInv

(* parallel and execute share out exactly: no index of a call is worked by *)
(* two threads, every index of a call that returns is worked once, and no  *)
(* thread outlives the call, for every n, nt, queue_seed, body and failing *)
(* start, in whatever session (outtail.cpp:63, repack.cpp:100). *)
THEOREM SharedOut == FSpec => []SharesPartition
<1>1. FInit => PInv
  BY StaticAssumption, PStarts DEF FInit
<1>2. PInv /\ [FNext]_fvars => PInv'
  <2>1. [FNext]_fvars => [Next]_vars
    BY DEF FNext, Call, Prepare, OnlyBridge, Launched, Transfer, OnlyIO, Pool, Finished, Failed, Ended, fvars
  <2> QED BY <2>1, PStep
<1> QED BY <1>1, <1>2, PShares, PTL DEF FSpec
===============================================================================
