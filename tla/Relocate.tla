------------------------------- MODULE Relocate -------------------------------
(***************************************************************************)
(* relocate.py: run writes under <root>/work a copy of the configuration   *)
(* files of the payload, in which every path leads to where the file now   *)
(* is and every {path, sha256} record names the bytes that are now there,  *)
(* links everything else, and regenerates the derived map of               *)
(* derived_pins.py, by which a pin that no record carries (a constant in a *)
(* shipped source, a record left alone) still accepts the new file.        *)
(*                                                                         *)
(* A path is the sequence of its names below a root, "payload" or "work".  *)
(* The bytes of a file are abstracted to the file they come from, what was *)
(* done to them and the records they hold, and equal bytes are equal       *)
(* hashes.  A record is <<path, bytes>>.                                   *)
(***************************************************************************)
EXTENDS Naturals, Sequences, FiniteSets, Functions

CONSTANTS Kits,     \* the payloads with their manifest
          MapPath, PinsPath, SealPath  \* map_path, pins_path, seal_path

Under(p, d)  == Len(d) < Len(p) /\ SubSeq(p, 1, Len(d)) = d
Rest(p, d)   == SubSeq(p, Len(d) + 1, Len(p))
Above(p)     == {SubSeq(p, 1, n) : n \in 1 .. Len(p) - 1}

(* A kit has the manifest's lists rewrite, copy, external, mirrors (sorted *)
(* sequences of paths), required (external without the files of optional   *)
(* roles), aliases (link name -> target) and names, the link names with    *)
(* the shorter ones first; plain, the files nobody rewrites; records, the  *)
(* <<target, state>> a rewritten file pins; derived, the files of which    *)
(* the sealed runs knew another version, "original"; and code, the files   *)
(* some source pins by a constant.                                         *)
Paths    == Seq(STRING) \ {<<>>}
Files(k) == Range(k.rewrite) \cup Range(k.copy) \cup Range(k.external) \cup k.plain \cup {MapPath}
Named(k) == Files(k) \cup Range(k.mirrors) \cup DOMAIN k.aliases
(* What nobody checks of a manifest.  The shipped one is so.               *)
ASSUME KitsAssumption ==
  \A k \in Kits :
    /\ {k.rewrite, k.copy, k.external, k.required, k.mirrors, k.names} \subseteq Seq(Paths)
    /\ k.plain \subseteq Paths /\ MapPath \in Paths
    /\ Range(k.required) \subseteq Range(k.external) /\ Range(k.names) = DOMAIN k.aliases
    (* The generated files are in the directory of the copied ones, and the *)
    (* seal is rewritten.                                                  *)
    /\ PinsPath \in Range(k.copy) /\ Above(PinsPath) = Above(MapPath)
    /\ SealPath \in Range(k.rewrite)
    (* Nobody writes what another one writes.                              *)
    /\ Range(k.rewrite) \cap Range(k.copy) = {}
    /\ (Range(k.rewrite) \cup Range(k.copy)) \cap Range(k.external) = {}
    /\ MapPath \notin Range(k.rewrite) \cup Range(k.copy) \cup Range(k.external)
    (* A file, or a name of a file, is above nothing.                      *)
    /\ \A f \in Files(k) \cup DOMAIN k.aliases : \A p \in Named(k) : f \notin Above(p)
    /\ Files(k) \cap (Range(k.mirrors) \cup DOMAIN k.aliases) = {}
    /\ Range(k.mirrors) \cap DOMAIN k.aliases = {}
    (* A mirrored directory inside another one is that of a file.          *)
    /\ \A d, e \in Range(k.mirrors) : Under(d, e) =>
         \E f \in Range(k.rewrite) \cup Range(k.copy) \cup k.plain \cup Range(k.required) : Under(f, d)
    (* The other name is one of a file that is there.                      *)
    /\ \A a \in DOMAIN k.aliases : k.aliases[a] \in Files(k) \ (Range(k.external) \ Range(k.required))

(* Nor what pins what.  A record names a file or the other name of one; it *)
(* pins the bytes that are supplied or shipped, or those the sealed runs   *)
(* knew.  The two generated files are pinned by the seal alone, nobody     *)
(* pins the seal, and an optional input is not in the payload.             *)
Target(k, q) == IF q \in DOMAIN k.aliases THEN k.aliases[q] ELSE q
Pinned(k, p) == {Target(k, rec[1]) : rec \in k.records[p]} \cap Range(k.rewrite)
PinOrder(k, below) ==
  /\ below \in [Range(k.rewrite) -> SUBSET Range(k.rewrite)]
  /\ \A p \in Range(k.rewrite) : \A t \in Pinned(k, p) : {t} \cup below[t] \subseteq below[p]
  (* No cycle leads through the pin of a version that was derived already. *)
  /\ \A p \in Range(k.rewrite) : \A rec \in k.records[p] : LET t == Target(k, rec[1]) IN
       t \in Pinned(k, p) /\ t \in k.derived /\ rec[2] = "shipped" => p \notin below[t]
ASSUME PinsAssumption ==
  \A k \in Kits :
    /\ \A p \in Range(k.rewrite) : \A rec \in k.records[p] : LET t == Target(k, rec[1]) IN
         /\ rec[1] \in Files(k) \cup DOMAIN k.aliases
         /\ rec[2] \in IF t \in Range(k.external) THEN {"supplied"}
                       ELSE IF t \in k.derived THEN {"shipped", "original"} ELSE {"shipped"}
         /\ t # SealPath /\ (t \in {MapPath, PinsPath} => p = SealPath /\ rec[1] = t)
    /\ k.code \subseteq (Range(k.rewrite) \cup Range(k.copy) \cup k.plain) \ (Range(k.external) \cup {PinsPath, SealPath, MapPath})
    /\ k.plain \cap (Range(k.external) \ Range(k.required)) = {}
    /\ \E below \in [Range(k.rewrite) -> SUBSET Range(k.rewrite)] : PinOrder(k, below)

VARIABLES kit,
          payload,  \* path -> bytes
          user,     \* external path -> [data, stamp] of the user's file
          work,     \* path -> node
          given,    \* the external files whose role the caller gave
          todo,     \* what run still does, in order
          made,     \* rewritten path -> [was, now]: in_sha, out_ident
          rphase    \* "idle", "running", "refused" or "done"

rvars == <<kit, payload, user, work, given, todo, made, rphase>>

Bytes(p, state) == [file |-> p, state |-> state, pins |-> {}]
Shipped(k) == [p \in Range(k.rewrite) \cup Range(k.copy) \cup k.plain \cup {MapPath} |->
                 Bytes(p, "shipped")]
-----------------------------------------------------------------------------
(* Paths. *)

Node(p)      == IF p \in DOMAIN work THEN work[p] ELSE [is |-> "nothing"]
IsDir(p)     == p = <<>> \/ Node(p).is = "dir"
IsLink(p)    == Node(p).is = "link"
InPayload(p) == \E q \in DOMAIN payload : p = q \/ Under(q, p)

(* real_of: the code gives up after eight links. *)
Via(p)    == {a \in DOMAIN kit.aliases : a = p \/ Under(p, a)}
RealHop(p) == IF Via(p) = {} THEN p
              ELSE LET a == CHOOSE x \in Via(p) : TRUE IN kit.aliases[a] \o Rest(p, a)
RealOf(p) == RealHop(RealHop(RealHop(RealHop(RealHop(RealHop(RealHop(RealHop(p))))))))

(* The records in a file, and the entries of the map. *)
Records(data) == IF data.state = "shipped"
                   THEN {<<rec[1], Bytes(RealOf(rec[1]), rec[2])>> : rec \in kit.records[data.file]}
                   ELSE data.pins
Entries(data) == IF data.state = "shipped"
                   THEN {<<Bytes(p, "original"), Bytes(p, "shipped")>> : p \in kit.derived}
                   ELSE data.pins

Moved == Range(kit.rewrite) \cup given \cup Range(kit.copy) \cup {MapPath, PinsPath}
           \cup Range(kit.mirrors)
(* new_path: where the string p of a configuration leads after run. *)
NewPath(p) == IF RealOf(p) # p THEN <<"work", p>>
              ELSE IF p \in Moved \/ ~InPayload(p) THEN <<"work", p>>
              ELSE <<"payload", p>>

(* The place a name below work stands for: the links above its last part   *)
(* are followed (Land), or every link (Find), four of them at most.        *)
Follow(x, links(_)) ==
  LET via == {q \in links(x[2]) : IsLink(q)}
  IN IF x[1] = "payload" \/ via = {} THEN x
     ELSE LET q == CHOOSE a \in via : \A b \in via : Len(a) <= Len(b)
          IN <<work[q].to[1], work[q].to[2] \o Rest(x[2], q)>>
LandHop(x) == Follow(x, Above)
FindHop(x) == Follow(x, LAMBDA q : Above(q) \cup {q})
Land(p) == LandHop(LandHop(LandHop(LandHop(<<"work", p>>))))
Find(p) == FindHop(FindHop(FindHop(FindHop(<<"work", p>>))))
Exists(p) == LET x == Land(p) IN
  IF x[1] = "payload" THEN InPayload(x[2]) ELSE x[2] \in DOMAIN work

(* The bytes somebody reads who opens a path below work. *)
Content(root, p) ==
  LET x == IF root = "work" THEN Find(p) ELSE <<root, p>>
  IN IF x[1] = "payload" THEN IF x[2] \in DOMAIN payload THEN payload[x[2]] ELSE Bytes(p, "missing")
     ELSE CASE Node(x[2]).is = "file" -> work[x[2]].data
            [] Node(x[2]).is = "hard" -> user[work[x[2]].of].data
            [] OTHER -> Bytes(p, "missing")
Read(p) == Content(NewPath(p)[1], NewPath(p)[2])

-----------------------------------------------------------------------------
(* One step of run on the file system. *)

(* makedirs of the parent, then the node itself. *)
Put(p, node) ==
  LET x    == Land(p)
      dirs == {q \in Above(x[2]) : q \notin DOMAIN work}
  IN work' = [q \in DOMAIN work \cup dirs \cup {x[2]} |->
                IF q = x[2] THEN node ELSE IF q \in dirs THEN [is |-> "dir"] ELSE work[q]]
(* write: a temporary file and a rename, which replaces a link and follows *)
(* the links above it.                                                     *)
Write(p, data) ==
  IF Land(p)[1] = "payload"
    THEN payload' = [payload EXCEPT ![Land(p)[2]] = data] /\ UNCHANGED work
    ELSE Put(p, [is |-> "file", data |-> data]) /\ UNCHANGED payload
Unlink(p) == work' = [q \in DOMAIN work \ {p} |-> work[q]]

Job      == Head(todo)
At(kind) == rphase = "running" /\ todo # <<>> /\ Job[1] = kind
Pop      == todo' = Tail(todo)
Item     == Job[2]

Each(kind, seq) == [n \in DOMAIN seq |-> <<kind, seq[n]>>]
Given(k, opt)   == IF opt THEN k.external ELSE k.required
Program_MirrorsFirst(k, opt) ==
  Each("check", Given(k, opt)) \o Each("alias", k.names)
    \o Each("mirror", k.mirrors) \o Each("produce", k.rewrite) \o Each("install", Given(k, opt))
    \o Each("copy", k.copy) \o <<<<"map", MapPath>>, <<"pins", PinsPath>>, <<"seal", SealPath>>>>
(* The order of run. *)
Program(k, opt) ==
  Each("check", Given(k, opt)) \o Each("alias", k.names)
    \o Each("produce", k.rewrite) \o Each("install", Given(k, opt)) \o Each("copy", k.copy)
    \o Each("mirror", k.mirrors)
    \o <<<<"map", MapPath>>, <<"pins", PinsPath>>, <<"seal", SealPath>>>>

StartRelocate(opt) ==
  /\ rphase \in {"idle", "done", "refused"}
  /\ given' = Range(Given(kit, opt)) /\ todo' = Program(kit, opt) /\ made' = <<>>
  /\ rphase' = "running"
  /\ UNCHANGED <<kit, payload, user, work>>

(* EXTERNAL_FILE_MISSING_OR_DIFFERENT ends the process. *)
CheckInput ==
  /\ At("check")
  /\ IF user[Item].data = Bytes(Item, "supplied") THEN Pop /\ UNCHANGED rphase
                                                 ELSE todo' = <<>> /\ rphase' = "refused"
  /\ UNCHANGED <<kit, payload, user, work, given, made>>

(* A name that is there is removed first, and may stay removed. *)
Clear ==
  /\ At("alias") \/ At("install")
  /\ Item \in DOMAIN work /\ Unlink(Item)
  /\ UNCHANGED <<kit, payload, user, given, todo, made, rphase>>
LinkAlias ==
  /\ At("alias") /\ Item \notin DOMAIN work
  /\ Put(Item, [is |-> "link", to |-> NewPath(kit.aliases[Item])]) /\ Pop
  /\ UNCHANGED <<kit, payload, user, given, made, rphase>>
(* os.link, or a copy where it fails. *)
Install ==
  /\ At("install") /\ Item \notin DOMAIN work
  /\ \/ Put(Item, [is |-> "hard", of |-> Item])
     \/ Put(Item, [is |-> "file", data |-> user[Item].data])
  /\ Pop
  /\ UNCHANGED <<kit, payload, user, given, made, rphase>>

(* produce(p) descends into the rewritten targets of a file before it      *)
(* writes the file; a target under way has no identity yet (memo is None)  *)
(* and its record stays.                                                   *)
Targets(p) == {RealOf(rec[1]) : rec \in Records(payload[p])} \ {MapPath, PinsPath}
Underway   == {job[2] : job \in {j \in Range(todo) : j[1] = "rebind"}}
Untried(p) == (Targets(p) \cap Range(kit.rewrite)) \ (DOMAIN made \cup Underway)
Rebound(p) ==
  LET new(rec) == LET t == RealOf(rec[1]) IN
        IF t \in DOMAIN made /\ t \notin {MapPath, PinsPath} THEN <<rec[1], made[t].now>> ELSE rec
  IN IF Records(payload[p]) = {} THEN payload[p]
     ELSE [file |-> p, state |-> "relocated", pins |-> {new(rec) : rec \in Records(payload[p])}]
Produce ==
  /\ At("produce")
  /\ todo' = IF Item \in DOMAIN made THEN Tail(todo) ELSE <<<<"rebind", Item>>>> \o Tail(todo)
  /\ UNCHANGED <<kit, payload, user, work, given, made, rphase>>
Rebind ==
  /\ At("rebind")
  /\ IF Untried(Item) # {}
       THEN /\ \E t \in Untried(Item) : todo' = <<<<"rebind", t>>>> \o todo
            /\ UNCHANGED <<payload, work, made>>
       ELSE /\ Write(Item, Rebound(Item)) /\ Pop
            /\ made' = [q \in DOMAIN made \cup {Item} |->
                          IF q = Item THEN [was |-> payload[Item], now |-> Rebound(Item)] ELSE made[q]]
  /\ UNCHANGED <<kit, user, given, rphase>>

CopyModule ==
  /\ At("copy")
  /\ Write(Item, payload[Item]) /\ Pop
  /\ UNCHANGED <<kit, user, given, made, rphase>>

(* mirror_into: an entry of the payload directory that has no name below   *)
(* work yet, in a directory that is really there, is linked.               *)
Within(d) == {q \in UNION {Above(f) \cup {f} : f \in DOMAIN payload} : Under(q, d)}
Unlinked(d) == {q \in Within(d) : ~Exists(q) /\ \A a \in Above(q) : Under(a, d) => IsDir(a)}
MirrorDir ==
  /\ At("mirror")
  /\ IF ~Exists(Item) THEN Put(Item, [is |-> "dir"]) /\ UNCHANGED todo
     ELSE IF Unlinked(Item) = {} THEN Pop /\ UNCHANGED work
     ELSE LET q == CHOOSE e \in Unlinked(Item) : TRUE IN
          Put(q, [is |-> "link", to |-> <<"payload", q>>]) /\ UNCHANGED todo
  /\ UNCHANGED <<kit, payload, user, given, made, rphase>>

(* The derived map: the original of a file that was itself derived now     *)
(* maps to the relocated one; any other changed file is an original.       *)
Changed == {p \in DOMAIN made : made[p].was # made[p].now}
Remap_OriginalsOnly(base) ==
  base \cup {<<made[p].was, made[p].now>> : p \in Changed}
Remap(base) ==
  LET derived(p) == \E e \in base : e[2] = made[p].was
  IN {<<e[1], IF \E p \in Changed : e[2] = made[p].was
                THEN LET p == CHOOSE x \in Changed : e[2] = made[x].was IN made[p].now
                ELSE e[2]>> : e \in base}
       \cup {<<made[p].was, made[p].now>> : p \in {x \in Changed : ~derived(x)}}
(* derived_pins.py must hold the hash of the shipped map. *)
WriteMap ==
  /\ At("map")
  /\ IF Records(payload[PinsPath]) = {<<MapPath, payload[MapPath]>>}
       THEN /\ Write(MapPath, [file |-> MapPath, state |-> "relocated",
                              pins |-> Remap(Entries(payload[MapPath]))])
            /\ Pop /\ UNCHANGED rphase
       ELSE todo' = <<>> /\ rphase' = "refused" /\ UNCHANGED <<payload, work>>
  /\ UNCHANGED <<kit, user, given, made>>
WritePins ==
  /\ At("pins")
  /\ Write(PinsPath, [file |-> PinsPath, state |-> "relocated",
                     pins |-> {<<MapPath, Content("work", MapPath)>>}])
  /\ Pop
  /\ UNCHANGED <<kit, user, given, made, rphase>>
(* The seal's pins of the two generated files; then RELOCATED.json. *)
RefreshSeal ==
  /\ At("seal")
  /\ Write(SealPath, [Content("work", SealPath) EXCEPT !.pins =
       {IF rec[1] \in {MapPath, PinsPath} THEN <<rec[1], Content("work", rec[1])>> ELSE rec : rec \in @}])
  /\ Pop /\ rphase' = "done"
  /\ UNCHANGED <<kit, user, given, made>>

(* The process is killed, or the user edits an input where it is. *)
KillRelocate == /\ rphase = "running"
                /\ rphase' = "idle" /\ todo' = <<>>
                /\ UNCHANGED <<kit, payload, user, work, given, made>>
Edit(p) == /\ user' = [user EXCEPT ![p] =
                 [data |-> IF @.data.state = "supplied" THEN Bytes(p, "edited") ELSE Bytes(p, "supplied"),
                  stamp |-> @.stamp + 1]]
           /\ UNCHANGED <<kit, payload, work, given, todo, made, rphase>>

RelocateStep == \/ CheckInput \/ Clear \/ LinkAlias \/ Produce \/ Rebind \/ Install \/ CopyModule
                \/ MirrorDir \/ WriteMap \/ WritePins \/ RefreshSeal

RInit == /\ kit \in Kits
         /\ payload = Shipped(kit)
         /\ user = [p \in Range(kit.external) |-> [data |-> Bytes(p, "supplied"), stamp |-> 0]]
         /\ work = <<>> /\ given = {} /\ todo = <<>> /\ made = <<>> /\ rphase = "idle"

-----------------------------------------------------------------------------
(* derived_pins.py, as the loaders use it after run. *)
Accepts(expected, actual) ==
  actual = expected \/ <<expected, actual>> \in Entries(Content("work", MapPath))
(* The bytes a source that was frozen with the sealed runs expects. *)
Sealed(p) == Bytes(p, IF p \in kit.derived THEN "original" ELSE "shipped")
Present(p) == Read(p).state # "missing"
Unedited   == \A p \in DOMAIN user : user[p].stamp = 0

(* Whatever was killed and rerun before, when run is through, every pin    *)
(* the loaders may check accepts the file it now finds: the records of the *)
(* relocated files, those that pin one another included, the constants in  *)
(* sources nobody rewrites, the map's own pin, and the seal's pins of the  *)
(* two files generated after the seal was written.                         *)
EveryPinAccepted ==
  rphase = "done" /\ Unedited =>
    /\ Records(Content("work", PinsPath)) = {<<MapPath, Content("work", MapPath)>>}
    /\ \A e, f \in Entries(Content("work", MapPath)) : e[1] = f[1] => e = f
    /\ \A p \in Range(kit.rewrite) : \A rec \in Records(Read(p)) :
         Present(rec[1]) => Accepts(rec[2], Read(rec[1]))
    /\ \A p \in kit.code : Accepts(Sealed(p), Read(p))

(* Every name leads to the file it should, whatever an earlier run of the  *)
(* same root left behind: below a mirrored directory as well as by its own *)
(* name, a rewritten or generated file is the relocated one, an input is   *)
(* the user's, everything else is the payload's (docstring, lines 8-16);   *)
(* and at no time is anything written into the payload.                    *)
NamesResolve ==
  /\ payload = Shipped(kit)
  /\ rphase = "done" /\ Unedited =>
       \A p \in DOMAIN payload \cup given \cup DOMAIN kit.aliases :
         LET r    == RealOf(p)
             want == IF r \in given THEN Bytes(r, "supplied")
                     ELSE IF r \in DOMAIN made THEN made[r].now ELSE Bytes(r, "shipped")
             ok(x) == \/ x = want
                      \/ r \in {MapPath, PinsPath, SealPath} /\ x.state = "relocated" /\ x.file = r
         IN /\ ok(Read(p))
            /\ (\E d \in Range(kit.mirrors) : Under(p, d)) => ok(Content("work", p))
===============================================================================
