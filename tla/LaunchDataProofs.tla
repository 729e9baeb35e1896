---------------------------- MODULE LaunchDataProofs ----------------------------
(***************************************************************************)
(* What a launch computes with: the registry of raw tables, the compact    *)
(* noise tables, the windows of its tokens and the counters of what it     *)
(* allocates.  The first section is about any set of files, number of      *)
(* slots and number of workers, the second any width, offset, block size   *)
(* and length, the third any extent, origin and number of channels, the    *)
(* last any number of threads, blocks, sizes and calls.                    *)
(***************************************************************************)
EXTENDS ReachRegistry, CompactNoise, TokenWindows, AllocCounters, Arithmetic

-----------------------------------------------------------------------------
(* The registry. *)

(* Why it is so: a registry fails only under a worker that throws, and     *)
(* until the join clears it that worker stays where it threw.  So whoever  *)
(* finds the registry failed has a thrown worker beside it, and between    *)
(* launches no registration is both there and failed.                      *)
SomeThrew == \E w \in Worker : pc[w] = "threw"
Guessed   == \E w \in Worker : "predicted" \in used[w]

TypeInv == /\ registered \in BOOLEAN /\ failed \in BOOLEAN
           /\ launch \in {"none", "running", "returned", "raised"}
           /\ DOMAIN pc = Worker /\ DOMAIN used = Worker /\ DOMAIN want = Worker
           /\ \A w \in Worker : pc[w] \in {"done", "has", "lookup", "threw"}
RestInv == launch # "running" =>
             ~(registered /\ failed) /\ \A w \in Worker : pc[w] \in {"done", "threw"}
RunInv  == launch = "running" => Ready \/ SomeThrew
UsedInv == Guessed => launch = "raised" \/ (launch = "running" /\ SomeThrew)
RInv == TypeInv /\ RestInv /\ RunInv /\ UsedInv

(* The invariant holds before the first registration. *)
LEMMA RStarts == Init => RInv
  BY DEF Init, RInv, TypeInv, RestInv, RunInv, UsedInv, Guessed

(* A worker that moves on without throwing keeps a thrown worker thrown. *)
LEMMA ThrewStays ==
  ASSUME NEW v \in Worker, NEW to, DOMAIN pc = Worker, pc[v] # "threw", SomeThrew,
         pc' = [pc EXCEPT ![v] = to]
  PROVE  SomeThrew'
<1>1. PICK w \in Worker : pc[w] = "threw"
  BY DEF SomeThrew
<1>2. w # v /\ pc'[w] = "threw"
  BY <1>1
<1> QED BY <1>2 DEF SomeThrew

(* What a worker goes on with adds to what it used. *)
LEMMA UseAdds ==
  ASSUME NEW v \in Worker, NEW x, TypeInv, Use(v, x), x # "predicted" \/ SomeThrew, pc[v] = "lookup",
         UNCHANGED <<registered, failed, launch>>, launch = "running",
         UsedInv, RunInv
  PROVE  TypeInv' /\ RestInv' /\ RunInv' /\ UsedInv'
<1>1. TypeInv'
  BY DEF TypeInv, Use
<1>2. SomeThrew => SomeThrew'
  BY ThrewStays DEF TypeInv, Use
<1>3. Guessed' => Guessed \/ x = "predicted"
  <2> SUFFICES ASSUME NEW w \in Worker, "predicted" \in used'[w] PROVE Guessed \/ x = "predicted"
    BY DEF Guessed
  <2>1. "predicted" \in used[w] \/ x = "predicted"
    BY DEF Use, TypeInv
  <2> QED BY <2>1 DEF Guessed
<1> QED BY <1>1, <1>2, <1>3 DEF RestInv, RunInv, UsedInv, Ready

(* Every step keeps the invariant. *)
LEMMA RHolds == RInv /\ [Next]_vars => RInv'
<1> SUFFICES ASSUME RInv, [Next]_vars PROVE RInv'
  OBVIOUS
<1>q. TypeInv /\ RestInv /\ RunInv /\ UsedInv
  BY DEF RInv
<1> USE DEF files, lru, work
<1>1. CASE Register
  <2>1. registered' \in BOOLEAN /\ failed' \in BOOLEAN /\ ~(registered' /\ failed')
    <3>1. ~registered /\ ~failed
      BY <1>1 DEF Register
    <3>2. (registered' = TRUE /\ failed' = failed) \/ (failed' = TRUE /\ registered' = registered)
      BY <1>1 DEF Register
    <3>3. failed' = failed => ~failed' /\ failed' \in BOOLEAN
      BY <3>1, <1>q DEF TypeInv
    <3>4. registered' = registered => ~registered' /\ registered' \in BOOLEAN
      BY <3>1, <1>q DEF TypeInv
    <3> QED BY <3>2, <3>3, <3>4
  <2>2. UNCHANGED <<launch, pc, want, used>> /\ launch # "running"
    BY <1>1 DEF Register
  <2> QED BY <2>1, <2>2, <1>q DEF RInv, TypeInv, RestInv, RunInv, UsedInv, Guessed
<1>2. ASSUME NEW m \in Member, Touch(m) PROVE RInv'
  BY <1>2, <1>q DEF Touch, RInv, TypeInv, RestInv, RunInv, UsedInv, Guessed, SomeThrew, Ready
<1>3. CASE Launch
  <2>1. DOMAIN want' = Worker
    BY <1>3 DEF Launch
  <2>2. ~Guessed'
    BY <1>3 DEF Launch, Guessed
  <2>3. TypeInv'
    BY <1>3, <1>q, <2>1 DEF Launch, TypeInv
  <2>4. Ready'
    BY <1>3, <1>q DEF Launch, Ready, RestInv, TypeInv
  <2> QED BY <1>3, <2>2, <2>3, <2>4 DEF RInv, RestInv, RunInv, UsedInv, Launch
<1>4. CASE Join
  <2>1. CASE SomeThrew
    BY <2>1, <1>4, <1>q DEF Join, Clear, DropCache, SomeThrew, RInv, TypeInv, RestInv, RunInv, UsedInv
  <2>2. CASE ~SomeThrew
    <3>1. launch' = "returned" /\ UNCHANGED <<registered, failed>> /\ launch = "running"
      BY <2>2, <1>4 DEF Join, SomeThrew
    <3>2. ~Guessed'
      BY <2>2, <1>4, <1>q, <3>1 DEF UsedInv, Guessed, Join
    <3> QED BY <3>1, <3>2, <2>2, <1>4, <1>q DEF Join, RInv, TypeInv, RestInv, RunInv, UsedInv, Ready
  <2> QED BY <2>1, <2>2
<1>5. CASE ClearTables
  BY <1>5, <1>q DEF ClearTables, DropCache, RInv, TypeInv, RestInv, RunInv, UsedInv, Guessed, SomeThrew, Ready
<1>6. CASE ReachClear
  BY <1>6, <1>q DEF ReachClear, Clear, DropCache, RInv, TypeInv, RestInv, RunInv, UsedInv, Guessed, SomeThrew
<1>7. ASSUME NEW v \in Worker, Has(v) PROVE RInv'
  <2>1. TypeInv'
    BY <1>7, <1>q DEF Has, Leave, TypeInv
  <2>2. SomeThrew => SomeThrew'
    BY <1>7, <1>q, ThrewStays DEF Has, Leave, TypeInv
  <2> QED BY <1>7, <1>q, <2>1, <2>2 DEF Has, RInv, RestInv, RunInv, UsedInv, Guessed, Ready
<1>8. ASSUME NEW v \in Worker, LookupFalse(v) PROVE RInv'
  <2>1. pc[v] = "lookup" /\ UNCHANGED <<registered, failed, launch>>
    BY <1>8 DEF LookupFalse
  <2>2. launch = "running"
    BY <2>1, <1>q DEF RestInv
  <2>3. PICK x : Use(v, x) /\ (x # "predicted" \/ SomeThrew)
    BY <1>8, <1>q, <2>2 DEF LookupFalse, RunInv
  <2> QED BY <2>1, <2>2, <2>3, <1>q, UseAdds DEF RInv
<1>9. ASSUME NEW v \in Worker, Hit(v) PROVE RInv'
  <2>1. pc[v] = "lookup" /\ UNCHANGED <<registered, failed, launch>>
    BY <1>9 DEF Hit
  <2>2. launch = "running"
    BY <2>1, <1>q DEF RestInv
  <2>3. PICK x : Use(v, x) /\ (x # "predicted" \/ SomeThrew)
    BY <1>9, <1>q, <2>2 DEF Hit, Value
  <2> QED BY <2>1, <2>2, <2>3, <1>q, UseAdds DEF RInv
<1>10. ASSUME NEW v \in Worker, Miss(v) PROVE RInv'
  <2>1. pc[v] = "lookup" /\ UNCHANGED <<registered, failed, launch>>
    BY <1>10 DEF Miss
  <2>2. launch = "running"
    BY <2>1, <1>q DEF RestInv
  <2>3. PICK x : Use(v, x) /\ (x # "predicted" \/ SomeThrew)
    BY <1>10, <1>q, <2>2 DEF Miss, Value
  <2> QED BY <2>1, <2>2, <2>3, <1>q, UseAdds DEF RInv
<1>11. ASSUME NEW v \in Worker, MissFails(v) PROVE RInv'
  <2>1. launch = "running" /\ pc[v] = "lookup" /\ pc' = [pc EXCEPT ![v] = "threw"]
    BY <1>11, <1>q DEF MissFails, Leave, RestInv
  <2>2. UNCHANGED <<registered, launch, used, want>> /\ failed' = TRUE
    BY <1>11 DEF MissFails, Leave
  <2>3. SomeThrew'
    BY <2>1, <1>q DEF SomeThrew, TypeInv
  <2>4. TypeInv'
    BY <2>1, <2>2, <1>q DEF TypeInv
  <2> QED BY <2>1, <2>2, <2>3, <2>4 DEF RInv, RestInv, RunInv, UsedInv
<1>12. CASE UNCHANGED vars
  BY <1>12, <1>q DEF vars, RInv, TypeInv, RestInv, RunInv, UsedInv, Guessed, SomeThrew, Ready
<1> QED BY <1>1, <1>2, <1>3, <1>4, <1>5, <1>6, <1>7, <1>8, <1>9, <1>10, <1>11, <1>12 DEF Next

(* A launch of the tail that returns has computed with values of the       *)
(* registry alone, whatever its workers did at the moment it failed.       *)
THEOREM Exact == Spec => []ReturnedIsExact
<1>1. RInv => ReturnedIsExact
  BY DEF RInv, UsedInv, Guessed, ReturnedIsExact
<1> QED BY RStarts, RHolds, <1>1, PTL DEF Spec

(* Why the cache holds the latest members: an age is the time its member   *)
(* was last looked up, and no two members have the same one, so the lowest *)
(* age belongs to the member that was looked up longest ago.               *)
CacheTypes == /\ cache \in [1 .. Slots -> [member : Member \cup {None}, age : Nat]]
              /\ clock \in Nat /\ last \in [Member -> Nat]
AgeInv  == \A i \in 1 .. Slots :
             cache[i].member # None => /\ cache[i].age = last[cache[i].member]
                                       /\ last[cache[i].member] > 0
LastInv == /\ \A m \in Member : last[m] <= clock
           /\ \A m, n \in Member : last[m] = last[n] /\ last[m] > 0 => m = n
OneSlot == \A i, j \in 1 .. Slots : i # j /\ cache[i].member # None
                                      => cache[i].member # cache[j].member
GoneInv == \A m \in Member :
             last[m] > 0 /\ (\A i \in 1 .. Slots : cache[i].member # m) =>
               \A i \in 1 .. Slots : cache[i].member # None /\ last[m] < cache[i].age
CacheInv == CacheTypes /\ AgeInv /\ LastInv /\ OneSlot /\ GoneInv
FreshInv == ~registered => cache = Empty /\ last = Never
WantInv  == /\ want \in [Worker -> Seq(Member)] /\ DOMAIN pc = Worker
            /\ \A w \in Worker : pc[w] = "lookup" => want[w] # <<>>
CInv == CacheInv /\ FreshInv /\ WantInv

(* A cache that is dropped is as good as a new one. *)
LEMMA Dropped == ASSUME DropCache, clock' \in Nat PROVE CacheInv'
<1>1. /\ cache' = [i \in 1 .. Slots |-> [member |-> None, age |-> 0]]
      /\ last' = [m \in Member |-> 0]
  BY DEF DropCache, Empty, Never
<1> QED BY <1>1 DEF CacheInv, CacheTypes, AgeInv, LastInv, OneSlot, GoneInv

(* The victim is a free slot, or of all slots the one with the lowest age. *)
LEMMA VictimFact ==
  ASSUME CacheTypes
  PROVE  /\ Victim \in 1 .. Slots
         /\ cache[Victim].member # None => \A i \in 1 .. Slots : /\ cache[i].member # None
                                                                 /\ cache[Victim].age <= cache[i].age
<1>1. ASSUME NEW S, S \subseteq 1 .. Slots, S # {} PROVE First(S) \in S
  <2>1. S \subseteq Nat
    BY <1>1, RegistryAssumption
  <2>2. \E i \in S : \A j \in S : i <= j
    BY <1>1, <2>1, Least
  <2> QED BY <2>2 DEF First
<1>2. Free \subseteq 1 .. Slots /\ Oldest \subseteq 1 .. Slots
  BY DEF CacheTypes, Free, Oldest
<1>3. Oldest # {}
  <2> DEFINE Ages == {cache[i].age : i \in 1 .. Slots}
  <2>1. Ages \subseteq Nat
    BY DEF CacheTypes
  <2>2. Ages # {}
    <3>1. 1 \in 1 .. Slots
      BY RegistryAssumption
    <3> QED BY <3>1
  <2>3. PICK a \in Ages : \A b \in Ages : a <= b
    <3> HIDE DEF Ages
    <3> QED BY <2>1, <2>2, Least
  <2> QED BY <2>3 DEF CacheTypes, Oldest
<1>4. CASE Free # {}
  <2>1. Victim \in Free
    BY <1>1, <1>2, <1>4 DEF Victim
  <2> QED BY <2>1 DEF CacheTypes, Free
<1>5. CASE Free = {}
  <2>1. Victim \in Oldest
    BY <1>1, <1>2, <1>3, <1>5 DEF Victim
  <2> QED BY <2>1, <1>5 DEF CacheTypes, Free, Oldest
<1> QED BY <1>4, <1>5

(* A member in the cache is looked up. *)
LEMMA HitKeeps ==
  ASSUME CacheInv, NEW m \in Member, NEW i \in 1 .. Slots, cache[i].member = m,
         cache' = [cache EXCEPT ![i].age = clock + 1], LookedUp(m)
  PROVE  CacheInv'
<1> USE RegistryAssumption DEF CacheInv, CacheTypes, LookedUp
<1>1. CacheTypes'
  OBVIOUS
<1>2. \A j \in 1 .. Slots : cache'[j].member = cache[j].member
  OBVIOUS
<1>3. /\ cache'[i].age = clock + 1 /\ last'[m] = clock + 1
      /\ \A j \in 1 .. Slots : j # i => cache'[j].age = cache[j].age /\ cache[j].member # m
      /\ \A n \in Member : n # m => last'[n] = last[n]
  BY DEF OneSlot
<1>4. AgeInv' /\ OneSlot'
  BY <1>2, <1>3 DEF AgeInv, OneSlot
<1>5. LastInv'
  BY <1>3 DEF LastInv
<1>6. GoneInv'
  <2> SUFFICES ASSUME NEW n \in Member, last'[n] > 0,
                      \A j \in 1 .. Slots : cache'[j].member # n,
                      NEW j \in 1 .. Slots
               PROVE  cache'[j].member # None /\ last'[n] < cache'[j].age
    BY DEF GoneInv
  <2>1. n # m /\ last'[n] = last[n] /\ last[n] <= clock
    BY <1>2, <1>3 DEF LastInv
  <2>2. cache[j].member # None /\ last[n] < cache[j].age
    BY <1>2, <2>1 DEF GoneInv
  <2> QED BY <1>2, <1>3, <2>1, <2>2
<1> QED BY <1>1, <1>4, <1>5, <1>6

(* A member that is not in the cache takes the place of the victim. *)
LEMMA MissKeeps ==
  ASSUME CacheInv, NEW m \in Member, \A i \in 1 .. Slots : cache[i].member # m,
         cache' = [cache EXCEPT ![Victim] = [member |-> m, age |-> clock + 1]], LookedUp(m)
  PROVE  CacheInv'
<1> USE RegistryAssumption DEF CacheInv, CacheTypes, LookedUp
<1> DEFINE v == Victim
<1>1. /\ v \in 1 .. Slots
      /\ cache[v].member # None => \A i \in 1 .. Slots : /\ cache[i].member # None
                                                         /\ cache[v].age <= cache[i].age
  BY VictimFact
<1> HIDE DEF v
<1>2. cache' = [cache EXCEPT ![v] = [member |-> m, age |-> clock + 1]]
  BY DEF v
<1>3. CacheTypes'
  BY <1>1, <1>2
<1>4. /\ cache'[v].member = m /\ cache'[v].age = clock + 1 /\ last'[m] = clock + 1
      /\ \A j \in 1 .. Slots : j # v => cache'[j] = cache[j]
      /\ \A n \in Member : n # m => last'[n] = last[n]
  BY <1>1, <1>2
<1>5. AgeInv' /\ OneSlot'
  BY <1>1, <1>4 DEF AgeInv, OneSlot
<1>6. LastInv'
  BY <1>4 DEF LastInv
<1>7. GoneInv'
  <2> SUFFICES ASSUME NEW n \in Member, last'[n] > 0,
                      \A i \in 1 .. Slots : cache'[i].member # n,
                      NEW i \in 1 .. Slots
               PROVE  cache'[i].member # None /\ last'[n] < cache'[i].age
    BY DEF GoneInv
  <2>1. n # m /\ last'[n] = last[n] /\ last[n] <= clock
    BY <1>1, <1>4 DEF LastInv
  <2>2. CASE cache[v].member = n
    <3>1. i # v => /\ cache[i].member # None /\ cache[i].member # n
                   /\ cache[i].age = last[cache[i].member] /\ last[n] = cache[v].age
                   /\ last[n] <= cache[i].age /\ last[n] # cache[i].age
      BY <1>1, <2>1, <2>2 DEF AgeInv, OneSlot, LastInv
    <3> QED BY <1>4, <2>1, <3>1
  <2>3. CASE cache[v].member # n
    <3>1. \A j \in 1 .. Slots : cache[j].member # n
      BY <1>4, <2>3
    <3>2. cache[i].member # None /\ last[n] < cache[i].age
      BY <2>1, <3>1 DEF GoneInv
    <3> QED BY <1>4, <2>1, <3>2
  <2> QED BY <2>2, <2>3
<1> QED BY <1>3, <1>5, <1>6, <1>7

(* The cache is empty at the start. *)
LEMMA CStarts == Init => CInv
  BY DEF Init, CInv, CacheInv, CacheTypes, AgeInv, LastInv, OneSlot, GoneInv, FreshInv,
     WantInv, Empty, Never

LEMMA CHolds == CInv /\ [Next]_vars => CInv'
<1> SUFFICES ASSUME CInv, [Next]_vars PROVE CInv'
  OBVIOUS
<1> USE DEF CInv, lru, files, work
<1>u. ASSUME UNCHANGED <<cache, last>>, clock' = clock PROVE CacheInv'
  BY <1>u DEF CacheInv, CacheTypes, AgeInv, LastInv, OneSlot, GoneInv
<1>1. CASE Register
  <2>1. DropCache /\ clock' \in Nat
    BY <1>1 DEF Register, FreshInv, DropCache
  <2> QED BY <1>1, <2>1, Dropped DEF Register, DropCache, FreshInv, WantInv
<1>2. CASE Launch
  <2>1. \A w \in Worker : pc'[w] = "has"
    BY <1>2 DEF Launch
  <2>2. want' \in [Worker -> Seq(Member)] /\ DOMAIN pc' = Worker
    BY <1>2, RegistryAssumption DEF Launch, BoundedSeq, SeqOf
  <2> QED BY <1>2, <1>u, <2>1, <2>2 DEF Launch, FreshInv, WantInv
<1>3. CASE Join
  <2>1. WantInv'
    BY <1>3 DEF Join, WantInv
  <2>2. CASE Clear /\ clock' = clock
    BY <2>1, <2>2, Dropped DEF Clear, DropCache, FreshInv, CacheInv, CacheTypes
  <2>3. CASE UNCHANGED <<registered, failed, cache, last>> /\ clock' = clock
    BY <2>1, <2>3, <1>u DEF FreshInv
  <2> QED BY <1>3, <2>2, <2>3 DEF Join
<1>4. CASE ClearTables
  BY <1>4, Dropped DEF ClearTables, DropCache, FreshInv, WantInv, CacheInv, CacheTypes
<1>5. CASE ReachClear
  BY <1>5, Dropped DEF ReachClear, Clear, DropCache, FreshInv, WantInv, CacheInv, CacheTypes
<1>6. ASSUME NEW m \in Member, Touch(m) PROVE CInv'
  BY <1>6, <1>u DEF Touch, FreshInv, WantInv
<1>7. ASSUME NEW w \in Worker, Has(w) PROVE CInv'
  BY <1>7, <1>u DEF Has, Leave, FreshInv, WantInv
<1>k. ASSUME NEW w \in Worker, NEW x, Use(w, x), pc[w] = "lookup" PROVE WantInv'
  BY <1>k DEF Use, WantInv
<1>8. ASSUME NEW w \in Worker, LookupFalse(w) PROVE CInv'
  BY <1>8, <1>u, <1>k DEF LookupFalse, FreshInv
<1>m. ASSUME NEW w \in Worker, pc[w] = "lookup" PROVE Member1(w) \in Member
  BY <1>m DEF WantInv, Member1
<1>9. ASSUME NEW w \in Worker, Hit(w) PROVE CInv'
  <2>1. PICK i \in SlotsOf(Member1(w)) : cache' = [cache EXCEPT ![i].age = clock + 1]
    BY <1>9 DEF Hit
  <2>2. i \in 1 .. Slots /\ cache[i].member = Member1(w)
    BY <2>1 DEF SlotsOf, CacheInv, CacheTypes
  <2>3. CacheInv'
    BY <1>9, <1>m, <2>1, <2>2, HitKeeps DEF Hit
  <2> QED BY <1>9, <1>k, <2>3 DEF Hit, Ready, FreshInv
<1>10. ASSUME NEW w \in Worker, Miss(w) PROVE CInv'
  <2>1. \A i \in 1 .. Slots : cache[i].member # Member1(w)
    BY <1>10 DEF Miss, SlotsOf, CacheInv, CacheTypes
  <2>2. CacheInv'
    BY <1>10, <1>m, <2>1, MissKeeps DEF Miss
  <2> QED BY <1>10, <1>k, <2>2 DEF Miss, Ready, FreshInv
<1>11. ASSUME NEW w \in Worker, MissFails(w) PROVE CInv'
  BY <1>11, Dropped DEF MissFails, Leave, DropCache, FreshInv, WantInv, CacheInv, CacheTypes
<1>12. CASE UNCHANGED vars
  BY <1>12, <1>u DEF vars, FreshInv, WantInv
<1> QED BY <1>1, <1>2, <1>3, <1>4, <1>5, <1>6, <1>7, <1>8, <1>9, <1>10, <1>11, <1>12 DEF Next

(* The cache of two slots, or of any number, holds what was looked up      *)
(* last, each member once.                                                 *)
THEOREM MostRecent == Spec => []HoldsMostRecent
<1>1. CInv => HoldsMostRecent
  <2> SUFFICES ASSUME CacheInv PROVE HoldsMostRecent
    BY DEF CInv
  <2> USE DEF CacheInv, CacheTypes
  <2>1. \A i, j \in DOMAIN cache : i # j /\ cache[i].member # None => cache[i].member # cache[j].member
    BY DEF OneSlot
  <2>2. \A m \in Cached : \E i \in 1 .. Slots : cache[i].member = m /\ m # None
    BY DEF Cached
  <2>3. \A m \in Cached : last[m] > 0
    BY <2>2 DEF AgeInv
  <2>4. ASSUME NEW m \in Member \ Cached, last[m] > 0
        PROVE  Free = {} /\ \A c \in Cached : last[m] < last[c]
    <3>1. \A i \in 1 .. Slots : cache[i].member # m
      BY <2>4, RegistryAssumption DEF Cached
    <3>2. \A i \in 1 .. Slots : cache[i].member # None /\ last[m] < cache[i].age
      BY <2>4, <3>1 DEF GoneInv
    <3> QED BY <2>2, <3>2 DEF Free, AgeInv
  <2> QED BY <2>1, <2>3, <2>4 DEF HoldsMostRecent
<1> QED BY CStarts, CHolds, <1>1, PTL DEF Spec

-----------------------------------------------------------------------------
(* Compact noise tables. *)

(* The shape of every file that may be handed in.                         *)
LEMMA FileFact ==
  ASSUME file \in Files
  PROVE  /\ file.count \in Nat /\ file.block \in Nat /\ file.blocks \in Nat /\ file.payload \in Nat
         /\ \A i \in 1 .. file.blocks : file.width[i] \in Nat /\ file.offset[i] \in Int
         /\ ByteBits \in Nat /\ ByteBits > 0
  BY FilesAssumption, NoiseAssumption

(* A good header announces as many entries as its blocks hold.            *)
LEMMA HeaderFact ==
  ASSUME file \in Files, GoodHeader
  PROVE  /\ file.block > 0 /\ file.block % ByteBits = 0
         /\ file.count = file.blocks * file.block
<1>1. file.block > 0 /\ file.block % ByteBits = 0
  BY NoiseAssumption, FileFact DEF GoodHeader
<1>2. file.count = (file.count \div file.block) * file.block + (file.count % file.block)
  BY <1>1, FileFact, Divided
<1> QED BY <1>1, <1>2, FileFact DEF GoodHeader

(* The bytes of a block hold its residuals exactly.                        *)
LEMMA SizeFact ==
  ASSUME file \in Files, GoodHeader, NEW i \in Blocks
  PROVE  Size(i) \in Nat /\ Size(i) * ByteBits = file.width[i] * file.block
<1> DEFINE q == file.block \div ByteBits
<1>1. q \in Nat /\ file.block = q * ByteBits
  BY FileFact, HeaderFact, Divided
<1>2. file.width[i] \in Nat
  BY FileFact DEF Blocks
<1> HIDE DEF q
<1>3. file.width[i] * file.block = (file.width[i] * q) * ByteBits
  BY <1>1, <1>2, FileFact
<1>4. file.width[i] * q \in Nat
  BY <1>1, <1>2
<1>5. Size(i) = file.width[i] * q
  BY <1>3, <1>4, FileFact, Multiple DEF Size
<1> QED BY <1>3, <1>4, <1>5

-----------------------------------------------------------------------------
(* The invariant of the loop: the blocks seen so far follow each other     *)
(* from the start of the payload to the cursor.                            *)
End(i)    == file.offset[i] + Size(i)
SeenInv   == \A i \in 1 .. checked : file.offset[i] >= 0 /\ End(i) <= cursor
InTurnInv == \A i, j \in 1 .. checked : i < j => End(i) <= file.offset[j]
LoopInv   ==
  /\ file \in Files
  /\ verdict \in {"blocks", "accepted"} => GoodHeader
  /\ checked \in 0 .. file.blocks /\ cursor \in 0 .. file.payload
  /\ verdict \in {"header", "header refused"} => checked = 0
  /\ checked > 0 => GoodHeader
  /\ SeenInv /\ InTurnInv
  /\ verdict = "accepted" => checked = file.blocks

(* The invariant holds before the loop,                                   *)
LEMMA LoopStarts == NInit => LoopInv
  BY FileFact DEF NInit, LoopInv, SeenInv, InTurnInv, End

(* and every step of validate keeps it.                                   *)
LEMMA LoopHolds == LoopInv /\ [NNext]_nvars => LoopInv'
<1> SUFFICES ASSUME LoopInv, [NNext]_nvars PROVE LoopInv'
  OBVIOUS
<1>0. checked + 1 \in Nat
  <2>1. file.blocks \in Nat /\ checked \in 0 .. file.blocks
    BY FileFact DEF LoopInv
  <2> QED BY <2>1
<1> USE FileFact DEF LoopInv
<1>1. ASSUME UNCHANGED <<file, checked, cursor>>,
             verdict' \in {"blocks", "accepted"} => GoodHeader,
             verdict' \in {"header", "header refused"} => checked = 0,
             verdict' = "accepted" => checked = file.blocks
      PROVE  LoopInv'
  BY <1>1 DEF SeenInv, InTurnInv, End, Size, GoodHeader, Lanes
<1>2. CASE ReadHeader
  BY <1>1, <1>2 DEF ReadHeader, Refuse
<1>3. CASE CheckEnd
  BY <1>1, <1>3 DEF CheckEnd, Refuse
<1>4. CASE CheckBlock
  <2>0. PICK i \in Nat : i = checked + 1  \* a constant: the block looked at
    BY <1>0
  <2>1. CASE UNCHANGED <<file, checked, cursor>> /\ verdict' = "block refused"
    BY <1>1, <2>1
  <2>2. CASE /\ verdict = "blocks" /\ i \in Blocks /\ Follows(i) /\ cursor + Size(i) <= file.payload
             /\ checked' = i /\ cursor' = cursor + Size(i) /\ UNCHANGED <<file, verdict>>
    <3>1. Size(i) \in Nat
      BY <2>2, SizeFact
    <3>2. End(i) = cursor' /\ file.offset[i] = cursor
      BY <2>2 DEF End, Follows
    <3>3. file.offset'= file.offset /\ \A j \in Blocks : End(j)' = End(j)
      BY <2>2 DEF End, Size
    <3>4. \A j \in 1 .. checked' : j \in 1 .. checked \/ j = i
      BY <2>0, <2>2
    <3>5. SeenInv'
      <4>1. cursor <= cursor' /\ cursor >= 0
        BY <2>2, <3>1
      <4>2. ASSUME NEW j \in 1 .. checked
            PROVE  file.offset[j] >= 0 /\ End(j) \in Int /\ End(j) <= cursor /\ End(j)' = End(j)
        <5>1. j \in Blocks
          BY <2>2 DEF Blocks
        <5> QED BY <2>2, <3>3, <5>1, SizeFact, FileFact DEF SeenInv, End, Blocks
      <4>3. file.offset[i] >= 0 /\ End(i)' = cursor'
        BY <2>2, <3>2, <3>3, <4>1
      <4> QED BY <2>2, <3>3, <3>4, <4>1, <4>2, <4>3 DEF SeenInv
    <3>6. InTurnInv'
      BY <2>2, <3>1, <3>2, <3>3, <3>4 DEF InTurnInv, SeenInv, Blocks
    <3>7. GoodHeader'
      BY <2>2 DEF GoodHeader, Lanes
    <3> QED BY <2>2, <3>1, <3>5, <3>6, <3>7 DEF Blocks
  <2> QED BY <1>4, <2>0, <2>1, <2>2 DEF CheckBlock, Refuse
<1>5. CASE UNCHANGED nvars
  BY <1>1, <1>5 DEF nvars
<1> QED BY <1>2, <1>3, <1>4, <1>5 DEF NNext

-----------------------------------------------------------------------------
(* Where the bits of entry k are: in its block, in its lane.               *)
LEMMA EntryFact ==
  ASSUME file \in Files, GoodHeader, NEW k \in 1 .. file.count
  PROVE  /\ BlockOf(k) \in Blocks /\ LaneOf(k) \in 0 .. file.block - 1
         /\ k = (BlockOf(k) - 1) * file.block + LaneOf(k) + 1
<1> DEFINE b == file.block   d == (k - 1) \div b
<1>1. b \in Nat /\ b > 0 /\ k - 1 \in Nat /\ file.blocks \in Nat
  BY FileFact, HeaderFact
<1>2. d \in Nat /\ (k - 1) % b \in 0 .. b - 1 /\ k - 1 = d * b + ((k - 1) % b)
  BY <1>1, Divided
<1> HIDE DEF d
<1>3. d < file.blocks
  <2>1. SUFFICES ASSUME file.blocks <= d PROVE FALSE
    BY <1>1, <1>2
  <2>2. file.blocks * b <= d * b
    <3>1. CASE file.blocks = d
      BY <3>1, <1>1, <1>2
    <3>2. CASE file.blocks < d
      <4>1. file.blocks * b + b <= d * b
        BY <3>2, <1>1, <1>2, Rises
      <4>2. file.blocks * b \in Nat /\ d * b \in Nat
        BY <1>1, <1>2
      <4> QED BY <4>1, <4>2, <1>1
    <3> QED BY <2>1, <3>1, <3>2, <1>1, <1>2
  <2>3. file.count = file.blocks * b /\ file.count \in Nat
    BY FileFact, HeaderFact
  <2>4. d * b \in Nat /\ file.blocks * b \in Nat
    BY <1>1, <1>2
  <2> QED BY <1>1, <1>2, <2>2, <2>3, <2>4
<1>4. BlockOf(k) = d + 1 /\ LaneOf(k) = (k - 1) % b
  BY DEF d, BlockOf, LaneOf
<1>5. (BlockOf(k) - 1) * b = d * b /\ d * b \in Nat
  BY <1>1, <1>2, <1>4
<1> QED BY <1>1, <1>2, <1>3, <1>4, <1>5 DEF Blocks

(* Its bits lie in the bytes of its block. *)
LEMMA PlaceFact ==
  ASSUME file \in Files, GoodHeader, NEW k \in 1 .. file.count,
         NEW j \in 0 .. file.width[BlockOf(k)] - 1
  PROVE  \E r \in Nat : /\ Place(k, j) = file.offset[BlockOf(k)] * ByteBits + r
                        /\ r < Size(BlockOf(k)) * ByteBits
                        /\ r = IF Lanes THEN LaneOf(k) * file.width[BlockOf(k)] + j
                                         ELSE j * file.block + LaneOf(k)
<1> DEFINE i == BlockOf(k)   l == LaneOf(k)   w == file.width[i]   b == file.block
           r == IF Lanes THEN l * w + j ELSE j * b + l
<1>1. i \in Blocks /\ l \in 0 .. b - 1 /\ w \in Nat /\ b \in Nat /\ j \in Nat /\ j < w
  BY EntryFact, FileFact DEF Blocks
<1>2. Size(i) * ByteBits = w * b
  BY <1>1, SizeFact
<1>3. l * w + w <= b * w
  BY <1>1, Rises
<1>4. j * b + b <= w * b
  BY <1>1, Rises
<1>5. l * w \in Nat /\ j * b \in Nat /\ w * b \in Nat /\ b * w = w * b
  BY <1>1
<1>6. r \in Nat /\ r < w * b
  BY <1>1, <1>3, <1>4, <1>5
<1>7. Place(k, j) = file.offset[i] * ByteBits + r
  BY DEF Place
<1> QED BY <1>2, <1>6, <1>7

(* Two entries of one block: their lanes differ. *)
LEMMA SameBlock ==
  ASSUME file \in Files, GoodHeader, NEW k \in 1 .. file.count, NEW m \in 1 .. file.count,
         BlockOf(k) = BlockOf(m), k # m,
         NEW p \in 0 .. file.width[BlockOf(k)] - 1, NEW q \in 0 .. file.width[BlockOf(k)] - 1
  PROVE  Place(k, p) # Place(m, q)
<1> DEFINE w == file.width[BlockOf(k)]   b == file.block   o == file.offset[BlockOf(k)] * ByteBits
<1>1. /\ LaneOf(k) \in Nat /\ LaneOf(m) \in Nat /\ LaneOf(k) < b /\ LaneOf(m) < b
      /\ LaneOf(k) # LaneOf(m) /\ w \in Nat /\ b \in Nat /\ p \in Nat /\ q \in Nat /\ o \in Int
  BY EntryFact, FileFact DEF Blocks
<1>2. LaneOf(k) * w + p # LaneOf(m) * w + q
  BY <1>1, Apart
<1>3. p * b + LaneOf(k) # q * b + LaneOf(m)
  BY <1>1, Apart
<1>4. /\ LaneOf(k) * w + p \in Int /\ LaneOf(m) * w + q \in Int
      /\ p * b + LaneOf(k) \in Int /\ q * b + LaneOf(m) \in Int
  BY <1>1
<1>5. /\ Place(k, p) = o + IF Lanes THEN LaneOf(k) * w + p ELSE p * b + LaneOf(k)
      /\ Place(m, q) = o + IF Lanes THEN LaneOf(m) * w + q ELSE q * b + LaneOf(m)
  BY DEF Place
<1> HIDE DEF w, b, o
<1>6. CASE Lanes
  BY <1>1, <1>2, <1>4, <1>5, <1>6
<1>7. CASE ~Lanes
  <2>1. Place(k, p) = o + (p * b + LaneOf(k)) /\ Place(m, q) = o + (q * b + LaneOf(m))
    BY <1>5, <1>7
  <2>2. ASSUME NEW x \in Int, NEW y \in Int, x # y PROVE o + x # o + y
    BY <1>1, <2>2
  <2> QED BY <1>3, <1>4, <2>1, <2>2
<1> QED BY <1>6, <1>7

(* What the loop has seen of an accepted file keeps its entries apart.    *)
LEMMA Accepted == LoopInv => EntriesApart
<1> SUFFICES ASSUME LoopInv, verdict = "accepted", NEW k \in 1 .. file.count
             PROVE  /\ Places(k) \subseteq 0 .. file.payload * ByteBits - 1
                    /\ \A m \in 1 .. file.count : m # k => Places(m) \cap Places(k) = {}
  BY DEF EntriesApart
<1>1. /\ file \in Files /\ GoodHeader /\ checked = file.blocks /\ cursor \in 0 .. file.payload
      /\ ByteBits \in Nat /\ ByteBits > 0 /\ file.payload \in Nat
  BY FileFact DEF LoopInv
(* Every block lies in the payload; of two blocks one ends first.          *)
<1>2. ASSUME NEW i \in Blocks
      PROVE  /\ file.offset[i] \in Nat /\ Size(i) \in Nat
             /\ file.offset[i] + Size(i) <= file.payload
  <2>1. i \in 1 .. checked /\ file.offset[i] \in Int /\ Size(i) \in Nat
    BY <1>1, FileFact, SizeFact DEF Blocks
  <2> QED BY <1>1, <2>1 DEF LoopInv, SeenInv, End
<1>3. ASSUME NEW i \in Blocks, NEW j \in Blocks, i # j
      PROVE  \/ file.offset[i] + Size(i) <= file.offset[j]
             \/ file.offset[j] + Size(j) <= file.offset[i]
  <2>1. i \in 1 .. checked /\ j \in 1 .. checked /\ (i < j \/ j < i)
    BY <1>1, <1>3, FileFact DEF Blocks
  <2> QED BY <2>1 DEF LoopInv, InTurnInv, End
(* So do the bits: bytes in a row are bits in a row.                       *)
<1>4. ASSUME NEW a \in Nat, NEW n \in Nat, NEW c \in Nat, a + n <= c
      PROVE  a * ByteBits \in Nat /\ c * ByteBits \in Nat /\ a * ByteBits + n * ByteBits <= c * ByteBits
  <2>1. PICK d \in Nat : c = a + n + d
    <3>1. c - a - n \in Nat /\ c = a + n + (c - a - n)
      BY <1>4
    <3> QED BY <3>1
  <2>2. c * ByteBits = a * ByteBits + n * ByteBits + d * ByteBits
    BY <2>1, <1>1
  <2>3. a * ByteBits \in Nat /\ n * ByteBits \in Nat /\ d * ByteBits \in Nat /\ c * ByteBits \in Nat
    BY <1>1, <1>4
  <2> QED BY <2>2, <2>3
<1>5. ASSUME NEW m \in 1 .. file.count, NEW p \in Places(m)
      PROVE  LET i == BlockOf(m)
             IN  /\ i \in Blocks /\ p \in Nat
                 /\ file.offset[i] * ByteBits <= p
                 /\ p < file.offset[i] * ByteBits + Size(i) * ByteBits
  <2> DEFINE i == BlockOf(m)
  <2>1. PICK j \in 0 .. file.width[i] - 1 : p = Place(m, j)
    BY DEF Places
  <2>2. PICK r \in Nat : p = file.offset[i] * ByteBits + r /\ r < Size(i) * ByteBits
    BY <1>1, <2>1, PlaceFact
  <2>3. i \in Blocks
    BY <1>1, EntryFact
  <2>4. file.offset[i] \in Nat /\ Size(i) \in Nat
    BY <1>2, <2>3
  <2>5. file.offset[i] * ByteBits \in Nat /\ Size(i) * ByteBits \in Nat
    BY <1>1, <2>4
  <2> QED BY <2>2, <2>3, <2>5
<1>6. Places(k) \subseteq 0 .. file.payload * ByteBits - 1
  <2>1. SUFFICES ASSUME NEW p \in Places(k) PROVE p \in 0 .. file.payload * ByteBits - 1
    OBVIOUS
  <2> DEFINE i == BlockOf(k)
  <2>2. /\ i \in Blocks /\ p \in Nat /\ p < file.offset[i] * ByteBits + Size(i) * ByteBits
    BY <1>5
  <2>3. file.payload * ByteBits \in Nat
        /\ file.offset[i] * ByteBits + Size(i) * ByteBits <= file.payload * ByteBits
    BY <1>1, <1>2, <1>4, <2>2
  <2>4. file.offset[i] * ByteBits \in Nat /\ Size(i) * ByteBits \in Nat
    BY <1>1, <1>2, <2>2
  <2> QED BY <2>2, <2>3, <2>4
<1>7. ASSUME NEW m \in 1 .. file.count, m # k PROVE Places(m) \cap Places(k) = {}
  <2> SUFFICES ASSUME NEW p \in Places(m), p \in Places(k) PROVE FALSE
    OBVIOUS
  <2> DEFINE i == BlockOf(m)   j == BlockOf(k)
  <2>1. /\ i \in Blocks /\ p \in Nat
        /\ file.offset[i] * ByteBits <= p /\ p < file.offset[i] * ByteBits + Size(i) * ByteBits
    BY <1>5
  <2>2. /\ j \in Blocks
        /\ file.offset[j] * ByteBits <= p /\ p < file.offset[j] * ByteBits + Size(j) * ByteBits
    BY <1>5
  <2>3. CASE i = j
    <3>1. PICK a \in 0 .. file.width[i] - 1 : p = Place(m, a)
      BY DEF Places
    <3>2. PICK c \in 0 .. file.width[i] - 1 : p = Place(k, c)
      BY <2>3 DEF Places
    <3> QED BY <1>1, <1>7, <2>3, <3>1, <3>2, SameBlock
  <2>4. CASE i # j
    <3>1. /\ file.offset[i] \in Nat /\ Size(i) \in Nat /\ file.offset[j] \in Nat /\ Size(j) \in Nat
      BY <1>2, <2>1, <2>2
    <3>2. /\ file.offset[i] * ByteBits \in Nat /\ Size(i) * ByteBits \in Nat
          /\ file.offset[j] * ByteBits \in Nat /\ Size(j) * ByteBits \in Nat
      BY <1>1, <3>1
    <3>3. \/ file.offset[i] * ByteBits + Size(i) * ByteBits <= file.offset[j] * ByteBits
          \/ file.offset[j] * ByteBits + Size(j) * ByteBits <= file.offset[i] * ByteBits
      BY <1>3, <1>4, <2>1, <2>2, <2>4, <3>1
    <3> QED BY <2>1, <2>2, <3>2, <3>3
  <2> QED BY <2>3, <2>4
<1> QED BY <1>6, <1>7

(* validate lets no entry of a noise table share a bit with another one or *)
(* lie beyond the payload (compact_noise_optd.hpp:60-68), for every file   *)
(* and every size of the format.                                           *)
THEOREM Separate == NSpec => []EntriesApart
<1>1. NSpec => []LoopInv
  BY LoopStarts, LoopHolds, PTL DEF NSpec
<1> QED BY <1>1, Accepted, PTL

-----------------------------------------------------------------------------
(* Windows. *)

(* Where place t of a task's window lies in a grid of gx windows a row.    *)
Stands(gx, task, t, x, y) == /\ (task % gx) * 8 + (t % 8) = x
                             /\ (task \div gx) * 8 + t \div 8 = y
Grid(gx, gy) == 0 .. gx * gy - 1

(* In a grid of gx by gy windows a token inside is one task's, and one     *)
(* place of its window. *)
LEMMA Found ==
  ASSUME NEW gx \in Nat, NEW gy \in Nat, NEW x \in Nat, NEW y \in Nat, x < gx * 8, y < gy * 8
  PROVE  \E task \in Grid(gx, gy), t \in 0 .. 63 : Stands(gx, task, t, x, y)
<1>1. PICK a \in Nat, c \in Nat, i \in 0 .. 7, j \in 0 .. 7 : x = a * 8 + i /\ y = c * 8 + j
  <2>1. x = (x \div 8) * 8 + (x % 8) /\ y = (y \div 8) * 8 + (y % 8)
    OBVIOUS
  <2>2. x \div 8 \in Nat /\ y \div 8 \in Nat /\ x % 8 \in 0 .. 7 /\ y % 8 \in 0 .. 7
    OBVIOUS
  <2> QED BY <2>1, <2>2
<1>2. a < gx /\ c < gy
  BY <1>1
<1>3. PICK task \in Nat : task = c * gx + a
  BY <1>1
<1>4. task % gx = a /\ task \div gx = c
  BY <1>2, <1>3, Remade
<1>5. task \in 0 .. gx * gy - 1
  <2>1. c * gx + gx <= gy * gx /\ gy * gx = gx * gy /\ gx * gy \in Nat /\ c * gx \in Nat
    BY <1>2, Rises
  <2> QED BY <1>2, <1>3, <2>1
<1>6. PICK t \in 0 .. 63 : t = j * 8 + i
  BY <1>1
<1>7. t % 8 = i /\ t \div 8 = j
  BY <1>1, <1>6
<1>8. Stands(gx, task, t, x, y) /\ task \in Grid(gx, gy)
  BY <1>1, <1>4, <1>5, <1>7 DEF Stands, Grid
<1> QED BY <1>8

(* And it is nobody else's. *)
LEMMA Alone ==
  ASSUME NEW gx \in Nat, gx > 0, NEW a \in Nat, NEW b \in Nat, NEW t \in 0 .. 63, NEW u \in 0 .. 63,
         NEW x, NEW y, Stands(gx, a, t, x, y), Stands(gx, b, u, x, y)
  PROVE  a = b /\ t = u
<1>1. PICK q \in Nat, r \in Nat : q = a \div gx /\ r = a % gx
  BY Divided
<1>2. PICK p \in Nat, s \in Nat : p = b \div gx /\ s = b % gx
  BY Divided
<1>3. a = q * gx + r /\ b = p * gx + s
  BY <1>1, <1>2, Divided
<1>4. r * 8 + (t % 8) = s * 8 + (u % 8) /\ q * 8 + t \div 8 = p * 8 + u \div 8
  BY <1>1, <1>2 DEF Stands
<1>5. r = s /\ t % 8 = u % 8
  BY <1>4
<1>6. q = p /\ t \div 8 = u \div 8
  BY <1>4
<1> QED BY <1>3, <1>5, <1>6

(* A task of the grid has no place beyond it. *)
LEMMA Within ==
  ASSUME NEW gx \in Nat, NEW gy \in Nat, gx > 0, NEW a \in Nat, a < gx * gy, NEW t \in 0 .. 63,
         NEW x, NEW y, Stands(gx, a, t, x, y)
  PROVE  x < gx * 8 /\ y < gy * 8
<1>1. PICK q \in Nat, r \in Nat : q = a \div gx /\ r = a % gx /\ r < gx /\ a = q * gx + r
  BY Divided
<1>2. r * 8 + (t % 8) = x /\ q * 8 + t \div 8 = y
  BY <1>1 DEF Stands
<1>3. q < gy
  <2> SUFFICES ASSUME q >= gy PROVE FALSE
    BY <1>1
  <2>1. gy * gx <= q * gx
    <3>1. CASE q = gy
      BY <3>1
    <3>2. CASE gy < q
      <4>1. gy * gx + gx <= q * gx
        BY <3>2, Rises
      <4>2. gy * gx \in Nat /\ q * gx \in Nat
        OBVIOUS
      <4> QED BY <4>1, <4>2
    <3> QED BY <3>1, <3>2
  <2>2. gy * gx = gx * gy /\ gy * gx \in Nat /\ q * gx \in Nat
    OBVIOUS
  <2> QED BY <1>1, <2>1, <2>2
<1>4. t % 8 \in 0 .. 7 /\ t \div 8 \in 0 .. 7
  OBVIOUS
<1> QED BY <1>1, <1>2, <1>3, <1>4

(* The grids of tin and b00 reach past the last token of the extent. *)
LEMMA Reaches ==
  ASSUME image.by \in {"tin", "b00"}, image.C \in Nat,
         NEW n \in Nat, NEW o \in Int, NEW g, NEW x \in 0 .. n - 1,
         IF image.by = "tin" THEN o \in {0, -4} /\ Canvas(n, o) % 8 = 0 ELSE n % 32 = 0
  PROVE  /\ Across(n, o, g) \in Nat /\ Begins(o) \in Int
         /\ x - Begins(o) \in Nat /\ x - Begins(o) < Across(n, o, g) * 8
<1>1. CASE image.by = "tin" /\ image.C = 32
  <2>1. PICK c \in Nat : c = n - 2 * o
    BY <1>1
  <2>2. Across(n, o, g) = c \div 8 /\ c % 8 = 0 /\ Begins(o) = o
    BY <1>1, <2>1 DEF Across, Canvas, Begins
  <2> QED BY <1>1, <2>1, <2>2
<1>2. CASE image.by = "tin" /\ image.C # 32
  <2>1. PICK c \in Nat : c = n - o + 7
    BY <1>2
  <2>2. Across(n, o, g) = ((c \div 8) * 8) \div 8 /\ Begins(o) = o
    BY <1>2, <2>1 DEF Across, Canvas, Begins
  <2>3. Across(n, o, g) = c \div 8
    BY <2>1, <2>2
  <2> QED BY <1>2, <2>1, <2>2, <2>3
<1>3. CASE image.by = "b00"
  BY <1>3 DEF Across, Begins
<1> QED BY <1>1, <1>2, <1>3

(* What is known of the grid in one direction, whoever laid it. *)
Lies(by, n, g, b, x) == /\ g \in Nat /\ b \in Int /\ x - b \in Nat /\ g > 0
                        /\ x - b < g * 8 <=> (by = "b70" => x < g * 8 - 4)

LEMMA Laid ==
  ASSUME image.by \in {"tin", "b00", "b70"}, image.C \in Nat,
         NEW n \in Nat, NEW o \in Int, NEW g, NEW x \in 0 .. n - 1,
         image.by = "b70" => g \in Nat /\ g > 0,
         IF image.by = "tin" THEN o \in {0, -4} /\ Canvas(n, o) % 8 = 0 ELSE n % 32 = 0
  PROVE  Lies(image.by, n, Across(n, o, g), Begins(o), x)
<1>1. CASE image.by = "b70"
  <2>1. Across(n, o, g) = g /\ Begins(o) = -4
    BY <1>1 DEF Across, Begins
  <2> QED BY <1>1, <2>1 DEF Lies
<1>2. CASE image.by \in {"tin", "b00"}
  <2>1. PICK a, b : a = Across(n, o, g) /\ b = Begins(o)
    OBVIOUS
  <2>2. a \in Nat /\ b \in Int /\ x - b \in Nat /\ x - b < a * 8
    BY <1>2, <2>1, Reaches
  <2>3. image.by # "b70"
    BY <1>2
  <2>4. Lies(image.by, n, a, b, x)
    BY <2>2, <2>3 DEF Lies
  <2> QED BY <2>1, <2>4
<1> QED BY <1>1, <1>2

(* Pixels in rows at least as long as the network is wide do not overlap. *)
LEMMA Texels ==
  ASSUME NEW P \in Nat, NEW w \in Nat, w * 8 <= P,
         NEW x \in 0 .. w - 1, NEW u \in 0 .. w - 1, NEW y \in Nat, NEW z \in Nat,
         (z * P + u * 8) - (y * P + x * 8) \in -7 .. 7
  PROVE  z = y /\ u = x
<1>1. PICK a \in Nat, b \in Nat : a = z * P /\ b = y * P
  OBVIOUS
<1>2. (a + u * 8) - (b + x * 8) \in -7 .. 7
  BY <1>1
<1>3. ~(z < y)
  <2> SUFFICES ASSUME z < y PROVE FALSE
    OBVIOUS
  <2>1. a + P <= b
    BY <1>1, Rises
  <2> QED BY <1>1, <1>2, <2>1
<1>4. ~(y < z)
  <2> SUFFICES ASSUME y < z PROVE FALSE
    OBVIOUS
  <2>1. b + P <= a
    BY <1>1, Rises
  <2> QED BY <1>1, <1>2, <2>1
<1>5. z = y
  BY <1>3, <1>4
<1>6. a = b
  BY <1>1, <1>5
<1> QED BY <1>1, <1>2, <1>5, <1>6

(* Of an image that is accepted. *)
LEMMA Accepts ==
  ASSUME WInit, Fits
  PROVE  /\ image.by \in {"tin", "b00", "b70"} /\ image.C \in Nat
         /\ W \in Nat /\ H \in Nat /\ image.ox \in Int /\ image.oy \in Int
         /\ IF image.by = "tin" THEN image.ox \in {0, -4} /\ Canvas(W, image.ox) % 8 = 0 ELSE W % 32 = 0
         /\ IF image.by = "tin" THEN image.oy \in {0, -4} /\ Canvas(H, image.oy) % 8 = 0 ELSE H % 32 = 0
         /\ image.by = "b70" => /\ image.gx \in Nat /\ image.gy \in Nat /\ image.gx > 0 /\ image.gy > 0
                                /\ image.cw \in 1 .. W /\ image.ch \in 1 .. H /\ image.pitch \in Nat
<1>1. /\ image.by \in {"tin", "b00", "b70"} /\ image.C \in Nat
      /\ W \in Nat /\ H \in Nat /\ image.ox \in Int /\ image.oy \in Int
  BY ImagesAssumption DEF WInit, W, H
<1>2. image.by = "b70" => image.gx \in Nat /\ image.gy \in Nat /\ image.pitch \in Nat
  BY ImagesAssumption DEF WInit
<1> QED BY <1>1, <1>2 DEF Fits, TinFits, Geometric, Described

(* Where a place of a task lies is what Stands says, seen from the corner  *)
(* of the grid. *)
Seen(i, j, gx, bx, by, a, u) ==
  \A k, l \in Int : i = k /\ j = l <=> Stands(gx, a, u, k - bx, l - by)

LEMMA PixelAt ==
  ASSUME NEW gx \in Nat, NEW bx \in Int, NEW by \in Int, gx > 0,
         gx = GridX, bx = Begins(image.ox), by = Begins(image.oy), NEW a \in Nat, NEW u \in 0 .. 63
  PROVE  \E i \in Int, j \in Int : Pixel(a, u) = <<i, j>> /\ Seen(i, j, gx, bx, by, a, u)
<1>1. PICK q \in Nat, r \in Nat : q = a \div gx /\ r = a % gx
  BY Divided
<1>2. PICK m \in Nat, n \in Nat : m = r * 8 + (u % 8) /\ n = q * 8 + u \div 8
  OBVIOUS
<1>3. Pixel(a, u) = <<m + bx, n + by>>
  BY <1>1, <1>2 DEF Pixel
<1>4. ASSUME NEW x \in Int, NEW y \in Int
      PROVE  m + bx = x /\ n + by = y <=> Stands(gx, a, u, x - bx, y - by)
  <2>1. Stands(gx, a, u, x - bx, y - by) <=> m = x - bx /\ n = y - by
    BY <1>1, <1>2 DEF Stands
  <2> QED BY <2>1
<1>5. PICK i \in Int, j \in Int : i = m + bx /\ j = n + by
  OBVIOUS
<1>6. Pixel(a, u) = <<i, j>>
  BY <1>3, <1>5
<1>7. Seen(i, j, gx, bx, by, a, u)
  BY <1>4, <1>5 DEF Seen
<1> QED BY <1>6, <1>7

(* The store of a token meets the pixel that is the token, and no other. *)
LEMMA Meets ==
  ASSUME WInit, Fits, RowsApart,
         NEW x \in 0 .. Wide - 1, NEW y \in 0 .. High - 1, NEW i \in Int, NEW j \in Int
  PROVE  Stored(<<i, j>>) /\ Meet(<<i, j>>, <<x, y>>) <=> i = x /\ j = y
<1>1. /\ W \in Nat /\ H \in Nat
      /\ image.by = "b70" => image.cw \in 1 .. W /\ image.ch \in 1 .. H /\ image.pitch \in Nat
  BY Accepts
<1>2. CASE image.by # "b70"
  <2>1. Wide = W /\ High = H
    BY <1>2 DEF Wide, High
  <2>2. Stored(<<i, j>>) <=> i \in 0 .. W - 1 /\ j \in 0 .. H - 1
    BY <1>2 DEF Stored, Inside
  <2>3. Meet(<<i, j>>, <<x, y>>) <=> i = x /\ j = y
    BY <1>2 DEF Meet
  <2> QED BY <2>1, <2>2, <2>3
<1>3. CASE image.by = "b70"
  <2>1. Wide = image.cw /\ High = image.ch /\ W * 8 <= image.pitch
    BY <1>3 DEF Wide, High, RowsApart
  <2>2. x \in 0 .. W - 1 /\ y \in Nat /\ y < image.ch /\ y \in 0 .. H - 1
    BY <1>1, <1>3, <2>1
  <2>3. Stored(<<i, j>>) <=> i \in 0 .. W - 1 /\ j \in 0 .. H - 1 /\ j < image.ch
    BY <1>3 DEF Stored, Inside
  <2>4. Meet(<<i, j>>, <<x, y>>) <=> (j * image.pitch + i * 8) - (y * image.pitch + x * 8) \in -7 .. 7
    BY <1>3 DEF Meet, TexelAt
  <2>5. ASSUME i = x, j = y PROVE Stored(<<i, j>>) /\ Meet(<<i, j>>, <<x, y>>)
    <3>1. Stored(<<i, j>>)
      BY <2>2, <2>3, <2>5
    <3>2. PICK d \in Nat : d = y * image.pitch
      BY <1>1, <1>3, <2>2
    <3>3. (d + x * 8) - (d + x * 8) \in -7 .. 7
      BY <2>2
    <3>4. Meet(<<i, j>>, <<x, y>>)
      BY <2>4, <2>5, <3>2, <3>3
    <3> QED BY <3>1, <3>4
  <2>6. ASSUME Stored(<<i, j>>), Meet(<<i, j>>, <<x, y>>) PROVE i = x /\ j = y
    <3>1. i \in 0 .. W - 1 /\ j \in Nat
      BY <1>1, <2>3, <2>6
    <3>2. (j * image.pitch + i * 8) - (y * image.pitch + x * 8) \in -7 .. 7
      BY <2>4, <2>6
    <3> QED BY <1>1, <1>3, <2>1, <2>2, <3>1, <3>2, Texels
  <2> QED BY <2>5, <2>6
<1> QED BY <1>2, <1>3

(* So every token that the grid reaches is stored once. *)
LEMMA Once == ASSUME WInit, Fits, RowsApart PROVE EveryTokenOnce
<1> SUFFICES ASSUME NEW x \in 0 .. Wide - 1, NEW y \in 0 .. High - 1
             PROVE  Stores(<<x, y>>) = IF Reached(x, y) THEN 1 ELSE 0
  BY DEF EveryTokenOnce
<1>1. W \in Nat /\ H \in Nat /\ x \in 0 .. W - 1 /\ y \in 0 .. H - 1
  BY Accepts DEF Wide, High
<1>2. PICK gx, bx : gx = GridX /\ bx = Begins(image.ox) /\ Lies(image.by, W, gx, bx, x)
  BY <1>1, Accepts, Laid DEF GridX
<1>3. PICK gy, by : gy = GridY /\ by = Begins(image.oy) /\ Lies(image.by, H, gy, by, y)
  BY <1>1, Accepts, Laid DEF GridY
<1>4. /\ gx \in Nat /\ gy \in Nat /\ bx \in Int /\ by \in Int /\ gx > 0 /\ gy > 0
      /\ x \in Nat /\ y \in Nat
  BY <1>1, <1>2, <1>3 DEF Lies
<1>5. PICK X \in Nat, Y \in Nat : X = x - bx /\ Y = y - by
  BY <1>2, <1>3 DEF Lies
<1>6. Reached(x, y) <=> X < gx * 8 /\ Y < gy * 8
  <2>1. /\ X < gx * 8 <=> (image.by = "b70" => x < gx * 8 - 4)
        /\ Y < gy * 8 <=> (image.by = "b70" => y < gy * 8 - 4)
    BY <1>2, <1>3, <1>5 DEF Lies
  <2>2. image.by = "b70" => gx = image.gx /\ gy = image.gy
    BY <1>2, <1>3 DEF GridX, GridY, Across
  <2> QED BY <2>1, <2>2 DEF Reached
<1>7. Tasks = Grid(gx, gy) /\ Grid(gx, gy) \subseteq Nat /\ \A a \in Grid(gx, gy) : a < gx * gy
  <2>1. gx * gy \in Nat
    BY <1>4
  <2> QED BY <1>2, <1>3, <2>1 DEF Tasks, Grid
<1> DEFINE Here(v) == LET q == Pixel(v[1], v[2]) IN Stored(q) /\ Meet(q, <<x, y>>)
           S == {v \in Tasks \X (0 .. 63) : Here(v)}
<1>8. ASSUME NEW a \in Tasks, NEW u \in 0 .. 63
      PROVE  Here(<<a, u>>) <=> Stands(gx, a, u, X, Y)
  <2>1. a \in Nat /\ gx = GridX /\ bx = Begins(image.ox) /\ by = Begins(image.oy)
    BY <1>2, <1>3, <1>7
  <2>2. PICK i \in Int, j \in Int : Pixel(a, u) = <<i, j>> /\ Seen(i, j, gx, bx, by, a, u)
    BY <1>4, <2>1, PixelAt
  <2>3. Stored(<<i, j>>) /\ Meet(<<i, j>>, <<x, y>>) <=> i = x /\ j = y
    BY Meets
  <2>4. i = x /\ j = y <=> Stands(gx, a, u, X, Y)
    BY <1>4, <1>5, <2>2 DEF Seen
  <2> QED BY <2>2, <2>3, <2>4
<1>9. Stores(<<x, y>>) = Cardinality(S)
  BY DEF Stores
<1> HIDE DEF Here
<1>10. CASE Reached(x, y)
  <2>1. PICK task \in Grid(gx, gy), t \in 0 .. 63 : Stands(gx, task, t, X, Y)
    BY <1>4, <1>6, <1>10, Found
  <2>2. task \in Tasks /\ task \in Nat
    BY <1>7
  <2>3. ASSUME NEW a \in Tasks, NEW u \in 0 .. 63, Here(<<a, u>>) PROVE a = task /\ u = t
    <3>1. a \in Nat
      BY <1>7
    <3>2. Stands(gx, a, u, X, Y)
      BY <1>8, <2>3
    <3> QED BY <1>4, <2>1, <2>2, <3>1, <3>2, Alone
  <2>4. Here(<<task, t>>)
    BY <1>8, <2>1, <2>2
  <2>5. \A v \in Tasks \X (0 .. 63) : Here(v) <=> v = <<task, t>>
    <3>1. ASSUME NEW v \in Tasks \X (0 .. 63) PROVE Here(v) <=> v = <<task, t>>
      <4>1. PICK a \in Tasks, u \in 0 .. 63 : v = <<a, u>>
        OBVIOUS
      <4> QED BY <2>3, <2>4, <4>1
    <3> QED BY <3>1
  <2>6. <<task, t>> \in Tasks \X (0 .. 63)
    BY <2>2
  <2>7. S = {<<task, t>>}
    BY <2>5, <2>6
  <2> QED BY <1>9, <1>10, <2>7, FS_Singleton
<1>11. CASE ~Reached(x, y)
  <2>1. ASSUME NEW a \in Tasks, NEW u \in 0 .. 63, Here(<<a, u>>) PROVE FALSE
    <3>1. a \in Nat /\ a < gx * gy
      BY <1>7
    <3>2. Stands(gx, a, u, X, Y)
      BY <1>8, <2>1
    <3>3. X < gx * 8 /\ Y < gy * 8
      BY <1>4, <3>1, <3>2, Within
    <3> QED BY <1>6, <1>11, <3>3
  <2>2. ASSUME NEW v \in Tasks \X (0 .. 63), Here(v) PROVE FALSE
    <3>1. PICK a \in Tasks, u \in 0 .. 63 : v = <<a, u>>
      OBVIOUS
    <3> QED BY <2>1, <2>2, <3>1
  <2>3. S = {}
    BY <2>2
  <2> QED BY <1>9, <1>11, <2>3, FS_EmptySet
<1> QED BY <1>10, <1>11

(* A row of the texture begins where its number says, and a token of the   *)
(* network ends within it. *)
LEMMA Inner == ASSUME WInit, Fits, RowsApart PROVE InTexture
<1> SUFFICES ASSUME image.by = "b70", NEW task \in Tasks, NEW t \in 0 .. 63, Stored(Pixel(task, t))
             PROVE  TexelAt(Pixel(task, t)) \in 0 .. image.ch * image.pitch - 8
  BY DEF InTexture
<1>1. PICK x, y : /\ x = Pixel(task, t)[1] /\ y = Pixel(task, t)[2]
  OBVIOUS
<1>2. /\ W \in Nat /\ H \in Nat /\ image.ch \in Nat /\ image.pitch \in Nat /\ W * 8 <= image.pitch
  BY Accepts DEF RowsApart
<1>3. x \in Nat /\ x + 1 <= W /\ y \in Nat /\ y < image.ch
  BY <1>1, <1>2 DEF Stored, Inside
<1>4. PICK a \in Nat, b \in Nat : a = y * image.pitch /\ b = image.ch * image.pitch
  BY <1>2, <1>3
<1>5. a + image.pitch <= b
  BY <1>2, <1>3, <1>4, Rises
<1>6. TexelAt(Pixel(task, t)) = a + x * 8
  BY <1>1, <1>4 DEF TexelAt
<1> QED BY <1>2, <1>3, <1>4, <1>5, <1>6

(* And the padding behind a pooled image is what nothing pools into. *)
LEMMA Padding == ASSUME WInit PROVE PaddingIsPadding
<1> SUFFICES ASSUME Pools, PoolFits PROVE PaddingIsPadding
  BY DEF PaddingIsPadding
<1>1. W \in Nat /\ H \in Nat /\ PW \in Nat /\ PH \in Nat
  BY ImagesAssumption DEF WInit, W, H, PW, PH
<1>2. PW * 2 >= W /\ PH * 2 >= H
  BY DEF PoolFits
<1>3. ASSUME NEW x \in 0 .. PW - 1, NEW y \in 0 .. PH - 1, image.C = 256
      PROVE  Cleared(x, y) <=> \A p \in PoolsOf(x, y) : ~Inside(p)
  <2>1. x \in Nat /\ y \in Nat
    BY <1>1
  <2>2. Cleared(x, y) <=> ~(2 * x < W /\ 2 * y < H)
    BY <1>1, <1>3, <2>1 DEF Cleared, PadFrom
  <2>3. (2 * x < W /\ 2 * y < H) <=> \E p \in PoolsOf(x, y) : Inside(p)
    <3>1. <<2 * x + 0, 2 * y + 0>> \in PoolsOf(x, y)
      BY DEF PoolsOf
    <3>2. 2 * x < W /\ 2 * y < H => Inside(<<2 * x + 0, 2 * y + 0>>)
      BY <1>1, <2>1 DEF Inside
    <3>3. ASSUME NEW p \in PoolsOf(x, y), Inside(p)
          PROVE  2 * x < W /\ 2 * y < H
      BY <1>1, <2>1, <3>3 DEF PoolsOf, Inside
    <3> QED BY <3>1, <3>2, <3>3
  <2> QED BY <2>2, <2>3
<1>4. ASSUME NEW x \in 0 .. W - 1, NEW y \in 0 .. H - 1
      PROVE  x \div 2 \in 0 .. PW - 1 /\ y \div 2 \in 0 .. PH - 1
  BY <1>1, <1>2
<1> QED BY <1>3, <1>4 DEF PaddingIsPadding

(* A launch that accepts its extent and whose rows fit the texture stores  *)
(* every token that its grid reaches once, nothing outside the texture,    *)
(* and clears no cell it pooled into (tin.cpp:154-168, b00.hpp:64-66,      *)
(* outtail.cpp:86-97), for every extent, origin, number of channels, and   *)
(* whatever grid the descriptor gives b70. *)
THEOREM Covered == WInit => WindowsCover
  BY ImagesAssumption, Once, Inner, Padding DEF WindowsCover

-----------------------------------------------------------------------------
(* The allocation counters. *)

(* Only the threads that are between the first and the last operation of a *)
(* request or release make the counters differ from the blocks: live has   *)
(* not got a block yet whose thread is at "live", and no longer one whose  *)
(* thread is at "untotal"; total gets it later.  And a peak that is not    *)
(* the largest value yet is about to be raised to it by some thread.       *)
PeakSteps == {"load peak", "swap peak"}
HighSteps == {"load high", "swap high"}
Steps     == {"rest", "live", "total", "unlive", "untotal"} \cup PeakSteps \cup HighSteps

AtTypes  == at \in [Thread -> [step : Steps, slot : Slot \cup {0}, sum : Nat, old : Nat]]
NumTypes == /\ total \in Nat /\ high \in Nat /\ topTotal \in Nat
            /\ live \in [Category -> Nat] /\ peak \in [Category -> Nat] /\ topLive \in [Category -> Nat]
BlockTypes == /\ DOMAIN block = Slot
              /\ \A s \in Slot : block[s].counted => block[s].bytes \in Nat /\ block[s].group \in Category
AttachInv == \A t \in Thread : at[t].step # "rest" =>
               /\ at[t].slot \in Slot /\ block[at[t].slot].counted
               /\ \A u \in Thread : at[u].step # "rest" /\ at[u].slot = at[t].slot => t = u
OutOf(S, steps) == {s \in S : block[s].counted /\ \A t \in Thread : at[t].step \in steps => at[t].slot # s}
InLive  == OutOf(Slot, {"live", "untotal"})
InTotal == OutOf(Slot, {"live", "total"} \cup PeakSteps)
Of(S, g) == {s \in S : block[s].group = g}
LiveInv  == \A g \in Category : live[g] = Cardinality(BytesOf(Of(InLive, g)))
TotalInv == total = Cardinality(BytesOf(InTotal))
RiseInv  == \A t \in Thread :
              /\ at[t].step \in PeakSteps => at[t].sum <= topLive[Mine(t).group]
              /\ at[t].step \in HighSteps => at[t].sum <= topTotal
              /\ at[t].step \in {"swap peak", "swap high"} => at[t].sum > at[t].old
PeakInv  == \A g \in Category :
              \/ peak[g] = topLive[g]
              \/ /\ peak[g] < topLive[g]
                 /\ \E t \in Thread : /\ at[t].step \in PeakSteps /\ Mine(t).group = g
                                      /\ at[t].sum = topLive[g]
HighInv  == \/ high = topTotal
            \/ high < topTotal /\ \E t \in Thread : at[t].step \in HighSteps /\ at[t].sum = topTotal
ATypes   == AtTypes /\ NumTypes /\ BlockTypes /\ AttachInv
SumInv   == LiveInv /\ TotalInv
TopInv   == RiseInv /\ PeakInv /\ HighInv
ACInv    == ATypes /\ SumInv /\ TopInv

(* One more block is as many more bytes. *)
LEMMA OneMore ==
  ASSUME NEW S, IsFiniteSet(S), NEW s, s \notin S, \A x \in S \cup {s} : block[x].bytes \in Nat
  PROVE  /\ Cardinality(BytesOf(S)) \in Nat
         /\ Cardinality(BytesOf(S \cup {s})) = Cardinality(BytesOf(S)) + block[s].bytes
<1> DEFINE F(x) == {x} \X (1 .. block[x].bytes)
           f == [x \in S |-> F(x)]
           T == {F(x) : x \in S}
<1>1. \A x \in S \cup {s} : IsFiniteSet(F(x)) /\ Cardinality(F(x)) = block[x].bytes
  <2> TAKE x \in S \cup {s}
  <2>1. PICK n \in Nat : n = block[x].bytes
    OBVIOUS
  <2>2. IsFiniteSet({x}) /\ Cardinality({x}) = 1
    BY FS_Singleton
  <2>3. IsFiniteSet(1 .. n) /\ Cardinality(1 .. n) = n
    BY FS_Interval
  <2>4. IsFiniteSet({x} \X (1 .. n)) /\ Cardinality({x} \X (1 .. n)) = 1 * n
    BY <2>2, <2>3, FS_Product
  <2> QED BY <2>1, <2>4
<1>2. IsFiniteSet(T)
  <2>1. f \in Surjection(S, T)
    BY DEF Surjection
  <2> HIDE DEF f, T
  <2> QED BY <2>1, FS_Surjection
<1>3. IsFiniteSet(BytesOf(S))
  <2>1. \A X \in T : IsFiniteSet(X)
    BY <1>1
  <2>2. BytesOf(S) = UNION T
    BY DEF BytesOf
  <2> HIDE DEF T
  <2> QED BY <1>2, <2>1, <2>2, FS_UNION
<1>4. Cardinality(BytesOf(S \cup {s})) = Cardinality(BytesOf(S) \cup F(s))
  <2>1. BytesOf(S \cup {s}) = BytesOf(S) \cup F(s)
    BY DEF BytesOf
  <2> QED BY <2>1, Zenon
<1>5. BytesOf(S) \cap F(s) = {}
  BY DEF BytesOf
<1> HIDE DEF F
<1>6. Cardinality(BytesOf(S)) \in Nat /\ Cardinality({}) = 0
  BY <1>3, FS_CardinalityType, FS_EmptySet
<1>7. Cardinality(BytesOf(S) \cup F(s)) = Cardinality(BytesOf(S)) + Cardinality(F(s))
                                          - Cardinality(BytesOf(S) \cap F(s))
  BY <1>1, <1>3, FS_Union
<1>8. Cardinality(BytesOf(S) \cap F(s)) = 0
  BY <1>5, <1>6
<1>9. Cardinality(F(s)) = block[s].bytes /\ block[s].bytes \in Nat
  BY <1>1
<1> QED BY <1>4, <1>6, <1>7, <1>8, <1>9

Weight(S, g) == Cardinality(BytesOf(Of(S, g)))

(* The bytes of a group grow by a block that joins its set. *)
LEMMA Gains ==
  ASSUME BlockTypes, NEW S \in SUBSET Slot, NEW s \in Slot \ S, \A r \in S \cup {s} : block[r].counted,
         NEW g
  PROVE  /\ Weight(S, g) \in Nat
         /\ Weight(S \cup {s}, g) = Weight(S, g) + IF block[s].group = g THEN block[s].bytes ELSE 0
<1> USE DEF Weight
<1>1. IsFiniteSet(Of(S, g)) /\ s \notin Of(S, g)
  BY AllocAssumption, FS_Subset DEF Of
<1>2. \A r \in Of(S, g) \cup {s} : block[r].bytes \in Nat
  BY DEF BlockTypes, Of
<1>3. /\ Cardinality(BytesOf(Of(S, g))) \in Nat
      /\ Cardinality(BytesOf(Of(S, g) \cup {s})) = Cardinality(BytesOf(Of(S, g))) + block[s].bytes
  BY <1>1, <1>2, OneMore
<1>4. CASE block[s].group = g
  <2>1. Of(S \cup {s}, g) = Of(S, g) \cup {s}
    BY <1>4 DEF Of
  <2>2. Cardinality(BytesOf(Of(S \cup {s}, g))) = Cardinality(BytesOf(Of(S, g) \cup {s}))
    BY <2>1, Zenon
  <2> QED BY <1>3, <1>4, <2>2
<1>5. CASE block[s].group # g
  <2>1. Of(S \cup {s}, g) = Of(S, g)
    BY <1>5 DEF Of
  <2>2. Cardinality(BytesOf(Of(S \cup {s}, g))) = Cardinality(BytesOf(Of(S, g)))
    BY <2>1, Zenon
  <2> QED BY <1>3, <1>5, <2>2
<1> QED BY <1>4, <1>5

(* Blocks that did not change weigh what they weighed. *)
LEMMA SameBytes ==
  ASSUME NEW S, \A s \in S : block'[s] = block[s], NEW g
  PROVE  /\ S = InLive' => Cardinality(BytesOf(Of(InLive, g)))' = Cardinality(BytesOf(Of(S, g)))
         /\ S = InTotal' => Cardinality(BytesOf(InTotal))' = Cardinality(BytesOf(S))
<1>1. S = InLive' => BytesOf(Of(InLive, g))' = BytesOf(Of(S, g))
  BY DEF BytesOf, Of
<1>2. S = InTotal' => BytesOf(InTotal)' = BytesOf(S)
  BY DEF BytesOf
<1> QED BY <1>1, <1>2, Zenon

(* The counters follow the blocks as they join and leave the sets. *)
LEMMA LiveMoves ==
  ASSUME ATypes, LiveInv, NEW s \in Slot, block[s].counted,
         \A r \in InLive' : block'[r] = block[r],
         \/ InLive' = InLive /\ live' = live
         \/ /\ InLive' = InLive \cup {s} /\ s \notin InLive
            /\ live' = [live EXCEPT ![block[s].group] = live[block[s].group] + block[s].bytes]
         \/ /\ InLive = InLive' \cup {s} /\ s \notin InLive'
            /\ live' = [live EXCEPT ![block[s].group] = live[block[s].group] - block[s].bytes]
  PROVE  LiveInv' /\ live' \in [Category -> Nat]
<1>1. PICK X, Y : X = InLive /\ Y = InLive'
  OBVIOUS
<1>2. X \subseteq Slot /\ \A r \in X : block[r].counted
  BY <1>1 DEF InLive, OutOf
<1>3. \A g \in Category : Weight(InLive, g)' = Weight(Y, g)
  BY <1>1, SameBytes DEF Weight
<1>4. \A g \in Category : live[g] = Weight(X, g) /\ live[g] \in Nat
  BY <1>1, Zenon DEF LiveInv, Weight, ATypes, NumTypes
<1>5. BlockTypes /\ block[s].group \in Category /\ block[s].bytes \in Nat /\ live \in [Category -> Nat]
  BY DEF ATypes, NumTypes, BlockTypes
<1> DEFINE n(g) == IF block[s].group = g THEN block[s].bytes ELSE 0
<1>g. ASSUME NEW S \in SUBSET Slot, s \notin S, \A r \in S \cup {s} : block[r].counted, NEW g
      PROVE  Weight(S \cup {s}, g) = Weight(S, g) + n(g) /\ Weight(S, g) \in Nat
  <2>1. s \in Slot \ S
    BY <1>g
  <2> HIDE DEF n
  <2>2. /\ Weight(S, g) \in Nat
        /\ Weight(S \cup {s}, g) = Weight(S, g) + IF block[s].group = g THEN block[s].bytes ELSE 0
    BY <2>1, <1>g, <1>5, Gains
  <2> QED BY <2>2, Zenon DEF n
<1>6. CASE InLive' = InLive /\ live' = live
  <2>1. \A g \in Category : Weight(Y, g) = Weight(X, g)
    BY <1>1, <1>6, Zenon
  <2> QED BY <1>3, <1>4, <1>5, <1>6, <2>1 DEF LiveInv, Weight
<1>7. CASE /\ InLive' = InLive \cup {s} /\ s \notin InLive
           /\ live' = [live EXCEPT ![block[s].group] = live[block[s].group] + block[s].bytes]
  <2>1. \A g \in Category : Weight(X \cup {s}, g) = Weight(X, g) + n(g)
    BY <1>1, <1>2, <1>7, <1>g
  <2>2. \A g \in Category : Weight(Y, g) = Weight(X, g) + n(g)
    BY <1>1, <1>7, <2>1, Zenon
  <2>3. \A g \in Category : live'[g] = live[g] + n(g) /\ live'[g] \in Nat
    BY <1>4, <1>5, <1>7
  <2>4. \A g \in Category : live'[g] = Weight(Y, g)
    BY <1>4, <2>2, <2>3
  <2> QED BY <1>3, <1>5, <1>7, <2>3, <2>4 DEF LiveInv, Weight
<1>8. CASE /\ InLive = InLive' \cup {s} /\ s \notin InLive'
           /\ live' = [live EXCEPT ![block[s].group] = live[block[s].group] - block[s].bytes]
  <2>1. Y \subseteq Slot /\ s \notin Y /\ \A r \in Y \cup {s} : block[r].counted
    BY <1>1, <1>2, <1>8
  <2>2. \A g \in Category : Weight(Y \cup {s}, g) = Weight(Y, g) + n(g) /\ Weight(Y, g) \in Nat
    BY <2>1, <1>g
  <2>3. \A g \in Category : Weight(X, g) = Weight(Y, g) + n(g)
    BY <1>1, <1>8, <2>2, Zenon
  <2>4. \A g \in Category : live'[g] = live[g] - n(g)
    BY <1>4, <1>5, <1>8
  <2>5. \A g \in Category : n(g) \in Nat
    BY <1>5
  <2>6. \A g \in Category : live'[g] = Weight(Y, g) /\ live'[g] \in Nat
    <3> HIDE DEF n
    <3> QED BY <1>4, <2>2, <2>3, <2>4, <2>5
  <2> QED BY <1>3, <1>5, <1>8, <2>6 DEF LiveInv, Weight
<1> QED BY <1>6, <1>7, <1>8

(* And the bytes of all groups with them. *)
LEMMA TotalMoves ==
  ASSUME ATypes, TotalInv, NEW s \in Slot, block[s].counted,
         \A r \in InTotal' : block'[r] = block[r],
         \/ InTotal' = InTotal /\ total' = total
         \/ /\ InTotal' = InTotal \cup {s} /\ s \notin InTotal
            /\ total' = total + block[s].bytes
         \/ /\ InTotal = InTotal' \cup {s} /\ s \notin InTotal'
            /\ total' = total - block[s].bytes
  PROVE  TotalInv' /\ total' \in Nat
<1> DEFINE Bytes(S) == Cardinality(BytesOf(S))
<1>1. PICK X, Y : X = InTotal /\ Y = InTotal'
  OBVIOUS
<1>2. /\ X \subseteq Slot /\ \A r \in X \cup {s} : block[r].counted
      /\ BlockTypes /\ block[s].bytes \in Nat /\ total \in Nat
  BY <1>1 DEF InTotal, OutOf, ATypes, NumTypes, BlockTypes
<1>3. Bytes(InTotal)' = Bytes(Y)
  BY <1>1, SameBytes
<1>4. total = Bytes(X)
  BY <1>1, Zenon DEF TotalInv
<1>5. ASSUME NEW S \in SUBSET Slot, s \notin S, \A r \in S \cup {s} : block[r].counted
      PROVE  Bytes(S \cup {s}) = Bytes(S) + block[s].bytes /\ Bytes(S) \in Nat
  <2>1. \A r \in S \cup {s} : block[r].bytes \in Nat
    BY <1>2, <1>5 DEF BlockTypes
  <2>2. IsFiniteSet(S)
    BY AllocAssumption, FS_Subset
  <2> QED BY <1>5, <2>1, <2>2, OneMore
<1> HIDE DEF Bytes
<1>6. CASE InTotal' = InTotal /\ total' = total
  <2>1. Bytes(Y) = Bytes(X)
    BY <1>1, <1>6, Zenon
  <2> QED BY <1>2, <1>3, <1>4, <1>6, <2>1 DEF TotalInv, Bytes
<1>7. CASE /\ InTotal' = InTotal \cup {s} /\ s \notin InTotal
           /\ total' = total + block[s].bytes
  <2>1. Bytes(X \cup {s}) = Bytes(X) + block[s].bytes
    BY <1>1, <1>2, <1>5, <1>7
  <2>2. Bytes(Y) = Bytes(X \cup {s})
    BY <1>1, <1>7, Zenon
  <2> QED BY <1>2, <1>3, <1>4, <1>7, <2>1, <2>2 DEF TotalInv, Bytes
<1>8. CASE /\ InTotal = InTotal' \cup {s} /\ s \notin InTotal'
           /\ total' = total - block[s].bytes
  <2>1. Y \subseteq Slot /\ s \notin Y /\ \A r \in Y \cup {s} : block[r].counted
    BY <1>1, <1>2, <1>8
  <2>2. Bytes(Y \cup {s}) = Bytes(Y) + block[s].bytes /\ Bytes(Y) \in Nat
    BY <2>1, <1>5
  <2>3. Bytes(X) = Bytes(Y \cup {s})
    BY <1>1, <1>8, Zenon
  <2> QED BY <1>2, <1>3, <1>4, <1>8, <2>2, <2>3 DEF TotalInv, Bytes
<1> QED BY <1>6, <1>7, <1>8

(* Steps that touch neither the sets nor the sums. *)
LEMMA SumStays ==
  ASSUME SumInv, InLive' = InLive, InTotal' = InTotal, live' = live, total' = total,
         \A r \in InLive \cup InTotal : block'[r] = block[r]
  PROVE  SumInv'
<1>1. PICK X, Z : X = InLive /\ Z = InTotal
  OBVIOUS
<1>2. \A g \in Category : Cardinality(BytesOf(Of(InLive, g)))' = Cardinality(BytesOf(Of(X, g)))
  BY <1>1, SameBytes
<1>3. Cardinality(BytesOf(InTotal))' = Cardinality(BytesOf(Z))
  BY <1>1, SameBytes
<1> QED BY <1>1, <1>2, <1>3, Zenon DEF SumInv, LiveInv, TotalInv

(* A thread that takes a step inside request or release: the slot it works *)
(* on joins or leaves the set, or neither.                                 *)
LEMMA SetMoves ==
  ASSUME ATypes, AtTypes', NEW L, "rest" \notin L, NEW t \in Thread, at[t].step # "rest",
         at'[t].slot = at[t].slot \/ at'[t].step = "rest",
         \A u \in Thread : u # t => at'[u] = at[u],
         block' = block
  PROVE  /\ at[t].slot \in Slot /\ block[at[t].slot].counted
         /\ (at[t].step \in L <=> at'[t].step \in L) => OutOf(Slot, L)' = OutOf(Slot, L)
         /\ at[t].step \in L /\ at'[t].step \notin L =>
              OutOf(Slot, L)' = OutOf(Slot, L) \cup {at[t].slot} /\ at[t].slot \notin OutOf(Slot, L)
         /\ at[t].step \notin L /\ at'[t].step \in L =>
              /\ OutOf(Slot, L) = OutOf(Slot, L)' \cup {at[t].slot}
              /\ at[t].slot \notin OutOf(Slot, L)'
         /\ BlockTypes' /\ AttachInv'
<1>1. /\ at[t].slot \in Slot /\ block[at[t].slot].counted
      /\ \A u \in Thread : u # t /\ at[u].step # "rest" => at[u].slot # at[t].slot
  BY DEF ATypes, AttachInv
<1>2. BlockTypes' /\ AttachInv'
  BY <1>1 DEF ATypes, BlockTypes, AttachInv
<1>3. (at[t].step \in L <=> at'[t].step \in L) => OutOf(Slot, L)' = OutOf(Slot, L)
  BY <1>1 DEF OutOf
<1>4. at[t].step \in L /\ at'[t].step \notin L =>
        OutOf(Slot, L)' = OutOf(Slot, L) \cup {at[t].slot} /\ at[t].slot \notin OutOf(Slot, L)
  BY <1>1 DEF OutOf
<1>5. at[t].step \notin L /\ at'[t].step \in L =>
        /\ OutOf(Slot, L) = OutOf(Slot, L)' \cup {at[t].slot}
        /\ at[t].slot \notin OutOf(Slot, L)'
  BY <1>1 DEF OutOf
<1> QED BY <1>1, <1>2, <1>3, <1>4, <1>5

(* A peak that nobody touches or stops raising. *)
LEMMA PeakStays ==
  ASSUME PeakInv, peak' = peak, topLive' = topLive,
         \A u \in Thread : at[u].step \in PeakSteps => at'[u] = at[u] /\ Mine(u)' = Mine(u)
  PROVE  PeakInv'
  BY DEF PeakInv

(* And the high of all groups. *)
LEMMA HighStays ==
  ASSUME HighInv, high' = high, topTotal' = topTotal,
         \A u \in Thread : at[u].step \in HighSteps => at'[u] = at[u]
  PROVE  HighInv'
  BY DEF HighInv

(* The peaks do not care about a thread that is raising none. *)
LEMMA TopStays ==
  ASSUME TopInv, UNCHANGED <<peak, high, topLive, topTotal>>,
         \A u \in Thread : \/ at'[u] = at[u] /\ Mine(u)' = Mine(u)
                           \/ /\ at[u].step \notin PeakSteps \cup HighSteps
                              /\ at'[u].step \notin PeakSteps \cup HighSteps
  PROVE  TopInv'
<1>1. \A u \in Thread : at[u].step \in PeakSteps \cup HighSteps \/ at'[u].step \in PeakSteps \cup HighSteps
                          => at'[u] = at[u] /\ Mine(u)' = Mine(u)
  OBVIOUS
<1>2. RiseInv'
  BY <1>1 DEF TopInv, RiseInv, PeakSteps, HighSteps
<1>3. PeakInv'
  BY <1>1 DEF TopInv, PeakInv
<1>4. HighInv'
  BY <1>1 DEF TopInv, HighInv
<1> QED BY <1>2, <1>3, <1>4 DEF TopInv

(* No block is counted at the start. *)
LEMMA NothingAtTheStart == AInit => ACInv
<1> SUFFICES ASSUME AInit PROVE ACInv
  OBVIOUS
<1> USE AllocAssumption DEF AInit
<1>1. ATypes
  BY DEF ATypes, AtTypes, NumTypes, BlockTypes, AttachInv, Rest, NoBlock, Steps
<1>2. TopInv
  BY DEF TopInv, RiseInv, PeakInv, HighInv, Rest, PeakSteps, HighSteps
<1>3. BytesOf({}) = {} /\ Cardinality({}) = 0
  BY FS_EmptySet DEF BytesOf
<1>4. InLive = {} /\ InTotal = {}
  BY DEF InLive, InTotal, OutOf, NoBlock
<1>5. SumInv
  BY <1>3, <1>4 DEF SumInv, LiveInv, TotalInv, Of
<1> QED BY <1>1, <1>2, <1>5 DEF ACInv

(* A thread at rest that begins a request or a release. *)
LEMMA Enters ==
  ASSUME AtTypes, NEW t \in Thread, NEW step \in Steps, NEW s \in Slot, Enter(t, step, s)
  PROVE  /\ AtTypes' /\ at'[t].step = step /\ at'[t].slot = s
         /\ \A u \in Thread : u # t => at'[u] = at[u]
<1>1. PICK r \in [step : Steps, slot : Slot \cup {0}, sum : Nat, old : Nat] :
        at' = [at EXCEPT ![t] = [r EXCEPT !.step = step, !.slot = s]]
  BY DEF Enter, Rest, Steps
<1>2. /\ [r EXCEPT !.step = step, !.slot = s] \in [step : Steps, slot : Slot \cup {0}, sum : Nat, old : Nat]
      /\ [r EXCEPT !.step = step, !.slot = s].step = step
      /\ [r EXCEPT !.step = step, !.slot = s].slot = s
  OBVIOUS
<1> QED BY <1>1, <1>2 DEF AtTypes

(* A thread that is done with one operation and goes on to the next, or    *)
(* ends.                                                                   *)
LEMMA Finishes ==
  ASSUME AtTypes, NEW t \in Thread, NEW step \in Steps, Done(t, step)
  PROVE  /\ AtTypes' /\ at'[t].step = step /\ (at'[t].slot = at[t].slot \/ step = "rest")
         /\ \A u \in Thread : u # t => at'[u] = at[u]
<1>1. Rest \in [step : Steps, slot : Slot \cup {0}, sum : Nat, old : Nat] /\ Rest.step = "rest"
  BY DEF Rest, Steps
<1>2. PICK r \in [step : Steps, slot : Slot \cup {0}, sum : Nat, old : Nat] :
        at' = [at EXCEPT ![t] = r] /\ r.step = step /\ (r.slot = at[t].slot \/ step = "rest")
  <2>1. CASE step = "rest"
    BY <1>1, <2>1 DEF Done
  <2>2. CASE step # "rest"
    <3>1. at[t].slot \in Slot \cup {0}
      BY DEF AtTypes
    <3>2. /\ [Rest EXCEPT !.step = step, !.slot = at[t].slot]
                \in [step : Steps, slot : Slot \cup {0}, sum : Nat, old : Nat]
          /\ [Rest EXCEPT !.step = step, !.slot = at[t].slot].step = step
          /\ [Rest EXCEPT !.step = step, !.slot = at[t].slot].slot = at[t].slot
      BY <1>1, <3>1
    <3>3. at' = [at EXCEPT ![t] = [Rest EXCEPT !.step = step, !.slot = at[t].slot]]
      BY <2>2 DEF Done
    <3> QED BY <3>2, <3>3
  <2> QED BY <2>1, <2>2
<1> QED BY <1>2 DEF AtTypes

(* One turn of the loop of rise: an exchange is to be tried, or the value  *)
(* there is as large.                                                      *)
LEMMA RiseTurn ==
  ASSUME AtTypes, NEW t \in Thread, NEW loaded \in Nat, NEW swap \in Steps, NEW done \in Steps,
         Goes(t, loaded, swap, done)
  PROVE  /\ AtTypes' /\ \A u \in Thread : u # t => at'[u] = at[u]
         /\ \/ /\ at[t].sum > loaded /\ at'[t].step = swap /\ at'[t].slot = at[t].slot
               /\ at'[t].sum = at[t].sum /\ at'[t].old = loaded
            \/ /\ at[t].sum <= loaded /\ at'[t].step = done
               /\ at'[t].slot = at[t].slot \/ done = "rest"
<1>1. CASE at[t].sum > loaded
  <2>1. at' = [at EXCEPT ![t] = [[at[t] EXCEPT !.old = loaded] EXCEPT !.step = swap]]
    BY <1>1 DEF Goes, AtTypes
  <2> QED BY <1>1, <2>1 DEF AtTypes
<1>2. CASE ~(at[t].sum > loaded)
  <2>1. at[t].sum \in Nat
    BY DEF AtTypes
  <2> QED BY <1>2, <2>1, Finishes DEF Goes
<1> QED BY <1>1, <1>2

(* And every step keeps the invariant, one case for each operation.        *)
LEMMA ACHolds == ACInv /\ [ANext]_avars => ACInv'
<1> SUFFICES ASSUME ACInv, [ANext]_avars PROVE ACInv'
  OBVIOUS
<1> USE AllocAssumption DEF ACInv, counters, tops
<1>t. AtTypes /\ NumTypes /\ BlockTypes /\ AttachInv /\ LiveInv /\ TotalInv
  BY DEF ATypes, SumInv
<1>1. ASSUME NEW t \in Thread, NEW s \in Slot, NEW k \in Kind, Ask(t, s, k) PROVE ACInv'
  <2>1. /\ at[t].step = "rest" /\ block[s] = NoBlock /\ ~block[s].counted
        /\ block' = [block EXCEPT ![s] = HeaderOf(k)]
        /\ UNCHANGED <<live, peak, total, high, topLive, topTotal>>
    BY <1>1 DEF Ask, NoBlock
  <2>2. \A u \in Thread : at[u].step # "rest" => at[u].slot # s /\ u # t
    BY <2>1, <1>t DEF AttachInv
  <2>3. /\ \A r \in Slot : r # s => block'[r] = block[r]
        /\ block'[s].bytes \in Nat /\ block'[s].group \in Category
        /\ BlockTypes'
    BY <2>1, <1>t DEF BlockTypes, HeaderOf
  <2>a. \/ active /\ Enter(t, "live", s)
        \/ ~active /\ at' = at
    BY <1>1 DEF Ask
  <2>b. block'[s].counted = active
    BY <1>t, <2>1 DEF HeaderOf, BlockTypes
  <2>4. /\ AtTypes' /\ \A u \in Thread : u # t => at'[u] = at[u]
        /\ \/ active /\ at'[t].step = "live" /\ at'[t].slot = s
           \/ ~active /\ at' = at
    <3>1. CASE active /\ Enter(t, "live", s)
      BY <1>t, <3>1, Enters DEF Steps
    <3>2. CASE ~active /\ at' = at
      BY <1>t, <3>2 DEF AtTypes
    <3> QED BY <2>a, <3>1, <3>2
  <2>5. \/ at'[t] = at[t]
        \/ at'[t].step = "live" /\ at'[t].slot = s
    BY <2>4
  <2>6. block'[s].counted => at'[t].step = "live" /\ at'[t].slot = s
    BY <2>b, <2>4, Zenon
  <2>7. at'[t].step # "rest" => at'[t].slot = s /\ block'[s].counted
    BY <2>b, <2>1, <2>4, Zenon
  <2>8. AttachInv'
    BY <1>t, <2>1, <2>2, <2>3, <2>4, <2>7 DEF AttachInv
  <2>9. ASSUME NEW L, "live" \in L, "rest" \notin L
        PROVE  OutOf(Slot, L)' = OutOf(Slot, L) /\ s \notin OutOf(Slot, L)
    <3>1. s \notin OutOf(Slot, L)
      BY <2>1 DEF OutOf
    <3>2. s \notin OutOf(Slot, L)'
      BY <2>6, <2>9 DEF OutOf
    <3>3. ASSUME NEW r \in Slot, r # s PROVE r \in OutOf(Slot, L)' <=> r \in OutOf(Slot, L)
      BY <2>1, <2>3, <2>4, <2>5, <2>9, <3>3 DEF OutOf
    <3> QED BY <3>1, <3>2, <3>3 DEF OutOf
  <2>10. /\ InLive' = InLive /\ InTotal' = InTotal
         /\ \A r \in InLive \cup InTotal : block'[r] = block[r]
    BY <2>3, <2>9 DEF InLive, InTotal, OutOf, PeakSteps
  <2>11. SumInv'
    BY <2>1, <2>10, SumStays
  <2>12. TopInv'
    <3>1. at'[t].step \notin PeakSteps \cup HighSteps /\ at[t].step \notin PeakSteps \cup HighSteps
      BY <2>1, <2>5 DEF PeakSteps, HighSteps
    <3>2. ASSUME NEW u \in Thread, at[u].step \in PeakSteps \cup HighSteps
          PROVE  at'[u] = at[u] /\ Mine(u)' = Mine(u)
      <4>1. u # t /\ at[u].step # "rest"
        BY <3>1, <3>2 DEF PeakSteps, HighSteps
      <4>2. at'[u] = at[u] /\ at[u].slot \in Slot /\ at[u].slot # s
        BY <4>1, <1>t, <2>2, <2>4 DEF AttachInv
      <4> QED BY <4>2, <2>3 DEF Mine
    <3>3. \A u \in Thread : u # t => at'[u] = at[u]
      BY <2>4
    <3> QED BY <2>1, <3>1, <3>2, <3>3, TopStays
  <2> QED BY <1>t, <2>1, <2>3, <2>4, <2>8, <2>11, <2>12 DEF ATypes, NumTypes
<1>2. ASSUME NEW t \in Thread, AddLive(t) PROVE ACInv'
  <2> DEFINE s == at[t].slot
             g == block[s].group
  <2>1. at[t].step = "live" /\ block' = block /\ UNCHANGED <<total, high, peak, topTotal>>
    BY <1>2 DEF AddLive
  <2>2. s \in Slot /\ block[s].counted /\ block[s].bytes \in Nat /\ g \in Category /\ Mine(t) = block[s]
    BY <1>t, <2>1 DEF AttachInv, BlockTypes, Mine
  <2>3. /\ live' = [live EXCEPT ![g] = live[g] + block[s].bytes]
        /\ topLive' = [topLive EXCEPT ![g] = Bigger(topLive[g], live'[g])]
        /\ at' = [at EXCEPT ![t].step = "load peak", ![t].sum = live'[g]]
    BY <1>2 DEF AddLive, Mine
  <2> HIDE DEF g
  <2>a. live'[g] \in Nat /\ topLive[g] \in Nat
    <3>1. g \in Category /\ live \in [Category -> Nat] /\ topLive \in [Category -> Nat]
      BY <1>t, <2>2 DEF NumTypes
    <3>2. PICK n \in Nat : n = block[s].bytes
      BY <2>2
    <3>3. live'[g] = live[g] + n
      BY <2>3, <3>1, <3>2
    <3> QED BY <3>1, <3>2, <3>3
  <2>b. PICK n \in Nat : n = Bigger(topLive[g], live'[g]) /\ n >= live'[g] /\ n >= topLive[g]
                       /\ n \in {topLive[g], live'[g]}
    BY <2>a DEF Bigger
  <2>4. /\ topLive' \in [Category -> Nat]
        /\ topLive'[g] >= live'[g] /\ topLive'[g] >= topLive[g] /\ topLive'[g] \in {topLive[g], live'[g]}
        /\ \A h \in Category : h # g => topLive'[h] = topLive[h]
    BY <1>t, <2>2, <2>3, <2>b DEF NumTypes
  <2>c. /\ at'[t].step = "load peak" /\ at'[t].sum = live'[g] /\ at'[t].slot = s
        /\ at'[t] \in [step : Steps, slot : Slot \cup {0}, sum : Nat, old : Nat]
    <3>1. "load peak" \in Steps
      BY DEF Steps, PeakSteps
    <3> HIDE DEF s
    <3>2. at'[t] = [[at[t] EXCEPT !.step = "load peak"] EXCEPT !.sum = live'[g]]
      BY <1>t, <2>3 DEF AtTypes
    <3> QED BY <1>t, <2>a, <3>1, <3>2 DEF AtTypes, s
  <2>5. /\ at'[t].step = "load peak" /\ at'[t].sum = live'[g] /\ at'[t].slot = s
        /\ \A u \in Thread : u # t => at'[u] = at[u]
        /\ AtTypes'
    BY <1>t, <2>3, <2>c DEF AtTypes
  <2>6. InLive' = InLive \cup {s} /\ s \notin InLive /\ InTotal' = InTotal /\ BlockTypes' /\ AttachInv'
    <3>1. /\ at[t].step \in {"live", "untotal"} /\ at'[t].step \notin {"live", "untotal"}
          /\ at[t].step \in {"live", "total"} \cup PeakSteps
          /\ at'[t].step \in {"live", "total"} \cup PeakSteps
          /\ "rest" \notin {"live", "untotal"} /\ "rest" \notin {"live", "total"} \cup PeakSteps
      BY <2>1, <2>5 DEF PeakSteps
    <3> QED BY <2>1, <2>5, <3>1, SetMoves DEF InLive, InTotal
  <2>7. LiveInv' /\ TotalInv'
    BY <1>t, <2>1, <2>2, <2>3, <2>6, LiveMoves, TotalMoves DEF g
  <2>8. TopInv'
    <3>1. \A u \in Thread : Mine(u)' = block[at[u].slot] /\ Mine(u) = block[at[u].slot]
      BY <2>1, <2>5 DEF Mine
    <3>2. RiseInv'
      <4> SUFFICES ASSUME NEW u \in Thread
                   PROVE  (/\ at[u].step \in PeakSteps => at[u].sum <= topLive[Mine(u).group]
                           /\ at[u].step \in HighSteps => at[u].sum <= topTotal
                           /\ at[u].step \in {"swap peak", "swap high"} => at[u].sum > at[u].old)'
        BY DEF RiseInv
      <4>1. CASE u = t
        BY <4>1, <2>4, <2>5, <3>1 DEF g, HighSteps
      <4>2. CASE u # t
        <5>1. at[u].step \in PeakSteps => block[at[u].slot].group \in Category
          BY <1>t DEF AttachInv, BlockTypes, PeakSteps
        <5>2. at'[u] = at[u] /\ Mine(u)' = Mine(u) /\ topTotal' = topTotal /\ at[u].sum \in Nat
          BY <4>2, <1>t, <2>1, <2>5, <3>1 DEF AtTypes
        <5>3. at[u].step \in PeakSteps => topLive'[Mine(u).group] >= topLive[Mine(u).group]
                                         /\ topLive[Mine(u).group] \in Nat /\ topLive'[Mine(u).group] \in Nat
          BY <1>t, <2>4, <3>1, <5>1 DEF NumTypes
        <5>4. at[u].step \in PeakSteps => at[u].sum <= topLive[Mine(u).group]
          BY DEF TopInv, RiseInv
        <5>5. at[u].step \in PeakSteps => at[u].sum <= topLive'[Mine(u).group]
          BY <5>2, <5>3, <5>4
        <5> QED BY <5>2, <5>5 DEF TopInv, RiseInv
      <4> QED BY <4>1, <4>2
    <3>3. PeakInv'
      <4> SUFFICES ASSUME NEW h \in Category
                   PROVE  (\/ peak[h] = topLive[h]
                           \/ /\ peak[h] < topLive[h]
                              /\ \E u \in Thread : /\ at[u].step \in PeakSteps /\ Mine(u).group = h
                                                   /\ at[u].sum = topLive[h])'
        BY DEF PeakInv
      <4>1. CASE h = g /\ topLive'[g] # topLive[g]
        <5>1. topLive'[h] = live'[g] /\ topLive'[h] > topLive[h] /\ topLive[h] >= peak[h] /\ peak' = peak
          BY <4>1, <1>t, <2>1, <2>4, <2>a DEF TopInv, PeakInv, NumTypes
        <5>2. at'[t].step \in PeakSteps /\ (Mine(t).group = h)' /\ at'[t].sum = topLive'[h]
          BY <4>1, <2>5, <3>1, <5>1 DEF PeakSteps, g
        <5>3. peak'[h] < topLive'[h]
          BY <5>1, <4>1, <1>t, <2>4 DEF NumTypes
        <5> QED BY <5>2, <5>3
      <4>2. CASE h # g \/ topLive'[g] = topLive[g]
        <5>1. topLive'[h] = topLive[h]
          BY <4>2, <2>4
        <5>2. \A u \in Thread : at[u].step \in PeakSteps => at'[u] = at[u] /\ Mine(u)' = Mine(u)
          BY <2>1, <2>5, <3>1 DEF PeakSteps
        <5> QED BY <5>1, <5>2, <2>1 DEF TopInv, PeakInv
      <4> QED BY <4>1, <4>2
    <3>4. HighInv'
      <4>1. \A u \in Thread : at[u].step \in HighSteps => at'[u] = at[u]
        BY <2>1, <2>5 DEF HighSteps
      <4> QED BY <4>1, <2>1 DEF TopInv, HighInv
    <3> QED BY <3>2, <3>3, <3>4 DEF TopInv
  <2>9. NumTypes'
    <3>1. live' \in [Category -> Nat]
      BY <1>t, <2>2, <2>3, <2>a DEF NumTypes
    <3> QED BY <1>t, <2>1, <2>4, <3>1 DEF NumTypes
  <2> QED BY <2>5, <2>6, <2>7, <2>8, <2>9 DEF ATypes, SumInv
<1>3. ASSUME NEW t \in Thread, AddTotal(t) PROVE ACInv'
  <2> DEFINE s == at[t].slot
  <2>1. at[t].step = "total" /\ block' = block /\ UNCHANGED <<live, high, peak, topLive>>
    BY <1>3 DEF AddTotal
  <2>2. s \in Slot /\ block[s].counted /\ block[s].bytes \in Nat /\ Mine(t) = block[s]
    BY <1>t, <2>1 DEF AttachInv, BlockTypes, Mine
  <2>3. /\ total' = total + block[s].bytes /\ topTotal' = Bigger(topTotal, total')
        /\ at' = [at EXCEPT ![t].step = "load high", ![t].sum = total']
    BY <1>3 DEF AddTotal, Mine
  <2>4. /\ total' \in Nat /\ topTotal' \in Nat
        /\ topTotal' >= total' /\ topTotal' >= topTotal /\ topTotal' \in {topTotal, total'}
    <3>1. PICK n \in Nat : n = block[s].bytes
      BY <2>2
    <3>2. total' = total + n /\ topTotal' = Bigger(topTotal, total')
      BY <2>3, <3>1
    <3>3. total \in Nat /\ topTotal \in Nat
      BY <1>t DEF NumTypes
    <3> QED BY <3>2, <3>3 DEF Bigger
  <2>c. /\ at'[t].step = "load high" /\ at'[t].sum = total' /\ at'[t].slot = s
        /\ at'[t] \in [step : Steps, slot : Slot \cup {0}, sum : Nat, old : Nat]
    <3>1. "load high" \in Steps
      BY DEF Steps, HighSteps
    <3> HIDE DEF s
    <3>2. at'[t] = [[at[t] EXCEPT !.step = "load high"] EXCEPT !.sum = total']
      BY <1>t, <2>3 DEF AtTypes
    <3> QED BY <1>t, <2>4, <3>1, <3>2 DEF AtTypes, s
  <2>5. AtTypes' /\ \A u \in Thread : u # t => at'[u] = at[u]
    BY <1>t, <2>3, <2>c DEF AtTypes
  <2>6. InTotal' = InTotal \cup {s} /\ s \notin InTotal /\ InLive' = InLive /\ BlockTypes' /\ AttachInv'
    <3>1. /\ at[t].step \notin {"live", "untotal"} /\ at'[t].step \notin {"live", "untotal"}
          /\ at[t].step \in {"live", "total"} \cup PeakSteps
          /\ at'[t].step \notin {"live", "total"} \cup PeakSteps
          /\ "rest" \notin {"live", "untotal"} /\ "rest" \notin {"live", "total"} \cup PeakSteps
      BY <2>1, <2>c DEF PeakSteps
    <3> QED BY <2>1, <2>5, <2>c, <3>1, SetMoves DEF InLive, InTotal
  <2>7. LiveInv' /\ TotalInv'
    BY <1>t, <2>1, <2>2, <2>3, <2>6, LiveMoves, TotalMoves
  <2>8. \A u \in Thread : u # t => at'[u] = at[u] /\ Mine(u)' = Mine(u)
    BY <2>1, <2>5 DEF Mine
  <2>9. RiseInv'
    <3> SUFFICES ASSUME NEW u \in Thread
                 PROVE  (/\ at[u].step \in PeakSteps => at[u].sum <= topLive[Mine(u).group]
                         /\ at[u].step \in HighSteps => at[u].sum <= topTotal
                         /\ at[u].step \in {"swap peak", "swap high"} => at[u].sum > at[u].old)'
      BY DEF RiseInv
    <3>1. CASE u = t
      BY <3>1, <2>4, <2>c DEF PeakSteps
    <3>2. CASE u # t
      <4>1. at[u].sum \in Nat /\ topTotal \in Nat
        BY <1>t DEF AtTypes, NumTypes
      <4>2. at[u].step \in HighSteps => at[u].sum <= topTotal
        BY DEF TopInv, RiseInv
      <4>3. at[u].step \in HighSteps => at[u].sum <= topTotal'
        BY <2>4, <4>1, <4>2
      <4> QED BY <3>2, <2>1, <2>8, <4>3 DEF TopInv, RiseInv
    <3> QED BY <3>1, <3>2
  <2>10. PeakInv'
    BY <2>1, <2>8, PeakStays DEF TopInv, PeakSteps
  <2>11. HighInv'
    <3>1. CASE topTotal' = topTotal
      BY <3>1, <2>1, <2>8, HighStays DEF TopInv, HighSteps
    <3>2. CASE topTotal' # topTotal
      <4>1. topTotal' = total' /\ high' < topTotal'
        BY <3>2, <1>t, <2>1, <2>4 DEF TopInv, HighInv, NumTypes
      <4>2. at'[t].step \in HighSteps /\ at'[t].sum = topTotal'
        BY <2>c, <4>1 DEF HighSteps
      <4> QED BY <4>1, <4>2 DEF HighInv
    <3> QED BY <3>1, <3>2
  <2>12. NumTypes'
    BY <1>t, <2>1, <2>4 DEF NumTypes
  <2> QED BY <2>5, <2>6, <2>7, <2>9, <2>10, <2>11, <2>12 DEF ATypes, SumInv, TopInv
<1>4. ASSUME NEW t \in Thread, RisePeak(t) PROVE ACInv'
  <2> DEFINE s == at[t].slot
             g == block[s].group
  <2>1. /\ at[t].step \in PeakSteps /\ block' = block
        /\ UNCHANGED <<live, total, high, topLive, topTotal>>
    BY <1>4 DEF RisePeak, PeakSteps
  <2>2. s \in Slot /\ block[s].counted /\ g \in Category /\ Mine(t) = block[s] /\ peak[g] \in Nat
    BY <1>t, <2>1 DEF AttachInv, BlockTypes, NumTypes, Mine, PeakSteps
  <2> HIDE DEF g
  <2>3. \/ peak' = peak /\ Goes(t, peak[g], "swap peak", "total")
        \/ /\ at[t].step = "swap peak" /\ peak[g] = at[t].old
           /\ peak' = [peak EXCEPT ![g] = at[t].sum] /\ Done(t, "total")
    BY <1>4, <2>2 DEF RisePeak, Swaps, g
  <2>4. "swap peak" \in Steps /\ "total" \in Steps /\ "total" # "rest"
    BY DEF Steps, PeakSteps
  <2>5. /\ AtTypes' /\ at'[t].slot = s /\ \A u \in Thread : u # t => at'[u] = at[u]
        /\ \/ /\ peak' = peak /\ at[t].sum > peak[g] /\ at'[t].step = "swap peak"
              /\ at'[t].sum = at[t].sum /\ at'[t].old = peak[g]
           \/ peak' = peak /\ at[t].sum <= peak[g] /\ at'[t].step = "total"
           \/ /\ at[t].sum > peak[g] /\ at'[t].step = "total"
              /\ peak' = [peak EXCEPT ![g] = at[t].sum]
    <3>1. CASE peak' = peak /\ Goes(t, peak[g], "swap peak", "total")
      <4>1. /\ AtTypes' /\ \A u \in Thread : u # t => at'[u] = at[u]
            /\ \/ /\ at[t].sum > peak[g] /\ at'[t].step = "swap peak" /\ at'[t].slot = at[t].slot
                  /\ at'[t].sum = at[t].sum /\ at'[t].old = peak[g]
               \/ /\ at[t].sum <= peak[g] /\ at'[t].step = "total"
                  /\ at'[t].slot = at[t].slot \/ "total" = "rest"
        BY <1>t, <2>2, <2>4, <3>1, RiseTurn
      <4> QED BY <2>4, <3>1, <4>1
    <3>2. CASE /\ at[t].step = "swap peak" /\ peak[g] = at[t].old
               /\ peak' = [peak EXCEPT ![g] = at[t].sum] /\ Done(t, "total")
      BY <1>t, <2>4, <3>2, Finishes DEF TopInv, RiseInv
    <3> QED BY <2>3, <3>1, <3>2
  <2>6. InTotal' = InTotal /\ InLive' = InLive /\ BlockTypes' /\ AttachInv'
    <3>1. /\ at[t].step \notin {"live", "untotal"} /\ at'[t].step \notin {"live", "untotal"}
          /\ at[t].step \in {"live", "total"} \cup PeakSteps /\ at[t].step # "rest"
          /\ at'[t].step \in {"live", "total"} \cup PeakSteps
          /\ "rest" \notin {"live", "untotal"} /\ "rest" \notin {"live", "total"} \cup PeakSteps
      BY <2>1, <2>5 DEF PeakSteps
    <3> QED BY <2>1, <2>5, <3>1, SetMoves DEF InLive, InTotal
  <2>7. SumInv'
    BY <2>1, <2>6, SumStays
  <2>8. \A u \in Thread : Mine(u)' = block[at'[u].slot] /\ Mine(u) = block[at[u].slot]
    BY <2>1 DEF Mine
  <2>9. \A u \in Thread : at[u].sum \in Nat /\ at'[u].sum \in Nat
    BY <1>t, <2>5 DEF AtTypes
  <2>10. at[t].sum <= topLive[g] /\ topLive[g] \in Nat
    BY <1>t, <2>1, <2>2 DEF TopInv, RiseInv, NumTypes, g
  <2>11. RiseInv'
    <3> SUFFICES ASSUME NEW u \in Thread
                 PROVE  (/\ at[u].step \in PeakSteps => at[u].sum <= topLive[Mine(u).group]
                         /\ at[u].step \in HighSteps => at[u].sum <= topTotal
                         /\ at[u].step \in {"swap peak", "swap high"} => at[u].sum > at[u].old)'
      BY DEF RiseInv
    <3>1. CASE u = t
      BY <3>1, <2>1, <2>5, <2>8, <2>10 DEF HighSteps, PeakSteps, g
    <3>2. CASE u # t
      BY <3>2, <2>1, <2>5, <2>8 DEF TopInv, RiseInv
    <3> QED BY <3>1, <3>2
  <2>12. HighInv'
    <3>1. \A u \in Thread : at[u].step \in HighSteps => at'[u] = at[u]
      BY <2>1, <2>5 DEF HighSteps, PeakSteps
    <3> QED BY <2>1, <3>1, HighStays DEF TopInv
  <2>13. PeakInv'
    <3> SUFFICES ASSUME NEW h \in Category
                 PROVE  (\/ peak[h] = topLive[h]
                         \/ /\ peak[h] < topLive[h]
                            /\ \E u \in Thread : /\ at[u].step \in PeakSteps /\ Mine(u).group = h
                                                 /\ at[u].sum = topLive[h])'
      BY DEF PeakInv
    <3>1. \/ peak[h] = topLive[h]
          \/ /\ peak[h] < topLive[h]
             /\ \E u \in Thread : /\ at[u].step \in PeakSteps /\ Mine(u).group = h
                                  /\ at[u].sum = topLive[h]
      BY DEF TopInv, PeakInv
    <3>2. CASE h # g
      <4>1. peak'[h] = peak[h]
        BY <1>t, <2>2, <2>5, <3>2 DEF NumTypes
      <4>2. \A u \in Thread : Mine(u).group = h => u # t
        BY <3>2, <2>2 DEF g
      <4>3. ASSUME NEW u \in Thread, at[u].step \in PeakSteps, Mine(u).group = h, at[u].sum = topLive[h]
            PROVE  at'[u].step \in PeakSteps /\ (Mine(u).group = h)' /\ at'[u].sum = topLive[h]
        BY <4>2, <4>3, <2>5, <2>8
      <4> QED BY <2>1, <3>1, <4>1, <4>3
    <3>3. CASE h = g /\ peak' = peak
      <4>1. ASSUME NEW u \in Thread, at[u].step \in PeakSteps, Mine(u).group = h, at[u].sum = topLive[h],
                   peak[h] < topLive[h]
            PROVE  at'[u].step \in PeakSteps /\ (Mine(u).group = h)' /\ at'[u].sum = topLive[h]
        <5>1. CASE u # t
          BY <5>1, <4>1, <2>5, <2>8
        <5>2. CASE u = t
          <6>1. at[t].sum > peak[g] /\ peak'[g] = peak[g]
            BY <5>2, <4>1, <3>3, <2>10
          <6>2. peak' = [peak EXCEPT ![g] = at[t].sum] => peak'[g] = at[t].sum
            BY <1>t, <2>2 DEF NumTypes
          <6>3. at'[t].step = "swap peak" /\ at'[t].sum = at[t].sum
            <7>1. at[t].sum \in Nat /\ peak[g] \in Nat
              BY <2>2, <2>9
            <7>2. ~(at[t].sum <= peak[g]) /\ peak' # [peak EXCEPT ![g] = at[t].sum]
              BY <6>1, <6>2, <7>1
            <7> QED BY <2>5, <7>2
          <6> QED BY <5>2, <4>1, <3>3, <2>5, <2>8, <6>3 DEF PeakSteps
        <5> QED BY <5>1, <5>2
      <4> QED BY <2>1, <3>1, <3>3, <4>1
    <3>4. CASE /\ h = g /\ at[t].sum > peak[g]
               /\ peak' = [peak EXCEPT ![g] = at[t].sum]
      <4>1. peak'[h] = at[t].sum /\ at[t].sum \in Nat
        BY <1>t, <2>2, <2>9, <3>4 DEF NumTypes
      <4>2. CASE at[t].sum = topLive[h]
        BY <4>1, <4>2, <2>1
      <4>3. CASE at[t].sum # topLive[h]
        <5>1. peak'[h] < topLive'[h] /\ peak[h] # topLive[h]
          BY <4>1, <4>3, <2>1, <2>2, <2>10, <3>4
        <5>2. PICK u \in Thread : at[u].step \in PeakSteps /\ Mine(u).group = h /\ at[u].sum = topLive[h]
          BY <3>1, <5>1
        <5>3. u # t
          BY <4>3, <5>2
        <5> QED BY <2>1, <2>5, <2>8, <5>1, <5>2, <5>3
      <4> QED BY <4>2, <4>3
    <3> QED BY <2>5, <3>2, <3>3, <3>4
  <2>14. NumTypes'
    BY <1>t, <2>1, <2>2, <2>5, <2>9 DEF NumTypes
  <2> QED BY <2>5, <2>6, <2>7, <2>11, <2>12, <2>13, <2>14 DEF ATypes, TopInv
<1>5. ASSUME NEW t \in Thread, RiseHigh(t) PROVE ACInv'
  <2>1. /\ at[t].step \in HighSteps /\ block' = block
        /\ UNCHANGED <<live, total, peak, topLive, topTotal>>
    BY <1>5 DEF RiseHigh, HighSteps
  <2>2. \/ high' = high /\ Goes(t, high, "swap high", "rest")
        \/ /\ at[t].step = "swap high" /\ high = at[t].old
           /\ high' = at[t].sum /\ Done(t, "rest")
    BY <1>5 DEF RiseHigh, Swaps
  <2>3. "swap high" \in Steps /\ "rest" \in Steps /\ high \in Nat /\ topTotal \in Nat
    BY <1>t DEF Steps, HighSteps, NumTypes
  <2>4. at[t].sum \in Nat /\ at[t].sum <= topTotal
    BY <1>t, <2>1 DEF AtTypes, TopInv, RiseInv
  <2>5. /\ AtTypes' /\ \A u \in Thread : u # t => at'[u] = at[u]
        /\ \/ /\ high' = high /\ at[t].sum > high /\ at'[t].step = "swap high"
              /\ at'[t].sum = at[t].sum /\ at'[t].old = high /\ at'[t].slot = at[t].slot
           \/ high' = high /\ at[t].sum <= high /\ at'[t].step = "rest"
           \/ high' = at[t].sum /\ at[t].sum > high /\ at'[t].step = "rest"
    <3>1. CASE high' = high /\ Goes(t, high, "swap high", "rest")
      <4>1. /\ AtTypes' /\ \A u \in Thread : u # t => at'[u] = at[u]
            /\ \/ /\ at[t].sum > high /\ at'[t].step = "swap high" /\ at'[t].slot = at[t].slot
                  /\ at'[t].sum = at[t].sum /\ at'[t].old = high
               \/ at[t].sum <= high /\ at'[t].step = "rest"
        BY <1>t, <2>3, <3>1, RiseTurn
      <4> QED BY <3>1, <4>1
    <3>2. CASE /\ at[t].step = "swap high" /\ high = at[t].old
               /\ high' = at[t].sum /\ Done(t, "rest")
      BY <1>t, <2>3, <3>2, Finishes DEF TopInv, RiseInv
    <3> QED BY <2>2, <3>1, <3>2
  <2>6. InTotal' = InTotal /\ InLive' = InLive /\ BlockTypes' /\ AttachInv'
    <3>1. /\ at[t].step \notin {"live", "untotal"} /\ at'[t].step \notin {"live", "untotal"}
          /\ at[t].step \notin {"live", "total"} \cup PeakSteps /\ at[t].step # "rest"
          /\ at'[t].step \notin {"live", "total"} \cup PeakSteps
          /\ at'[t].slot = at[t].slot \/ at'[t].step = "rest"
          /\ "rest" \notin {"live", "untotal"} /\ "rest" \notin {"live", "total"} \cup PeakSteps
      BY <2>1, <2>5 DEF PeakSteps, HighSteps
    <3> QED BY <2>1, <2>5, <3>1, SetMoves DEF InLive, InTotal
  <2>7. SumInv'
    BY <2>1, <2>6, SumStays
  <2>8. \A u \in Thread : u # t => at'[u] = at[u] /\ Mine(u)' = Mine(u)
    BY <2>1, <2>5 DEF Mine
  <2>9. at'[t].step \notin PeakSteps /\ at[t].step \notin PeakSteps
    BY <2>1, <2>5 DEF PeakSteps, HighSteps
  <2>10. RiseInv'
    <3> SUFFICES ASSUME NEW u \in Thread
                 PROVE  (/\ at[u].step \in PeakSteps => at[u].sum <= topLive[Mine(u).group]
                         /\ at[u].step \in HighSteps => at[u].sum <= topTotal
                         /\ at[u].step \in {"swap peak", "swap high"} => at[u].sum > at[u].old)'
      BY DEF RiseInv
    <3>1. CASE u = t
      BY <3>1, <2>1, <2>4, <2>5, <2>9 DEF HighSteps
    <3>2. CASE u # t
      BY <3>2, <2>1, <2>8 DEF TopInv, RiseInv
    <3> QED BY <3>1, <3>2
  <2>11. PeakInv'
    BY <2>1, <2>8, <2>9, PeakStays DEF TopInv
  <2>12. HighInv'
    <3>1. \/ high = topTotal
          \/ high < topTotal /\ \E u \in Thread : at[u].step \in HighSteps /\ at[u].sum = topTotal
      BY DEF TopInv, HighInv
    <3>2. ASSUME NEW u \in Thread, at[u].step \in HighSteps, at[u].sum = topTotal, high < topTotal,
                 u = t => high' = high
          PROVE  at'[u].step \in HighSteps /\ at'[u].sum = topTotal
      <4>1. CASE u # t
        BY <3>2, <4>1, <2>5
      <4>2. CASE u = t
        <5>0. PICK n \in Nat : n = topTotal
          BY <1>t DEF NumTypes
        <5>1. /\ at[t].sum = n /\ high < n /\ high' = high
          BY <3>2, <4>2, <5>0
        <5>2. ~(n <= high) /\ high' # n
          BY <1>t, <5>0, <5>1 DEF NumTypes
        <5>3. ~(at[t].sum <= high) /\ high' # at[t].sum
          BY <5>1, <5>2, Zenon
        <5> QED BY <3>2, <4>2, <5>3, <2>5 DEF HighSteps
      <4> QED BY <4>1, <4>2
    <3>3. CASE high' = high
      BY <2>1, <3>1, <3>2, <3>3 DEF HighInv
    <3>4. CASE high' = at[t].sum /\ at[t].sum > high
      <4>1. CASE at[t].sum = topTotal
        BY <3>4, <4>1, <2>1 DEF HighInv
      <4>2. CASE at[t].sum # topTotal
        <5>0. /\ at[t].sum \in Nat /\ high \in Nat /\ topTotal \in Nat
              /\ at[t].sum <= topTotal /\ at[t].sum > high
          BY <1>t, <2>3, <2>4, <3>4 DEF NumTypes
        <5>p. PICK n \in Nat : n = at[t].sum
          BY <5>0
        <5>q. n <= topTotal /\ n > high /\ n # topTotal
          BY <4>2, <5>0, <5>p, Zenon
        <5>a. n = at[t].sum /\ n < topTotal /\ high < n
          BY <5>0, <5>p, <5>q
        <5>b. high' = n /\ topTotal' = topTotal
          BY <3>4, <5>a, <2>1
        <5>1. high' < topTotal' /\ high < topTotal /\ high # topTotal
          BY <5>0, <5>a, <5>b
        <5>2. PICK u \in Thread : at[u].step \in HighSteps /\ at[u].sum = topTotal
          BY <3>1, <5>1
        <5>3. u # t
          BY <4>2, <5>2
        <5> QED BY <2>1, <2>5, <5>1, <5>2, <5>3 DEF HighInv
      <4> QED BY <4>1, <4>2
    <3> QED BY <2>5, <3>3, <3>4
  <2>13. NumTypes'
    BY <1>t, <2>1, <2>4, <2>5 DEF NumTypes
  <2> QED BY <2>5, <2>6, <2>7, <2>10, <2>11, <2>12, <2>13 DEF ATypes, TopInv
<1>6. ASSUME NEW t \in Thread, NEW s \in Slot, Release(t, s) PROVE ACInv'
  <2>1. /\ at[t].step = "rest" /\ s \notin Busy
        /\ UNCHANGED <<live, peak, total, high, topLive, topTotal>>
    BY <1>6 DEF Release
  <2>2. \A u \in Thread : at[u].step # "rest" => at[u].slot # s /\ u # t
    BY <2>1 DEF Busy
  <2>3. CASE block[s].counted /\ Enter(t, "unlive", s) /\ block' = block
    <3>1. /\ AtTypes' /\ at'[t].step = "unlive" /\ at'[t].slot = s
          /\ \A u \in Thread : u # t => at'[u] = at[u]
      BY <1>t, <2>3, Enters DEF Steps
    <3>2. BlockTypes' /\ AttachInv'
      BY <1>t, <2>2, <2>3, <3>1 DEF BlockTypes, AttachInv
    <3>3. ASSUME NEW L, "unlive" \notin L, "rest" \notin L PROVE OutOf(Slot, L)' = OutOf(Slot, L)
      BY <2>1, <2>3, <3>1, <3>3 DEF OutOf
    <3>4. InLive' = InLive /\ InTotal' = InTotal
      BY <3>3 DEF InLive, InTotal, PeakSteps
    <3>5. SumInv'
      BY <2>1, <2>3, <3>4, SumStays
    <3>6. TopInv'
      <4>1. at'[t].step \notin PeakSteps \cup HighSteps /\ at[t].step \notin PeakSteps \cup HighSteps
        BY <2>1, <3>1 DEF PeakSteps, HighSteps
      <4>2. \A u \in Thread : u # t => at'[u] = at[u] /\ Mine(u)' = Mine(u)
        BY <2>3, <3>1 DEF Mine
      <4> QED BY <2>1, <4>1, <4>2, TopStays
    <3> QED BY <1>t, <2>1, <3>1, <3>2, <3>5, <3>6 DEF ATypes, NumTypes
  <2>4. CASE ~block[s].counted /\ block' = [block EXCEPT ![s] = NoBlock] /\ at' = at
    <3>1. /\ ~block'[s].counted /\ \A r \in Slot : r # s => block'[r] = block[r]
          /\ BlockTypes'
      BY <1>t, <2>4 DEF BlockTypes, NoBlock
    <3>2. AttachInv'
      BY <1>t, <2>2, <2>4, <3>1 DEF AttachInv
    <3>3. /\ InLive' = InLive /\ InTotal' = InTotal
          /\ \A r \in InLive \cup InTotal : block'[r] = block[r]
      BY <2>4, <3>1 DEF InLive, InTotal, OutOf
    <3>4. SumInv'
      BY <2>1, <3>3, SumStays
    <3>5. TopInv'
      <4>1. ASSUME NEW u \in Thread, at[u].step \in PeakSteps \cup HighSteps
            PROVE  at'[u] = at[u] /\ Mine(u)' = Mine(u)
        <5>1. at[u].slot \in Slot /\ at[u].slot # s
          BY <4>1, <1>t, <2>2 DEF AttachInv, PeakSteps, HighSteps
        <5> QED BY <5>1, <2>4, <3>1 DEF Mine
      <4> QED BY <2>1, <2>4, <4>1, TopStays
    <3> QED BY <1>t, <2>1, <2>4, <3>1, <3>2, <3>4, <3>5 DEF ATypes, NumTypes, AtTypes
  <2> QED BY <1>6, <2>3, <2>4 DEF Release, Counted
<1>7. ASSUME NEW t \in Thread, SubLive(t) PROVE ACInv'
  <2> DEFINE s == at[t].slot
  <2>1. /\ at[t].step = "unlive" /\ block' = block /\ Done(t, "untotal")
        /\ UNCHANGED <<peak, total, high, topLive, topTotal>>
    BY <1>7 DEF SubLive
  <2>2. s \in Slot /\ block[s].counted /\ Mine(t) = block[s]
    BY <1>t, <2>1 DEF AttachInv, Mine
  <2>3. live' = [live EXCEPT ![block[s].group] = live[block[s].group] - block[s].bytes]
    BY <1>7 DEF SubLive, Mine
  <2>4. /\ AtTypes' /\ at'[t].step = "untotal" /\ at'[t].slot = s
        /\ \A u \in Thread : u # t => at'[u] = at[u]
    BY <1>t, <2>1, Finishes DEF Steps
  <2>5. InLive = InLive' \cup {s} /\ s \notin InLive' /\ InTotal' = InTotal /\ BlockTypes' /\ AttachInv'
    <3>1. /\ at[t].step \notin {"live", "untotal"} /\ at'[t].step \in {"live", "untotal"}
          /\ at[t].step \notin {"live", "total"} \cup PeakSteps
          /\ at'[t].step \notin {"live", "total"} \cup PeakSteps
          /\ "rest" \notin {"live", "untotal"} /\ "rest" \notin {"live", "total"} \cup PeakSteps
      BY <2>1, <2>4 DEF PeakSteps
    <3> QED BY <2>1, <2>4, <3>1, SetMoves DEF InLive, InTotal
  <2>6. LiveInv' /\ TotalInv' /\ live' \in [Category -> Nat]
    BY <1>t, <2>1, <2>2, <2>3, <2>5, LiveMoves, TotalMoves
  <2>7. TopInv'
    <3>1. at'[t].step \notin PeakSteps \cup HighSteps /\ at[t].step \notin PeakSteps \cup HighSteps
      BY <2>1, <2>4 DEF PeakSteps, HighSteps
    <3>2. \A u \in Thread : u # t => at'[u] = at[u] /\ Mine(u)' = Mine(u)
      BY <2>1, <2>4 DEF Mine
    <3> QED BY <2>1, <3>1, <3>2, TopStays
  <2> QED BY <1>t, <2>1, <2>4, <2>5, <2>6, <2>7 DEF ATypes, SumInv, NumTypes
<1>8. ASSUME NEW t \in Thread, SubTotal(t) PROVE ACInv'
  <2> DEFINE s == at[t].slot
  <2>1. /\ at[t].step = "untotal" /\ block' = [block EXCEPT ![s] = NoBlock] /\ Done(t, "rest")
        /\ UNCHANGED <<live, peak, high, topLive, topTotal>>
    BY <1>8 DEF SubTotal
  <2>2. /\ s \in Slot /\ block[s].counted /\ Mine(t) = block[s]
        /\ \A u \in Thread : u # t /\ at[u].step # "rest" => at[u].slot # s
    BY <1>t, <2>1 DEF AttachInv, Mine
  <2>3. total' = total - block[s].bytes
    BY <1>8 DEF SubTotal, Mine
  <2>4. AtTypes' /\ at'[t].step = "rest" /\ \A u \in Thread : u # t => at'[u] = at[u]
    BY <1>t, <2>1, Finishes DEF Steps
  <2>5. /\ ~block'[s].counted /\ \A r \in Slot : r # s => block'[r] = block[r]
        /\ BlockTypes'
    BY <1>t, <2>1, <2>2 DEF BlockTypes, NoBlock
  <2>6. AttachInv'
    BY <1>t, <2>2, <2>4, <2>5 DEF AttachInv
  <2>7. InLive' = InLive /\ s \notin InLive
    BY <2>1, <2>2, <2>4, <2>5 DEF InLive, OutOf
  <2>8. InTotal = InTotal' \cup {s} /\ s \notin InTotal'
    <3>1. s \notin InTotal'
      BY <2>5 DEF InTotal, OutOf
    <3>2. s \in InTotal
      <4>1. \A u \in Thread : at[u].slot = s => at[u].step \notin {"live", "total"} \cup PeakSteps
        <5>1. \A u \in Thread : u # t /\ at[u].slot = s => at[u].step = "rest"
          BY <2>2
        <5> QED BY <2>1, <5>1 DEF PeakSteps
      <4> QED BY <2>2, <4>1 DEF InTotal, OutOf
    <3>3. ASSUME NEW r \in Slot, r # s PROVE r \in InTotal' <=> r \in InTotal
      <4>1. block'[r] = block[r]
        BY <2>5, <3>3
      <4> DEFINE L == {"live", "total"} \cup PeakSteps
      <4>2. at[t].step \notin L /\ at'[t].step \notin L
        BY <2>1, <2>4 DEF PeakSteps
      <4>3. InTotal = OutOf(Slot, L) /\ InTotal' = OutOf(Slot, L)'
        BY DEF InTotal
      <4> HIDE DEF L
      <4>4. ASSUME NEW u \in Thread
            PROVE  (at'[u].step \in L => at'[u].slot # r) <=> (at[u].step \in L => at[u].slot # r)
        <5>1. CASE u = t
          BY <4>2, <5>1
        <5>2. CASE u # t
          BY <2>4, <5>2
        <5> QED BY <5>1, <5>2
      <4>5. r \in OutOf(Slot, L) <=> block[r].counted /\ \A u \in Thread : at[u].step \in L => at[u].slot # r
        BY <3>3 DEF OutOf
      <4>6. (r \in OutOf(Slot, L))' <=> block'[r].counted /\ \A u \in Thread : at'[u].step \in L => at'[u].slot # r
        BY <3>3 DEF OutOf, L
      <4> QED BY <4>1, <4>3, <4>4, <4>5, <4>6
    <3> QED BY <3>1, <3>2, <3>3 DEF InTotal, OutOf
  <2>9. \A r \in InLive' \cup InTotal' : block'[r] = block[r]
    BY <2>5, <2>7, <2>8 DEF InLive, InTotal, OutOf
  <2>10. LiveInv' /\ TotalInv' /\ total' \in Nat
    BY <1>t, <2>1, <2>2, <2>3, <2>7, <2>8, <2>9, LiveMoves, TotalMoves
  <2>11. TopInv'
    <3>1. at'[t].step \notin PeakSteps \cup HighSteps /\ at[t].step \notin PeakSteps \cup HighSteps
      BY <2>1, <2>4 DEF PeakSteps, HighSteps
    <3>2. ASSUME NEW u \in Thread, u # t, at[u].step \in PeakSteps \cup HighSteps
          PROVE  at'[u] = at[u] /\ Mine(u)' = Mine(u)
      <4>1. at[u].slot \in Slot /\ at[u].slot # s
        BY <3>2, <1>t, <2>2 DEF AttachInv, PeakSteps, HighSteps
      <4> QED BY <3>2, <4>1, <2>4, <2>5 DEF Mine
    <3> QED BY <2>1, <2>4, <3>1, <3>2, TopStays
  <2> QED BY <1>t, <2>1, <2>4, <2>5, <2>6, <2>10, <2>11 DEF ATypes, SumInv, NumTypes
<1>9. CASE Begin
  <2>1. /\ \A t \in Thread : at[t].step = "rest"
        /\ high' = total /\ peak' = live /\ topLive' = live /\ topTotal' = total
        /\ UNCHANGED <<live, total, block, at>>
    BY <1>9 DEF Begin, AllRest, FromHere
  <2>2. ATypes'
    BY <2>1, <1>t DEF ATypes, AtTypes, NumTypes, BlockTypes, AttachInv
  <2>3. InLive' = InLive /\ InTotal' = InTotal
    BY <2>1 DEF InLive, InTotal, OutOf
  <2>4. SumInv'
    BY <2>1, <2>3, SumStays
  <2>5. TopInv'
    BY <2>1 DEF TopInv, RiseInv, PeakInv, HighInv, PeakSteps, HighSteps
  <2> QED BY <2>2, <2>4, <2>5
<1>10. ASSUME UNCHANGED <<live, peak, total, high, block, at, tops>> PROVE ACInv'
  <2>1. ATypes'
    BY <1>10, <1>t DEF ATypes, AtTypes, NumTypes, BlockTypes, AttachInv
  <2>2. InLive' = InLive /\ InTotal' = InTotal
    BY <1>10 DEF InLive, InTotal, OutOf
  <2>3. SumInv'
    BY <1>10, <2>2, SumStays
  <2>4. TopInv'
    BY <1>10, TopStays DEF Mine
  <2> QED BY <2>1, <2>3, <2>4
<1>11. CASE Finish \/ Throw
  BY <1>10, <1>11 DEF Finish, Throw, EndCall
<1>12. CASE UNCHANGED avars
  BY <1>10, <1>12 DEF avars
<1> QED BY <1>1, <1>2, <1>3, <1>4, <1>5, <1>6, <1>7, <1>8, <1>9, <1>11, <1>12 DEF ANext

(* What finish reports is true of the call: its peaks are the largest      *)
(* values there were, however the exchanges of the threads interleaved,    *)
(* and its ends are the bytes still held (mem_vectors.hpp:29).             *)
THEOREM Truthful == ASpec => ReportsTruth
<1>1. ACInv /\ [ANext]_avars =>
        [report' # report =>
           /\ report'.high = topTotal /\ report'.total = Held(Category)
           /\ \A g \in Category : report'.peak[g] = topLive[g] /\ report'.live[g] = Held({g})]_avars
  <2> SUFFICES ASSUME ACInv, Finish
               PROVE  /\ report'.high = topTotal /\ report'.total = Held(Category)
                      /\ \A g \in Category : report'.peak[g] = topLive[g] /\ report'.live[g] = Held({g})
    BY DEF ANext, Begin, Throw, Ask, Release, AddLive, RisePeak, AddTotal, RiseHigh, SubLive, SubTotal
  <2>1. /\ \A t \in Thread : at[t].step = "rest"
        /\ report' = [high |-> high, peak |-> peak, total |-> total, live |-> live]
    BY DEF Finish, EndCall, AllRest
  <2>2. high = topTotal /\ \A g \in Category : peak[g] = topLive[g]
    BY <2>1 DEF ACInv, TopInv, PeakInv, HighInv, PeakSteps, HighSteps
  <2>3. /\ InTotal = {s \in Slot : block[s].counted /\ block[s].group \in Category}
        /\ \A g \in Category : Of(InLive, g) = {s \in Slot : block[s].counted /\ block[s].group \in {g}}
    BY <2>1 DEF ACInv, ATypes, BlockTypes, InTotal, InLive, OutOf, Of, PeakSteps
  <2>4. total = Held(Category) /\ \A g \in Category : live[g] = Held({g})
    BY <2>3, Zenon DEF ACInv, SumInv, TotalInv, LiveInv, Held
  <2> QED BY <2>1, <2>2, <2>4
<1>2. AInit => ACInv
  BY NothingAtTheStart
<1> QED BY <1>1, <1>2, ACHolds, PTL DEF ASpec, ReportsTruth
=============================================================================
