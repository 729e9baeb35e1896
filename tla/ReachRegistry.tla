---------------------------- MODULE ReachRegistry ----------------------------
(***************************************************************************)
(* full_raw_registry.hpp: the raw tables of the tail are files of 32 MiB,  *)
(* verified once, held by their descriptors and mapped on demand into a    *)
(* cache of two slots.  The workers of one native launch look values up    *)
(* concurrently: ex (outtail.cpp:55-57) first asks has without the mutex   *)
(* and then calls lookup, which answers false, and leaves ex with its      *)
(* predicted value, when the registry failed in between.                   *)
(*                                                                         *)
(* A lookup is one step: it runs under cache_mutex.  What it returns is    *)
(* told apart by where it came from: a file as registration verified it, a *)
(* file that changed since, or the prediction of ex.                       *)
(***************************************************************************)
EXTENDS Naturals, Sequences, FiniteSets, SequencesExt

CONSTANTS Member,   \* the registered files
          Worker,   \* the threads of a launch
          Slots,    \* CACHE_BLOCKS
          MaxWant,  \* bound on the lookups of one worker
          MaxClock, \* bound on the lookups of one registration
          None

ASSUME RegistryAssumption == Slots \in Nat \ {0} /\ MaxWant \in Nat /\ None \notin Member

VARIABLES registered, failed,
          changed, \* the files written to since they were verified
          cache,   \* the slots: a mapped member and its age, or member None
          clock,
          last,    \* history: when each member was last looked up, 0 if not since
                   \* the cache was dropped
          launch,  \* "none", "running", "returned", "raised"
          pc,      \* where each worker is
          want,    \* the members each worker has still to look up
          used     \* the values each worker went on with

files == <<registered, failed, changed>>
lru   == <<cache, clock, last>>
work  == <<pc, want, used>>
vars  == <<files, lru, launch, work>>

Empty == [i \in 1 .. Slots |-> [member |-> None, age |-> 0]]
Never == [m \in Member |-> 0]

Init == /\ registered = FALSE /\ failed = FALSE
        /\ changed = {}
        /\ cache = Empty /\ clock = 0 /\ last = Never
        /\ launch = "none"
        /\ pc = [w \in Worker |-> "done"]
        /\ want = [w \in Worker |-> <<>>]
        /\ used = [w \in Worker |-> {}]

DropCache == cache' = Empty /\ last' = Never
Clear == DropCache /\ registered' = FALSE /\ failed' = FALSE

(* init: the files are read, verified and held by descriptor, or the       *)
(* registration fails; it refuses a registry that was not cleared.         *)
Register == /\ launch # "running" /\ ~registered /\ ~failed
            /\ \/ changed = {} /\ registered' = TRUE /\ UNCHANGED failed
               \/ failed' = TRUE /\ UNCHANGED registered
            /\ clock' = 0
            /\ UNCHANGED <<changed, cache, last, launch, work>>

(* Somebody writes to a file: its change time is no longer the verified    *)
(* one.                                                                    *)
Touch(m) == /\ m \notin changed
            /\ changed' = changed \cup {m}
            /\ UNCHANGED <<registered, failed, lru, launch, work>>

(* A launch in the tail module: its workers look members up in some order. *)
Launch == /\ launch # "running" /\ registered
          /\ clock + MaxWant * Cardinality(Worker) <= MaxClock
          /\ \E f \in [Worker -> BoundedSeq(Member, MaxWant)] : want' = f
          /\ pc' = [w \in Worker |-> "has"]
          /\ used' = [w \in Worker |-> {}]
          /\ launch' = "running"
          /\ UNCHANGED <<files, lru>>

Member1(w) == Head(want[w])
Leave(w, how) == pc' = [pc EXCEPT ![w] = how] /\ UNCHANGED want
Ready == registered /\ ~failed

(* require(exneg || admitted || has(...)): throws once the registry failed *)
Has(w) == /\ pc[w] = "has"
          /\ Leave(w, IF want[w] = <<>> THEN "done" ELSE IF Ready THEN "lookup" ELSE "threw")
          /\ UNCHANGED <<files, lru, launch, used>>

Use(w, v) == /\ used' = [used EXCEPT ![w] = @ \cup {v}]
             /\ want' = [want EXCEPT ![w] = Tail(@)]
             /\ pc' = [pc EXCEPT ![w] = "has"]

(* lookup answers false: ex returns what it predicted. *)
LookupFalse(w) == /\ pc[w] = "lookup" /\ ~Ready
                  /\ Use(w, "predicted")
                  /\ UNCHANGED <<files, lru, launch>>

Value(m) == IF m \in changed THEN "changed" ELSE "verified"
SlotsOf(m) == {i \in DOMAIN cache : cache[i].member = m}
LookedUp(m) == clock' = clock + 1 /\ last' = [last EXCEPT ![m] = clock + 1]
(* A mapped member is read without looking at its descriptor. *)
Hit(w) == LET m == Member1(w) IN
  /\ pc[w] = "lookup" /\ Ready
  /\ \E i \in SlotsOf(m) : cache' = [cache EXCEPT ![i].age = clock + 1]
  /\ LookedUp(m)
  /\ Use(w, Value(m))
  /\ UNCHANGED <<files, launch>>

(* The first empty slot, else the one with the lowest age. *)
Free   == {i \in DOMAIN cache : cache[i].member = None}
Oldest == {i \in DOMAIN cache : \A j \in DOMAIN cache : cache[i].age <= cache[j].age}
First(S) == CHOOSE i \in S : \A j \in S : i <= j
Victim_First == 1
Victim == IF Free # {} THEN First(Free) ELSE First(Oldest)
(* A member that is not mapped: fstat must answer the verified identity.   *)
Unchanged(m) == m \notin changed
Miss(w) == LET m == Member1(w) IN
  /\ pc[w] = "lookup" /\ Ready /\ SlotsOf(m) = {}
  /\ Unchanged(m)
  /\ cache' = [cache EXCEPT ![Victim] = [member |-> m, age |-> clock + 1]]
  /\ LookedUp(m)
  /\ Use(w, Value(m))
  /\ UNCHANGED <<files, launch>>
(* The identity changed, or the mapping fails: the registry fails for      *)
(* everybody and the worker throws.                                        *)
MissFails(w) == LET m == Member1(w) IN
  /\ pc[w] = "lookup" /\ Ready /\ SlotsOf(m) = {}
  /\ failed' = TRUE
  /\ DropCache /\ UNCHANGED clock
  /\ Leave(w, "threw")
  /\ UNCHANGED <<registered, changed, launch, used>>

(* parallel joins the workers and rethrows; StageFailureReset clears the   *)
(* registry when the launch throws.                                        *)
Join_FirstWorker == /\ launch = "running"
                    /\ \A w \in Worker : pc[w] \in {"done", "threw"}
                    /\ LET w == CHOOSE w \in Worker : TRUE
                       IN  IF pc[w] = "threw" THEN launch' = "raised" /\ Clear
                           ELSE launch' = "returned" /\ UNCHANGED <<registered, failed, cache, last>>
                    /\ UNCHANGED <<changed, clock, work>>
Join == /\ launch = "running"
        /\ \A w \in Worker : pc[w] \in {"done", "threw"}
        /\ IF \E w \in Worker : pc[w] = "threw"
             THEN launch' = "raised" /\ Clear
             ELSE launch' = "returned" /\ UNCHANGED <<registered, failed, cache, last>>
        /\ UNCHANGED <<changed, clock, work>>

(* clear_tables after a launch drops the cache; the retirement of a frame  *)
(* clears the registry.                                                    *)
ClearTables == /\ launch # "running" /\ DropCache
               /\ UNCHANGED <<files, clock, launch, work>>
ReachClear  == /\ launch # "running" /\ Clear
               /\ UNCHANGED <<changed, clock, launch, work>>

Next == \/ Register \/ Launch \/ Join \/ ClearTables \/ ReachClear
        \/ \E m \in Member : Touch(m)
        \/ \E w \in Worker : Has(w) \/ LookupFalse(w) \/ Hit(w) \/ Miss(w) \/ MissFails(w)

Spec == Init /\ [][Next]_vars

-----------------------------------------------------------------------------
(* The cache is the least-recently-used one it means to be: it holds the   *)
(* members looked up most recently, each in one slot, whatever was mapped, *)
(* evicted and dropped before (full_raw_registry.hpp:36-37): a member that *)
(* was looked up is gone only from a full cache of later ones.             *)
Cached == {cache[i].member : i \in DOMAIN cache} \ {None}
HoldsMostRecent ==
  /\ \A i, j \in DOMAIN cache : i # j /\ cache[i].member # None => cache[i].member # cache[j].member
  /\ \A m \in Cached : last[m] > 0
  /\ \A m \in Member \ Cached : last[m] > 0 => Free = {} /\ \A c \in Cached : last[m] < last[c]

(* A launch that returns never went on with a predicted value: when has    *)
(* said yes and lookup no, another worker threw, and the launch raises.    *)
ReturnedIsExact == launch = "returned" => \A w \in Worker : "predicted" \notin used[w]

(* "checks fd stat identity before lookup" (backend_abi.py:278): a         *)
(* launch goes on with no value of a file that changed after it was        *)
(* verified.                                                               *)
StatBeforeLookup == \A w \in Worker : "changed" \notin used[w]
=============================================================================
