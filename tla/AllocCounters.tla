---------------------------- MODULE AllocCounters ----------------------------
(***************************************************************************)
(* The allocation counters of a chain module (mem_vectors.hpp, three equal *)
(* copies): every operator new of the module goes through request, every   *)
(* delete through release, on whatever thread it happens; an execute call  *)
(* begins a measurement, runs its workers, joins them, and reports.        *)
(*                                                                         *)
(* Blocks live in slots.  A block remembers in its header whether it was   *)
(* counted, for it may outlive its call and be freed during another one.   *)
(* Every atomic operation on a counter is a step of its own.  One call of  *)
(* a module runs at a time, as the drivers' single worker makes it.        *)
(***************************************************************************)
EXTENDS Integers, FiniteSets

CONSTANTS Main, Hand,      \* the calling thread and the workers of a call
          Slot,            \* room for blocks at once
          Category, Kind,  \* categories; the requests made: [bytes, group]
          MaxCalls,        \* bound: measurements
          MaxRequests      \* bound: requests of one call or pause

ASSUME AllocAssumption == /\ Main \notin Hand /\ IsFiniteSet(Slot)
                          /\ Kind \subseteq [bytes : Nat \ {0}, group : Category]

Thread == Hand \cup {Main}
NoBlock  == [bytes |-> 0, counted |-> FALSE]
Rest   == [step |-> "rest", slot |-> 0, sum |-> 0, old |-> 0]

VARIABLES live, peak, total, high, active,  \* the globals of chain_mem
          block,   \* slot -> header of the block in it, or NoBlock
          at,      \* thread -> what it is doing inside request or release
          call,    \* "out" of a call, or "in" one
          calls, requests,
          topLive, topTotal,  \* the largest values since begin (history)
          report   \* what finish returned last, or <<>>

counters == <<live, peak, total, high, active>>
tops     == <<topLive, topTotal>>
avars    == <<counters, block, at, call, calls, requests, tops, report>>

AInit ==
  /\ live = [g \in Category |-> 0] /\ peak = live /\ total = 0 /\ high = 0 /\ active = FALSE
  /\ block = [s \in Slot |-> NoBlock] /\ at = [t \in Thread |-> Rest]
  /\ call = "out" /\ calls = 0 /\ requests = 0
  /\ topLive = live /\ topTotal = 0 /\ report = <<>>

AllRest    == \A t \in Thread : at[t].step = "rest"
Running(t) == call = "in" \/ t = Main
Enter(t, step, slot) == at' = [at EXCEPT ![t] = [Rest EXCEPT !.step = step, !.slot = slot]]
Mine(t)    == block[at[t].slot]
Bigger(a, b) == IF a > b THEN a ELSE b

-----------------------------------------------------------------------------
(* request: the header takes the thread's group and the flag as it is now. *)
HeaderOf(k)  == [bytes |-> k.bytes, group |-> k.group, counted |-> active]
Ask(t, s, k) ==
  /\ Running(t) /\ at[t].step = "rest" /\ block[s] = NoBlock /\ requests < MaxRequests
  /\ block' = [block EXCEPT ![s] = HeaderOf(k)]
  /\ requests' = requests + 1
  /\ IF active THEN Enter(t, "live", s) ELSE UNCHANGED at
  /\ UNCHANGED <<counters, call, calls, tops, report>>

(* fetch_add(n) + n, the argument of the rise that follows. *)
AddLive(t) == LET b == Mine(t) IN
  /\ at[t].step = "live"
  /\ live' = [live EXCEPT ![b.group] = @ + b.bytes]
  /\ topLive' = [topLive EXCEPT ![b.group] = Bigger(@, live'[b.group])]
  /\ at' = [at EXCEPT ![t].step = "load peak", ![t].sum = live'[b.group]]
  /\ UNCHANGED <<peak, total, high, active, block, call, calls, requests, topTotal, report>>
AddTotal(t) ==
  /\ at[t].step = "total"
  /\ total' = total + Mine(t).bytes
  /\ topTotal' = Bigger(topTotal, total')
  /\ at' = [at EXCEPT ![t].step = "load high", ![t].sum = total']
  /\ UNCHANGED <<live, peak, high, active, block, call, calls, requests, topLive, report>>

(* rise: load once, then exchange until that succeeds or the value there   *)
(* is as large.                                                            *)
Done(t, step) == at' = [at EXCEPT ![t] = IF step = "rest" THEN Rest ELSE [Rest EXCEPT !.step = step, !.slot = at[t].slot]]
Goes(t, loaded, swap, done) ==
  IF at[t].sum > loaded THEN at' = [at EXCEPT ![t].old = loaded, ![t].step = swap] ELSE Done(t, done)
Swaps_Blind(p, old) == TRUE
Swaps(p, old)       == p = old
RisePeak(t) == LET g == Mine(t).group IN
  /\ \/ at[t].step = "load peak" /\ Goes(t, peak[g], "swap peak", "total") /\ UNCHANGED peak
     \/ /\ at[t].step = "swap peak"
        /\ IF Swaps(peak[g], at[t].old)
             THEN peak' = [peak EXCEPT ![g] = at[t].sum] /\ Done(t, "total")
             ELSE Goes(t, peak[g], "swap peak", "total") /\ UNCHANGED peak
  /\ UNCHANGED <<live, total, high, active, block, call, calls, requests, tops, report>>
RiseHigh(t) ==
  /\ \/ at[t].step = "load high" /\ Goes(t, high, "swap high", "rest") /\ UNCHANGED high
     \/ /\ at[t].step = "swap high"
        /\ IF Swaps(high, at[t].old)
             THEN high' = at[t].sum /\ Done(t, "rest")
             ELSE Goes(t, high, "swap high", "rest") /\ UNCHANGED high
  /\ UNCHANGED <<live, peak, total, active, block, call, calls, requests, tops, report>>

(* release: by any thread, of any block that was handed out; it asks the   *)
(* header, not the flag, whether to count.  The block is freed last.       *)
Counted(b)     == b.counted
Busy == {at[t].slot : t \in {u \in Thread : at[u].step # "rest"}}
Release(t, s) ==
  /\ Running(t) /\ at[t].step = "rest" /\ block[s] # NoBlock /\ s \notin Busy
  /\ IF Counted(block[s])
       THEN Enter(t, "unlive", s) /\ UNCHANGED block
       ELSE block' = [block EXCEPT ![s] = NoBlock] /\ UNCHANGED at
  /\ UNCHANGED <<counters, call, calls, requests, tops, report>>
SubLive(t) == LET b == Mine(t) IN
  /\ at[t].step = "unlive"
  /\ live' = [live EXCEPT ![b.group] = @ - b.bytes]
  /\ Done(t, "untotal")
  /\ UNCHANGED <<peak, total, high, active, block, call, calls, requests, tops, report>>
SubTotal(t) ==
  /\ at[t].step = "untotal"
  /\ total' = total - Mine(t).bytes
  /\ block' = [block EXCEPT ![at[t].slot] = NoBlock]
  /\ Done(t, "rest")
  /\ UNCHANGED <<live, peak, high, active, call, calls, requests, tops, report>>

-----------------------------------------------------------------------------
(* execute: begin before the original, finish after it has returned and    *)
(* its workers are joined; a throw only turns the counting off.            *)
FromHere == high' = total /\ peak' = live
Begin ==
  /\ call = "out" /\ AllRest /\ calls < MaxCalls
  /\ FromHere
  /\ active' = TRUE /\ call' = "in" /\ calls' = calls + 1 /\ requests' = 0
  /\ topLive' = live /\ topTotal' = total
  /\ UNCHANGED <<live, total, block, at, report>>
EndCall == /\ call = "in" /\ AllRest
           /\ active' = FALSE /\ call' = "out" /\ requests' = 0
           /\ UNCHANGED <<live, peak, total, high, block, at, calls, tops>>
Finish == /\ EndCall
          /\ report' = [high |-> high, peak |-> peak, total |-> total, live |-> live]
Throw  == EndCall /\ UNCHANGED report

ANext == \/ Begin \/ Finish \/ Throw
         \/ \E t \in Thread :
              \/ \E s \in Slot, k \in Kind : Ask(t, s, k)
              \/ \E s \in Slot : Release(t, s)
              \/ AddLive(t) \/ RisePeak(t) \/ AddTotal(t) \/ RiseHigh(t) \/ SubLive(t) \/ SubTotal(t)

ASpec == AInit /\ [][ANext]_avars

-----------------------------------------------------------------------------
(* "Numerical call's module-local C++ new/new[] requests"                  *)
(* (mem_vectors.hpp:29): what finish reports is the true peak of the call, *)
(* of the total and of each category, however the workers' additions and   *)
(* exchanges interleaved, and its end values are the counted bytes that    *)
(* are still held, also those of earlier calls.                            *)
BytesOf(S)   == UNION {{s} \X (1 .. block[s].bytes) : s \in S}
Held(groups) == Cardinality(BytesOf({s \in Slot : block[s].counted /\ block[s].group \in groups}))
ReportsTruth == [][report' # report =>
                     /\ report'.high = topTotal /\ report'.total = Held(Category)
                     /\ \A g \in Category : report'.peak[g] = topLive[g] /\ report'.live[g] = Held({g})]_avars
=============================================================================
