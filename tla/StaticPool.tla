------------------------------ MODULE StaticPool ------------------------------
(***************************************************************************)
(* The two pools without a ticket counter.  parallel (outtail) gives       *)
(* thread t the block t*n/nt .. (t+1)*n/nt - 1 and, unlike the ticket      *)
(* pools, joins the threads it started when a later start throws.  execute *)
(* (repack) gives thread t every nt-th index from a start that queue_seed  *)
(* rotates; its body cannot throw and the caller works as thread 0.        *)
(* One step is one index worked, or one access to the stop flag.           *)
(***************************************************************************)
EXTENDS Integers, FiniteSets

CONSTANTS MaxN,       \* bound on the number of indices
          MaxThreads, \* bound on the number of threads
          MaxSeed     \* bound on queue_seed

ASSUME StaticAssumption == /\ MaxN \in Nat /\ MaxThreads \in Nat \ {0}
                           /\ MaxSeed \in Nat

VARIABLES strided,     \* execute of repack, otherwise parallel of outtail
          n, nt, seed, \* the call's arguments
          bad,         \* the indices whose body throws
          main,        \* where the caller is
          pc,          \* where each thread is
          at,          \* the index each thread is about to work
          stop,        \* the atomic stop flag
          error,       \* the thread whose exception is kept, or -1
          writers      \* history: the threads that worked each index

args == <<strided, n, nt, seed, bad>>
vars == <<args, main, pc, at, stop, error, writers>>

Threads == 0 .. nt - 1
Index   == 0 .. n - 1

(* The first index of a thread, the one after i, and the end of its share. *)
Block(t) == (t * n) \div nt
First_RoundUp(t) == (t * n + nt - 1) \div nt
First(t) == IF strided THEN (t + (seed % nt)) % nt ELSE Block(t)
Stride   == IF strided THEN nt ELSE 1
End(t)   == IF strided THEN n ELSE Block(t + 1)

Init == /\ strided \in BOOLEAN
        /\ n \in 0 .. MaxN /\ nt \in 1 .. MaxThreads
        /\ seed \in (IF strided THEN 0 .. MaxSeed ELSE {0})
        /\ bad \in (IF strided THEN {{}} ELSE SUBSET Index)
        /\ main = "spawn"
        /\ pc = [t \in Threads |-> "unborn"]
        /\ at = [t \in Threads |-> First(t)]
        /\ stop = FALSE /\ error = -1
        /\ writers = [i \in Index |-> {}]

(* Threads start in order.  repack starts 1 .. nt-1 and is itself thread 0. *)
Spawned(t) == pc[t] # "unborn"
Spawn(t) == /\ main = "spawn"
            /\ ~Spawned(t)
            /\ IF strided THEN t # 0 ELSE TRUE
            /\ \A u \in Threads : u < t => Spawned(u) \/ (strided /\ u = 0)
            /\ pc' = [pc EXCEPT ![t] = "test"]
            /\ UNCHANGED <<args, main, at, stop, error, writers>>

AllSpawned == \A t \in Threads : Spawned(t) \/ (strided /\ t = 0)

StartJoin == /\ main = "spawn" /\ AllSpawned
             /\ main' = "join"
             /\ pc' = IF strided THEN [pc EXCEPT ![0] = "test"] ELSE pc
             /\ UNCHANGED <<args, at, stop, error, writers>>

(* A start throws.  parallel raises the stop flag, joins what it started   *)
(* and rethrows; repack has no handler, so a started thread is fatal.      *)
SpawnFails == /\ main = "spawn" /\ ~AllSpawned
              /\ IF strided
                   THEN /\ main' = IF \E t \in Threads : Spawned(t) THEN "terminated" ELSE "raised"
                        /\ UNCHANGED stop
                   ELSE main' = "unwind" /\ stop' = TRUE
              /\ UNCHANGED <<args, pc, at, error, writers>>

Alive == main \in {"spawn", "join", "unwind"}

(* i < end && !stop *)
Test(t) == /\ Alive /\ pc[t] = "test"
           /\ pc' = [pc EXCEPT ![t] = IF at[t] < End(t) /\ ~stop THEN "run" ELSE "exited"]
           /\ UNCHANGED <<args, main, at, stop, error, writers>>

(* f(i); i += stride *)
Work(t) == /\ Alive /\ pc[t] = "run"
           /\ at[t] \notin bad
           /\ writers' = [writers EXCEPT ![at[t]] = @ \cup {t}]
           /\ at' = [at EXCEPT ![t] = @ + Stride]
           /\ pc' = [pc EXCEPT ![t] = "test"]
           /\ UNCHANGED <<args, main, stop, error>>

(* f throws: stop=true, then the exception is kept under the lock. *)
Throw(t) == /\ Alive /\ pc[t] = "run"
            /\ at[t] \in bad
            /\ stop' = TRUE
            /\ pc' = [pc EXCEPT ![t] = "record"]
            /\ UNCHANGED <<args, main, at, error, writers>>

Record(t) == /\ Alive /\ pc[t] = "record"
             /\ error' = IF error = -1 THEN t ELSE error
             /\ pc' = [pc EXCEPT ![t] = "exited"]
             /\ UNCHANGED <<args, main, at, stop, writers>>

Step(t) == Test(t) \/ Work(t) \/ Throw(t) \/ Record(t)

Join == /\ main \in {"join", "unwind"}
        /\ \A t \in Threads : pc[t] \in {"unborn", "exited"}
        /\ main' = IF main = "join" /\ error = -1 THEN "returned" ELSE "raised"
        /\ UNCHANGED <<args, pc, at, stop, error, writers>>

Next == \/ \E t \in Threads : Spawn(t) \/ Step(t)
        \/ StartJoin \/ SpawnFails \/ Join

Spec == Init /\ [][Next]_vars

-----------------------------------------------------------------------------
(* The rounding of t*n/nt, or the rotated stride, leaves no index out and  *)
(* gives none to two threads, whatever the thread count (more threads than *)
(* indices included): each index of a returned call has one writer.  An    *)
(* index whose body throws has none, so no exception is lost either.  And  *)
(* a call that ended, by a failed start too, leaves no thread behind that  *)
(* still writes into the frame of the caller (outtail.cpp:63 joins in its  *)
(* handler).                                                               *)
SharesPartition ==
  /\ \A i \in Index : Cardinality(writers[i]) <= 1
  /\ main = "returned" => \A i \in Index : Cardinality(writers[i]) = 1
  /\ main \in {"returned", "raised"} => \A t \in Threads : pc[t] \in {"unborn", "exited"}
=============================================================================
