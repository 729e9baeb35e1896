------------------------------ MODULE TicketPool ------------------------------
(***************************************************************************)
(* The ticket pool of execute_prepared (split16), execute_attention,       *)
(* execute_original (ffn_expand) and par (entry): the store map is checked *)
(* for exclusive and complete ownership of the output, threads are         *)
(* started, each takes tickets from one atomic counter, an exception is    *)
(* kept for the caller, and the caller joins every thread before it reads  *)
(* the output or rethrows.                                                 *)
(*                                                                         *)
(* One step is one access to a variable shared by the threads: a test of   *)
(* the fail flag, a fetch_add, a store to one cell of the output, the      *)
(* raising of the flag, the locked update of the exception pointer.  A     *)
(* cell stands for the 16 bytes of one store.                              *)
(*                                                                         *)
(* An operator Name_Variant is a slip a maintainer could make in Name; it  *)
(* is used by no specification, and PROJECT.json names the property that   *)
(* catches it.                                                             *)
(***************************************************************************)
EXTENDS Integers, FiniteSets

CONSTANTS Thread,      \* the threads emplace_back starts
          Caller,      \* the thread that called execute
          Task,        \* the (cta, warp) pairs of the launch
          Cell,        \* the output, in units of one store
          StoreMaps,   \* the store maps a caller may pass
          None,        \* the null exception_ptr
          FailFast,    \* a worker tests the fail flag before each ticket
          CallerWorks, \* the caller takes tickets as well
          SkipIdle     \* a task without a store is not queued

Worker == IF CallerWorks THEN Thread \cup {Caller} ELSE Thread

ASSUME PoolAssumption ==
  /\ IsFiniteSet(Task)
  /\ Caller \notin Thread
  /\ Worker # {}
  /\ None \notin Worker
  /\ StoreMaps \subseteq [Task -> SUBSET Cell]
  /\ FailFast \in BOOLEAN /\ CallerWorks \in BOOLEAN /\ SkipIdle \in BOOLEAN

VARIABLES own,    \* the store map of this call: which cells a task stores to
          bad,    \* the tasks whose evaluation throws
          broken, \* the template itself is refused when a worker is built
          queue,  \* the shuffled task list
          main,   \* where the caller is
          next,   \* the atomic ticket counter
          fail,   \* the atomic fail flag
          ep,     \* the worker whose exception is kept, or None
          pc,     \* where each worker is
          ix,     \* the ticket each worker holds
          todo,   \* the cells each worker has still to store
          out,    \* the task whose bytes each cell holds, or None
          done    \* the tickets worked to their end

input  == <<own, bad, broken>>
shared == <<next, fail, ep, out, done>>
vars   == <<input, queue, main, shared, pc, ix, todo>>

-----------------------------------------------------------------------------
(* Disjoint and complete: no cell has two owners and none has no owner.    *)
Exclusive_Unchecked(f) == TRUE
Exclusive(f) == \A s, t \in Task : s # t => f[s] \cap f[t] = {}
Complete_Unchecked(f) == TRUE
Complete(f)  == \A c \in Cell : \E t \in Task : c \in f[t]

(* The queued tasks, in an order queue_seed selects. *)
Queued(f) == IF SkipIdle THEN {t \in Task : f[t] # {}} ELSE Task
Orders(S) == {q \in [1 .. Cardinality(S) -> S] :
                /\ \A i, j \in 1 .. Cardinality(S) : q[i] = q[j] => i = j
                /\ \A t \in S : \E i \in 1 .. Cardinality(S) : q[i] = t}

Init == /\ own \in StoreMaps
        /\ bad \in SUBSET Task
        /\ broken \in BOOLEAN
        /\ queue = [i \in {} |-> None]
        /\ main = "check"
        /\ next = 0 /\ fail = FALSE /\ ep = None
        /\ pc = [w \in Worker |-> "unborn"]
        /\ ix = [w \in Worker |-> 0]
        /\ todo = [w \in Worker |-> {}]
        /\ out = [c \in Cell |-> None]
        /\ done = {}

(* The cover loop: "output ownership collision" and "output coverage       *)
(* incomplete" are thrown before any thread exists.                        *)
CheckMap ==
  /\ main = "check"
  /\ \/ /\ ~(Exclusive(own) /\ Complete(own))
        /\ main' = "raised"
        /\ UNCHANGED queue
     \/ /\ Exclusive(own) /\ Complete(own)
        /\ queue' \in Orders(Queued(own))
        /\ main' = "spawn"
  /\ UNCHANGED <<input, shared, pc, ix, todo>>

Move(w, to) == pc' = [pc EXCEPT ![w] = to]

(* pool.emplace_back(work) *)
Spawn(t) == /\ main = "spawn"
            /\ pc[t] = "unborn"
            /\ Move(t, "build")
            /\ UNCHANGED <<input, queue, main, shared, ix, todo>>

(* std::thread throws: unwinding destroys the vector, and a joinable       *)
(* thread in it ends the process.                                          *)
SpawnFails == /\ main = "spawn"
              /\ \E t \in Thread : pc[t] = "unborn"
              /\ main' = IF \A t \in Thread : pc[t] = "unborn" THEN "raised"
                                                               ELSE "terminated"
              /\ UNCHANGED <<input, queue, shared, pc, ix, todo>>

(* Every thread exists: the caller works, then joins. *)
StartJoin == /\ main = "spawn"
             /\ \A t \in Thread : pc[t] # "unborn"
             /\ main' = "join"
             /\ IF CallerWorks THEN Move(Caller, "build") ELSE UNCHANGED pc
             /\ UNCHANGED <<input, queue, shared, ix, todo>>

-----------------------------------------------------------------------------
Alive == main \in {"spawn", "join"}

(* The worker object and setup_atoms. *)
Build(w) == /\ Alive /\ pc[w] = "build"
            /\ Move(w, IF broken THEN "caught" ELSE "test")
            /\ UNCHANGED <<input, queue, main, shared, ix, todo>>

(* while(!fail) *)
Test(w) == /\ Alive /\ pc[w] = "test"
           /\ Move(w, IF FailFast /\ fail THEN "exited" ELSE "claim")
           /\ UNCHANGED <<input, queue, main, shared, ix, todo>>

Claim_NoBreak(w) ==
  /\ Alive /\ pc[w] = "claim"
  /\ IF next + 1 \in DOMAIN queue
       THEN /\ next' = next + 1
            /\ ix' = [ix EXCEPT ![w] = next + 1]
            /\ todo' = [todo EXCEPT ![w] = own[queue[next + 1]]]
            /\ Move(w, "run")
       ELSE Move(w, "test") /\ UNCHANGED <<next, ix, todo>>
  /\ UNCHANGED <<input, queue, main, fail, ep, out, done>>
(* ix = next.fetch_add(1); if(ix >= tasks.size()) break *)
Claim(w) ==
  /\ Alive /\ pc[w] = "claim"
  /\ next' = next + 1
  /\ \/ /\ next + 1 \in DOMAIN queue
        /\ ix' = [ix EXCEPT ![w] = next + 1]
        /\ todo' = [todo EXCEPT ![w] = own[queue[next + 1]]]
        /\ Move(w, "run")
     \/ /\ next + 1 \notin DOMAIN queue
        /\ Move(w, "exited")
        /\ UNCHANGED <<ix, todo>>
  /\ UNCHANGED <<input, queue, main, fail, ep, out, done>>

(* One 16-byte store of the task. *)
Store(w) == /\ Alive /\ pc[w] = "run"
            /\ \E c \in todo[w] :
                 /\ out' = [out EXCEPT ![c] = queue[ix[w]]]
                 /\ todo' = [todo EXCEPT ![w] = @ \ {c}]
            /\ UNCHANGED <<input, queue, main, next, fail, ep, done, pc, ix>>

Finish(w) == /\ Alive /\ pc[w] = "run" /\ todo[w] = {}
             /\ queue[ix[w]] \notin bad
             /\ done' = done \cup {ix[w]}
             /\ Move(w, "test")
             /\ UNCHANGED <<input, queue, main, next, fail, ep, out, ix, todo>>

(* The task throws, before, between or after its stores. *)
Throw(w) == /\ Alive /\ pc[w] = "run"
            /\ queue[ix[w]] \in bad
            /\ Move(w, "caught")
            /\ UNCHANGED <<input, queue, main, shared, ix, todo>>

(* catch(...){fail=true; *)
RaiseFlag(w) == /\ Alive /\ pc[w] = "caught"
                /\ fail' = FailFast
                /\ Move(w, "record")
                /\ UNCHANGED <<input, queue, main, next, ep, out, done, ix, todo>>

Record_Dropped(w) == /\ Alive /\ pc[w] = "record"
                     /\ Move(w, "exited")
                     /\ UNCHANGED <<input, queue, main, shared, ix, todo>>
(* lock_guard guard(error_lock); if(!ep) ep = current_exception();} *)
Record(w) == /\ Alive /\ pc[w] = "record"
             /\ ep' = IF ep = None THEN w ELSE ep
             /\ Move(w, "exited")
             /\ UNCHANGED <<input, queue, main, next, fail, out, done, ix, todo>>

Join_FirstExit == /\ main = "join"
                  /\ \E w \in Worker : pc[w] = "exited"
                  /\ main' = IF ep = None THEN "returned" ELSE "raised"
                  /\ UNCHANGED <<input, queue, shared, pc, ix, todo>>
Join == /\ main = "join"
        /\ \A w \in Worker : pc[w] = "exited"
        /\ main' = IF ep = None THEN "returned" ELSE "raised"
        /\ UNCHANGED <<input, queue, shared, pc, ix, todo>>

Step(w) == \/ Build(w) \/ Test(w) \/ Claim(w) \/ Store(w) \/ Finish(w)
           \/ Throw(w) \/ RaiseFlag(w) \/ Record(w)

Next == \/ CheckMap \/ (\E t \in Thread : Spawn(t)) \/ SpawnFails \/ StartJoin
        \/ (\E w \in Worker : Step(w)) \/ Join

Spec == Init /\ [][Next]_vars

(* The operating system runs every started thread, and the caller is never *)
(* suspended for ever; a thread start need not fail.                       *)
FairSpec == /\ Spec
            /\ \A w \in Worker : WF_vars(Step(w))
            /\ WF_vars(CheckMap \/ (\E t \in Thread : Spawn(t)) \/ StartJoin \/ Join)

-----------------------------------------------------------------------------
Place == {"unborn", "build", "test", "claim", "run", "caught", "record", "exited"}

TypeOK == /\ own \in StoreMaps
          /\ bad \in SUBSET Task /\ broken \in BOOLEAN
          /\ main \in {"check", "spawn", "join", "returned", "raised", "terminated"}
          /\ DOMAIN queue = {} \/ queue \in Orders(Queued(own))
          /\ next \in Nat /\ fail \in BOOLEAN
          /\ ep \in Worker \cup {None}
          /\ pc \in [Worker -> Place]
          /\ ix \in [Worker -> Nat]
          /\ todo \in [Worker -> SUBSET Cell]
          /\ out \in [Cell -> Task \cup {None}]
          /\ done \subseteq DOMAIN queue

Running(w) == pc[w] = "run"

(* A call that returns produced every byte, each by the one task that owns *)
(* it: the result does not depend on the interleaving, the number of       *)
(* threads or queue_seed (scalar_map.hpp:336).                             *)
ReturnedComplete ==
  main = "returned" =>
    \A c \in Cell : /\ \E t \in Task : c \in own[t]
                    /\ \A t \in Task : c \in own[t] => out[c] = t

(* An exception thrown by any task or worker reaches the caller: a call    *)
(* never returns bytes when one of the queued tasks throws                 *)
(* (scalar_map.hpp:335,338).                                               *)
NoSilentFailure ==
  main = "returned" => ~broken /\ \A i \in DOMAIN queue : queue[i] \notin bad

(* Two workers never store to the same cell: stores need no lock because   *)
(* tickets are unique and the owners were checked (ffn_expand:310).        *)
NoStoreRace ==
  \A v, w \in Worker :
    v # w /\ Running(v) /\ Running(w)
      => own[queue[ix[v]]] \cap own[queue[ix[w]]] = {}

(* No thread outlives the call: it holds references to locals of execute.  *)
NoDanglingThread ==
  main \in {"returned", "raised"} => \A w \in Worker : pc[w] \in {"unborn", "exited"}

(* Every call ends, whatever its tasks throw. *)
Terminates == <>(main \in {"returned", "raised", "terminated"})

(***************************************************************************)
(* The inductive invariant.  A failure is in progress or recorded from the *)
(* moment a worker catches an exception.                                   *)
(***************************************************************************)
Failing == ep # None \/ \E w \in Worker : pc[w] \in {"caught", "record"}

CheckedInv  == main \in {"spawn", "join", "returned"} =>
                 Exclusive(own) /\ Complete(own) /\ queue \in Orders(Queued(own))
PhaseInv    == /\ main = "check" => /\ next = 0 /\ DOMAIN queue = {}
                                    /\ \A w \in Worker : pc[w] = "unborn"
               /\ main = "spawn" /\ CallerWorks => pc[Caller] = "unborn"
               /\ main = "returned" => ep = None /\ \A w \in Worker : pc[w] = "exited"
ActiveInv   == \A w \in Worker : pc[w] # "unborn" =>
                 main # "check" /\ Exclusive(own) /\ queue \in Orders(Queued(own))
TicketInv   == \A w \in Worker : Running(w) =>
                 /\ ix[w] \in DOMAIN queue /\ ix[w] <= next /\ ix[w] \notin done
                 /\ todo[w] \subseteq own[queue[ix[w]]]
UniqueInv   == \A v, w \in Worker : v # w /\ Running(v) /\ Running(w) => ix[v] # ix[w]
DoneInv     == \A i \in done : i <= next /\ queue[i] \notin bad
AccountInv  == \A i \in DOMAIN queue : i <= next =>
                 i \in done \/ Failing \/ \E w \in Worker : Running(w) /\ ix[w] = i
StoredInv   == /\ \A i \in done : \A c \in own[queue[i]] : out[c] = queue[i]
               /\ \A w \in Worker : Running(w) =>
                    \A c \in own[queue[ix[w]]] \ todo[w] : out[c] = queue[ix[w]]
FlagInv     == fail => Failing
ExitInv     == \A w \in Worker : pc[w] = "exited" =>
                 Failing \/ \A i \in DOMAIN queue : i <= next
BrokenInv   == broken => \A w \in Worker :
                 /\ pc[w] \in {"unborn", "build", "caught", "record", "exited"}
                 /\ pc[w] = "exited" => ep # None

IInv == /\ TypeOK /\ CheckedInv /\ ActiveInv /\ PhaseInv /\ NoDanglingThread
        /\ TicketInv /\ UniqueInv /\ DoneInv /\ AccountInv /\ StoredInv
        /\ FlagInv /\ ExitInv /\ BrokenInv

(* The pool implements the abstract parallel loop. *)
AbsResult == CASE main = "check"               -> "new"
               [] main \in {"spawn", "join"}   -> "running"
               [] main = "returned"            -> "ok"
               [] main = "raised"              -> "error"
               [] main = "terminated"          -> "abort"
AbsPlan == {queue[i] : i \in DOMAIN queue}
AbsDone == {queue[i] : i \in done}
Abs == INSTANCE ParallelFor WITH plan <- AbsPlan, done <- AbsDone, result <- AbsResult
Implements == Abs!Spec
=============================================================================
