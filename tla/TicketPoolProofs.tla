-------------------------- MODULE TicketPoolProofs --------------------------
(***************************************************************************)
(* The ticket pool for any number of threads and tasks, any store map the  *)
(* wiring may hold and any order of the queue.  The invariant of           *)
(* TicketPool accounts for every ticket below the counter: it is finished, *)
(* or a worker runs it, or some worker is on its way to report a failure.  *)
(* A worker leaves its loop only on a failure or past the last ticket, so  *)
(* after the join no failure means that every task is finished.            *)
(***************************************************************************)
EXTENDS TicketPool, FiniteSetTheorems, TLAPS

(* An order of a finite set of tasks lists each of them exactly once.       *)
LEMMA OrdersFact ==
  ASSUME NEW S, IsFiniteSet(S), NEW q \in Orders(S)
  PROVE  /\ Cardinality(S) \in Nat
         /\ DOMAIN q = 1 .. Cardinality(S)
         /\ \A i \in DOMAIN q : q[i] \in S
         /\ \A i, j \in DOMAIN q : q[i] = q[j] => i = j
         /\ \A t \in S : \E i \in DOMAIN q : q[i] = t
  BY FS_CardinalityType DEF Orders

(* What is queued is a finite set of tasks. *)
LEMMA QueuedFact ==
  ASSUME NEW f PROVE Queued(f) \subseteq Task /\ IsFiniteSet(Queued(f))
  BY PoolAssumption, FS_Subset DEF Queued

(* In every typed state the queue is a finite sequence of tasks.            *)
LEMMA QueueFact ==
  ASSUME TypeOK
  PROVE  /\ \A i \in DOMAIN queue : queue[i] \in Task /\ i \in Nat /\ i > 0
         /\ \A i, j \in DOMAIN queue : queue[i] = queue[j] => i = j
         /\ \A k \in Nat : k + 1 \notin DOMAIN queue => \A i \in DOMAIN queue : i <= k
<1>1. CASE DOMAIN queue = {}
  BY <1>1
<1>2. CASE queue \in Orders(Queued(own))
  BY <1>2, OrdersFact, QueuedFact
<1> QED BY <1>1, <1>2 DEF TypeOK

(* The invariant holds before the first step. *)
LEMMA InitInv == Init => IInv
<1> SUFFICES ASSUME Init PROVE IInv
  OBVIOUS
<1> USE PoolAssumption DEF Init
<1>0. DOMAIN queue = {}
  OBVIOUS
<1>1. TypeOK
  BY <1>0 DEF TypeOK, Place
<1>2. CheckedInv /\ ActiveInv /\ PhaseInv /\ NoDanglingThread
  BY <1>0 DEF CheckedInv, ActiveInv, PhaseInv, NoDanglingThread
<1>3. TicketInv /\ UniqueInv /\ DoneInv /\ AccountInv /\ StoredInv
  BY <1>0 DEF TicketInv, UniqueInv, DoneInv, AccountInv, StoredInv, Running
<1>4. FlagInv /\ ExitInv /\ BrokenInv
  BY DEF FlagInv, ExitInv, BrokenInv
<1> QED BY <1>1, <1>2, <1>3, <1>4 DEF IInv

(* Every step of the caller and of every worker preserves the invariant.   *)
LEMMA NextInv == IInv /\ [Next]_vars => IInv'
<1> SUFFICES ASSUME IInv, [Next]_vars PROVE IInv'
  OBVIOUS
<1>q. /\ \A i \in DOMAIN queue : queue[i] \in Task /\ i \in Nat /\ i > 0
      /\ \A i, j \in DOMAIN queue : queue[i] = queue[j] => i = j
      /\ \A k \in Nat : k + 1 \notin DOMAIN queue => \A i \in DOMAIN queue : i <= k
  BY QueueFact DEF IInv
<1> USE PoolAssumption DEF Running, Failing, Alive, Move, input, shared

<1>1. ASSUME CheckMap PROVE IInv'
  <2> USE <1>1 DEF IInv, CheckMap
  <2>1. TypeOK'
    BY DEF TypeOK, PhaseInv
  <2>2. CheckedInv'
    BY <1>q DEF CheckedInv
  <2>3. ActiveInv'
    BY <1>q DEF ActiveInv, PhaseInv, CheckedInv, TypeOK, Place
  <2>4. PhaseInv'
    BY DEF PhaseInv, Worker
  <2>5. NoDanglingThread'
    BY <1>q DEF NoDanglingThread, PhaseInv, TypeOK, Place
  <2>6. TicketInv'
    BY DEF PhaseInv, TicketInv
  <2>7. UniqueInv'
    BY <1>q DEF UniqueInv, TicketInv, TypeOK, Place
  <2>8. DoneInv'
    BY DEF PhaseInv, DoneInv, TypeOK
  <2>9. AccountInv'
    <3>1. \A i \in DOMAIN queue' : i > 0
      BY <2>1, QueueFact, OrdersFact, QueuedFact DEF PhaseInv
    <3> QED BY <3>1 DEF PhaseInv, AccountInv
  <2>10. StoredInv'
    BY DEF PhaseInv, StoredInv, TypeOK
  <2>11. FlagInv'
    BY <1>q DEF FlagInv, TypeOK, Place
  <2>12. ExitInv'
    BY DEF PhaseInv, ExitInv
  <2>13. BrokenInv'
    BY <1>q DEF BrokenInv, TypeOK, Place
  <2> QED BY <2>1, <2>2, <2>3, <2>4, <2>5, <2>6, <2>7, <2>8, <2>9, <2>10, <2>11, <2>12, <2>13
<1>2. ASSUME NEW t \in Thread, Spawn(t) PROVE IInv'
  <2> USE <1>2 DEF IInv, Spawn
  <2>1. TypeOK'
    BY <1>q DEF TypeOK, TicketInv, Place
  <2>2. CheckedInv'
    BY <1>q DEF CheckedInv
  <2>3. ActiveInv'
    BY <1>q DEF ActiveInv, PhaseInv, CheckedInv, TypeOK, Place
  <2>4. PhaseInv'
    BY <1>q DEF PhaseInv, TypeOK, Place
  <2>5. NoDanglingThread'
    BY <1>q DEF NoDanglingThread, PhaseInv, TypeOK, Place
  <2>6. TicketInv'
    BY <1>q DEF TicketInv, UniqueInv, TypeOK, DoneInv, Place
  <2>7. UniqueInv'
    BY <1>q DEF UniqueInv, TicketInv, TypeOK, Place
  <2>8. DoneInv'
    BY <1>q DEF DoneInv, TypeOK, TicketInv, Place
  <2>9. AccountInv'
    BY <1>q DEF AccountInv, TypeOK, TicketInv, Place
  <2>10. StoredInv'
    BY <1>q DEF StoredInv, TypeOK, TicketInv, UniqueInv, DoneInv, CheckedInv, Exclusive, Place
  <2>11. FlagInv'
    BY <1>q DEF FlagInv, TypeOK, Place
  <2>12. ExitInv'
    BY <1>q DEF ExitInv, TypeOK, FlagInv, Place
  <2>13. BrokenInv'
    BY <1>q DEF BrokenInv, TypeOK, Place
  <2> QED BY <2>1, <2>2, <2>3, <2>4, <2>5, <2>6, <2>7, <2>8, <2>9, <2>10, <2>11, <2>12, <2>13
<1>3. ASSUME SpawnFails PROVE IInv'
  <2> USE <1>3 DEF IInv, SpawnFails
  <2>1. TypeOK'
    BY <1>q DEF TypeOK, TicketInv, Place
  <2>2. CheckedInv'
    BY <1>q DEF CheckedInv
  <2>3. ActiveInv'
    BY <1>q DEF ActiveInv, PhaseInv, CheckedInv, TypeOK, Place
  <2>4. PhaseInv'
    BY <1>q DEF PhaseInv, TypeOK, Place
  <2>5. NoDanglingThread'
    BY DEF NoDanglingThread, PhaseInv, TypeOK, Worker
  <2>6. TicketInv'
    BY <1>q DEF TicketInv, UniqueInv, TypeOK, DoneInv, Place
  <2>7. UniqueInv'
    BY <1>q DEF UniqueInv, TicketInv, TypeOK, Place
  <2>8. DoneInv'
    BY <1>q DEF DoneInv, TypeOK, TicketInv, Place
  <2>9. AccountInv'
    BY <1>q DEF AccountInv, TypeOK, TicketInv, Place
  <2>10. StoredInv'
    BY <1>q DEF StoredInv, TypeOK, TicketInv, UniqueInv, DoneInv, CheckedInv, Exclusive, Place
  <2>11. FlagInv'
    BY <1>q DEF FlagInv, TypeOK, Place
  <2>12. ExitInv'
    BY <1>q DEF ExitInv, TypeOK, FlagInv, Place
  <2>13. BrokenInv'
    BY <1>q DEF BrokenInv, TypeOK, Place
  <2> QED BY <2>1, <2>2, <2>3, <2>4, <2>5, <2>6, <2>7, <2>8, <2>9, <2>10, <2>11, <2>12, <2>13
<1>4. ASSUME StartJoin PROVE IInv'
  <2> USE <1>4 DEF IInv, StartJoin
  <2>1. TypeOK'
    BY <1>q DEF TypeOK, TicketInv, Place
  <2>2. CheckedInv'
    BY <1>q DEF CheckedInv
  <2>3. ActiveInv'
    BY <1>q DEF ActiveInv, PhaseInv, CheckedInv, TypeOK, Place
  <2>4. PhaseInv'
    BY <1>q DEF PhaseInv, TypeOK, Place
  <2>5. NoDanglingThread'
    BY <1>q DEF NoDanglingThread, PhaseInv, TypeOK, Place
  <2>6. TicketInv'
    BY <1>q DEF TicketInv, UniqueInv, TypeOK, DoneInv, Place
  <2>7. UniqueInv'
    BY <1>q DEF UniqueInv, TicketInv, TypeOK, Place
  <2>8. DoneInv'
    BY <1>q DEF DoneInv, TypeOK, TicketInv, Place
  <2>9. AccountInv'
    BY DEF AccountInv, PhaseInv, TypeOK, Worker
  <2>10. StoredInv'
    BY <1>q DEF StoredInv, TypeOK, TicketInv, UniqueInv, DoneInv, CheckedInv, Exclusive, Place
  <2>11. FlagInv'
    BY DEF FlagInv, PhaseInv, TypeOK, Worker
  <2>12. ExitInv'
    BY DEF ExitInv, PhaseInv, TypeOK, Worker
  <2>13. BrokenInv'
    BY <1>q DEF BrokenInv, TypeOK, Place
  <2> QED BY <2>1, <2>2, <2>3, <2>4, <2>5, <2>6, <2>7, <2>8, <2>9, <2>10, <2>11, <2>12, <2>13
<1>5. ASSUME NEW w \in Worker, Build(w) PROVE IInv'
  <2> USE <1>5 DEF IInv, Build
  <2>1. TypeOK'
    BY <1>q DEF TypeOK, TicketInv, Place
  <2>2. CheckedInv'
    BY <1>q DEF CheckedInv
  <2>3. ActiveInv'
    BY <1>q DEF ActiveInv, PhaseInv, CheckedInv, TypeOK, Place
  <2>4. PhaseInv'
    BY <1>q DEF PhaseInv, TypeOK, Place
  <2>5. NoDanglingThread'
    BY <1>q DEF NoDanglingThread, PhaseInv, TypeOK, Place
  <2>6. TicketInv'
    BY <1>q DEF TicketInv, UniqueInv, TypeOK, DoneInv, Place
  <2>7. UniqueInv'
    BY <1>q DEF UniqueInv, TicketInv, TypeOK, Place
  <2>8. DoneInv'
    BY <1>q DEF DoneInv, TypeOK, TicketInv, Place
  <2>9. AccountInv'
    BY <1>q DEF AccountInv, TypeOK, TicketInv, Place
  <2>10. StoredInv'
    BY <1>q DEF StoredInv, TypeOK, TicketInv, UniqueInv, DoneInv, CheckedInv, Exclusive, Place
  <2>11. FlagInv'
    BY <1>q DEF FlagInv, TypeOK, Place
  <2>12. ExitInv'
    BY <1>q DEF ExitInv, TypeOK, FlagInv, Place
  <2>13. BrokenInv'
    BY <1>q DEF BrokenInv, TypeOK, Place
  <2> QED BY <2>1, <2>2, <2>3, <2>4, <2>5, <2>6, <2>7, <2>8, <2>9, <2>10, <2>11, <2>12, <2>13
<1>6. ASSUME NEW w \in Worker, Test(w) PROVE IInv'
  <2> USE <1>6 DEF IInv, Test
  <2>1. TypeOK'
    BY <1>q DEF TypeOK, TicketInv, Place
  <2>2. CheckedInv'
    BY <1>q DEF CheckedInv
  <2>3. ActiveInv'
    BY <1>q DEF ActiveInv, PhaseInv, CheckedInv, TypeOK, Place
  <2>4. PhaseInv'
    BY <1>q DEF PhaseInv, TypeOK, Place
  <2>5. NoDanglingThread'
    BY <1>q DEF NoDanglingThread, PhaseInv, TypeOK, Place
  <2>6. TicketInv'
    BY <1>q DEF TicketInv, UniqueInv, TypeOK, DoneInv, Place
  <2>7. UniqueInv'
    BY <1>q DEF UniqueInv, TicketInv, TypeOK, Place
  <2>8. DoneInv'
    BY <1>q DEF DoneInv, TypeOK, TicketInv, Place
  <2>9. AccountInv'
    BY <1>q DEF AccountInv, TypeOK, TicketInv, Place
  <2>10. StoredInv'
    BY <1>q DEF StoredInv, TypeOK, TicketInv, UniqueInv, DoneInv, CheckedInv, Exclusive, Place
  <2>11. FlagInv'
    BY <1>q DEF FlagInv, TypeOK, Place
  <2>12. ExitInv'
    BY <1>q DEF ExitInv, TypeOK, FlagInv, Place
  <2>13. BrokenInv'
    BY <1>q DEF BrokenInv, TypeOK, Place
  <2> QED BY <2>1, <2>2, <2>3, <2>4, <2>5, <2>6, <2>7, <2>8, <2>9, <2>10, <2>11, <2>12, <2>13
<1>7. ASSUME NEW w \in Worker, Claim(w) PROVE IInv'
  <2> USE <1>7 DEF IInv, Claim
  <2>1. TypeOK'
    <3>1. CASE next + 1 \in DOMAIN queue
      <4>1. own[queue[next + 1]] \in SUBSET Cell
        BY <3>1, <1>q DEF TypeOK
      <4>2. next + 1 \in Nat
        BY DEF TypeOK
      <4>3. pc' \in [Worker -> Place]
        BY <3>1 DEF TypeOK, Place
      <4>4. ix' \in [Worker -> Nat]
        BY <3>1, <4>2 DEF TypeOK
      <4>5. todo' \in [Worker -> SUBSET Cell]
        BY <3>1, <4>1 DEF TypeOK
      <4> QED BY <4>2, <4>3, <4>4, <4>5 DEF TypeOK
    <3>2. CASE next + 1 \notin DOMAIN queue
      BY <3>2 DEF TypeOK, Place
    <3> QED BY <3>1, <3>2
  <2>2. CheckedInv'
    BY <1>q DEF CheckedInv
  <2>3. ActiveInv'
    BY <1>q DEF ActiveInv, PhaseInv, CheckedInv, TypeOK, Place
  <2>4. PhaseInv'
    BY DEF PhaseInv, TypeOK, Worker
  <2>5. NoDanglingThread'
    BY <1>q DEF NoDanglingThread, PhaseInv, TypeOK, Place
  <2>6. TicketInv'
    BY <1>q DEF TicketInv, UniqueInv, TypeOK, DoneInv, Place
  <2>7. UniqueInv'
    BY <1>q DEF UniqueInv, TicketInv, TypeOK, Place
  <2>8. DoneInv'
    BY <1>q DEF DoneInv, TypeOK, TicketInv, Place
  <2>9. AccountInv'
    <3>1. Failing => Failing'
      BY DEF TypeOK
    <3>2. CASE next + 1 \in DOMAIN queue
      <4>1. Running(w)' /\ ix'[w] = next + 1
        BY <3>2 DEF TypeOK
      <4>2. ASSUME NEW i \in DOMAIN queue, i <= next
            PROVE  i \in done' \/ Failing' \/ \E v \in Worker : Running(v)' /\ ix'[v] = i
        <5>1. CASE \E v \in Worker : Running(v) /\ ix[v] = i
          BY <5>1 DEF TypeOK
        <5> QED BY <3>1, <4>2, <5>1 DEF AccountInv
      <4>3. \A i \in DOMAIN queue : i <= next + 1 => i <= next \/ i = next + 1
        BY <1>q DEF TypeOK
      <4> QED BY <4>1, <4>2, <4>3 DEF AccountInv
    <3>3. CASE next + 1 \notin DOMAIN queue
      <4>1. \A i \in DOMAIN queue : i <= next
        BY <3>3, <1>q DEF TypeOK
      <4>2. \A v \in Worker : Running(v) => Running(v)' /\ ix'[v] = ix[v]
        BY <3>3 DEF TypeOK
      <4> QED BY <3>1, <4>1, <4>2 DEF AccountInv
    <3> QED BY <3>2, <3>3
  <2>10. StoredInv'
    <3>1. CASE next + 1 \in DOMAIN queue
      <4>1. todo'[w] = own[queue[ix'[w]]]
        BY <3>1 DEF TypeOK
      <4>2. \A v \in Worker : v # w => /\ pc'[v] = pc[v]
                                       /\ ix'[v] = ix[v] /\ todo'[v] = todo[v]
        BY <3>1 DEF TypeOK
      <4> QED BY <4>1, <4>2 DEF StoredInv
    <3>2. CASE next + 1 \notin DOMAIN queue
      BY <3>2 DEF StoredInv, TypeOK
    <3> QED BY <3>1, <3>2
  <2>11. FlagInv'
    BY <1>q DEF FlagInv, TypeOK, Place
  <2>12. ExitInv'
    <3>1. Failing => Failing'
      BY DEF TypeOK
    <3>2. \A i \in DOMAIN queue : i <= next => i <= next + 1
      BY <1>q DEF TypeOK
    <3>3. CASE next + 1 \in DOMAIN queue
      BY <3>1, <3>2, <3>3 DEF ExitInv, TypeOK
    <3>4. CASE next + 1 \notin DOMAIN queue
      <4>1. \A i \in DOMAIN queue : i <= next
        BY <3>4, <1>q DEF TypeOK
      <4> QED BY <3>2, <4>1 DEF ExitInv
    <3> QED BY <3>3, <3>4
  <2>13. BrokenInv'
    BY <1>q DEF BrokenInv, TypeOK, Place
  <2> QED BY <2>1, <2>2, <2>3, <2>4, <2>5, <2>6, <2>7, <2>8, <2>9, <2>10, <2>11, <2>12, <2>13
<1>8. ASSUME NEW w \in Worker, Store(w) PROVE IInv'
  <2> USE <1>8 DEF IInv, Store
  <2>1. TypeOK'
    BY <1>q DEF TypeOK, TicketInv, Place
  <2>2. CheckedInv'
    BY <1>q DEF CheckedInv
  <2>3. ActiveInv'
    BY <1>q DEF ActiveInv, PhaseInv, CheckedInv, TypeOK, Place
  <2>4. PhaseInv'
    BY <1>q DEF PhaseInv, TypeOK, Place
  <2>5. NoDanglingThread'
    BY <1>q DEF NoDanglingThread, PhaseInv, TypeOK, Place
  <2>6. TicketInv'
    BY <1>q DEF TicketInv, UniqueInv, TypeOK, DoneInv, Place
  <2>7. UniqueInv'
    BY <1>q DEF UniqueInv, TicketInv, TypeOK, Place
  <2>8. DoneInv'
    BY <1>q DEF DoneInv, TypeOK, TicketInv, Place
  <2>9. AccountInv'
    BY <1>q DEF AccountInv, TypeOK, TicketInv, Place
  <2>10. StoredInv'
    <3> PICK c \in todo[w] : /\ out' = [out EXCEPT ![c] = queue[ix[w]]]
                             /\ todo' = [todo EXCEPT ![w] = @ \ {c}]
      OBVIOUS
    <3>1. c \in Cell /\ c \in own[queue[ix[w]]] /\ ix[w] \in DOMAIN queue
      BY DEF TypeOK, TicketInv
    <3>2. \A i \in DOMAIN queue : i # ix[w] => c \notin own[queue[i]]
      BY <1>q, <3>1 DEF CheckedInv, Exclusive
    <3>3. out'[c] = queue[ix[w]] /\ \A d \in Cell : d # c => out'[d] = out[d]
      BY <3>1 DEF TypeOK
    <3>4. \A i \in DOMAIN queue : own[queue[i]] \subseteq Cell
      BY <1>q DEF TypeOK
    <3>5. \A i \in done : \A d \in own[queue[i]] : out'[d] = queue[i]
      BY <3>2, <3>3, <3>4 DEF StoredInv, TypeOK, TicketInv
    <3>6. \A v \in Worker : v # w /\ Running(v) =>
            \A d \in own[queue[ix[v]]] \ todo[v] : out'[d] = queue[ix[v]]
      BY <3>2, <3>3, <3>4 DEF StoredInv, TicketInv, UniqueInv
    <3>7. \A d \in own[queue[ix[w]]] \ (todo[w] \ {c}) : out'[d] = queue[ix[w]]
      BY <3>1, <3>3, <3>4 DEF StoredInv
    <3>8. todo'[w] = todo[w] \ {c} /\ \A v \in Worker : v # w => todo'[v] = todo[v]
      BY DEF TypeOK
    <3> QED BY <3>5, <3>6, <3>7, <3>8 DEF StoredInv
  <2>11. FlagInv'
    BY <1>q DEF FlagInv, TypeOK, Place
  <2>12. ExitInv'
    BY <1>q DEF ExitInv, TypeOK, FlagInv, Place
  <2>13. BrokenInv'
    BY <1>q DEF BrokenInv, TypeOK, Place
  <2> QED BY <2>1, <2>2, <2>3, <2>4, <2>5, <2>6, <2>7, <2>8, <2>9, <2>10, <2>11, <2>12, <2>13
<1>9. ASSUME NEW w \in Worker, Finish(w) PROVE IInv'
  <2> USE <1>9 DEF IInv, Finish
  <2>1. TypeOK'
    BY <1>q DEF TypeOK, TicketInv, Place
  <2>2. CheckedInv'
    BY <1>q DEF CheckedInv
  <2>3. ActiveInv'
    BY <1>q DEF ActiveInv, PhaseInv, CheckedInv, TypeOK, Place
  <2>4. PhaseInv'
    BY <1>q DEF PhaseInv, TypeOK, Place
  <2>5. NoDanglingThread'
    BY <1>q DEF NoDanglingThread, PhaseInv, TypeOK, Place
  <2>6. TicketInv'
    BY <1>q DEF TicketInv, UniqueInv, TypeOK, DoneInv, Place
  <2>7. UniqueInv'
    BY <1>q DEF UniqueInv, TicketInv, TypeOK, Place
  <2>8. DoneInv'
    BY <1>q DEF DoneInv, TypeOK, TicketInv, Place
  <2>9. AccountInv'
    BY <1>q DEF AccountInv, TypeOK, TicketInv, Place
  <2>10. StoredInv'
    <3>1. \A v \in Worker : Running(v)' => Running(v)
      BY DEF TypeOK
    <3>2. \A c \in own[queue[ix[w]]] : out[c] = queue[ix[w]]
      BY DEF StoredInv
    <3> QED BY <3>1, <3>2 DEF StoredInv
  <2>11. FlagInv'
    BY <1>q DEF FlagInv, TypeOK, Place
  <2>12. ExitInv'
    BY <1>q DEF ExitInv, TypeOK, FlagInv, Place
  <2>13. BrokenInv'
    BY <1>q DEF BrokenInv, TypeOK, Place
  <2> QED BY <2>1, <2>2, <2>3, <2>4, <2>5, <2>6, <2>7, <2>8, <2>9, <2>10, <2>11, <2>12, <2>13
<1>10. ASSUME NEW w \in Worker, Throw(w) PROVE IInv'
  <2> USE <1>10 DEF IInv, Throw
  <2>1. TypeOK'
    BY <1>q DEF TypeOK, TicketInv, Place
  <2>2. CheckedInv'
    BY <1>q DEF CheckedInv
  <2>3. ActiveInv'
    BY <1>q DEF ActiveInv, PhaseInv, CheckedInv, TypeOK, Place
  <2>4. PhaseInv'
    BY <1>q DEF PhaseInv, TypeOK, Place
  <2>5. NoDanglingThread'
    BY <1>q DEF NoDanglingThread, PhaseInv, TypeOK, Place
  <2>6. TicketInv'
    BY <1>q DEF TicketInv, UniqueInv, TypeOK, DoneInv, Place
  <2>7. UniqueInv'
    BY <1>q DEF UniqueInv, TicketInv, TypeOK, Place
  <2>8. DoneInv'
    BY <1>q DEF DoneInv, TypeOK, TicketInv, Place
  <2>9. AccountInv'
    BY <1>q DEF AccountInv, TypeOK, TicketInv, Place
  <2>10. StoredInv'
    BY <1>q DEF StoredInv, TypeOK, TicketInv, UniqueInv, DoneInv, CheckedInv, Exclusive, Place
  <2>11. FlagInv'
    BY <1>q DEF FlagInv, TypeOK, Place
  <2>12. ExitInv'
    BY <1>q DEF ExitInv, TypeOK, FlagInv, Place
  <2>13. BrokenInv'
    BY <1>q DEF BrokenInv, TypeOK, Place
  <2> QED BY <2>1, <2>2, <2>3, <2>4, <2>5, <2>6, <2>7, <2>8, <2>9, <2>10, <2>11, <2>12, <2>13
<1>11. ASSUME NEW w \in Worker, RaiseFlag(w) PROVE IInv'
  <2> USE <1>11 DEF IInv, RaiseFlag
  <2>1. TypeOK'
    BY <1>q DEF TypeOK, TicketInv, Place
  <2>2. CheckedInv'
    BY <1>q DEF CheckedInv
  <2>3. ActiveInv'
    BY <1>q DEF ActiveInv, PhaseInv, CheckedInv, TypeOK, Place
  <2>4. PhaseInv'
    BY <1>q DEF PhaseInv, TypeOK, Place
  <2>5. NoDanglingThread'
    BY <1>q DEF NoDanglingThread, PhaseInv, TypeOK, Place
  <2>6. TicketInv'
    BY <1>q DEF TicketInv, UniqueInv, TypeOK, DoneInv, Place
  <2>7. UniqueInv'
    BY <1>q DEF UniqueInv, TicketInv, TypeOK, Place
  <2>8. DoneInv'
    BY <1>q DEF DoneInv, TypeOK, TicketInv, Place
  <2>9. AccountInv'
    BY <1>q DEF AccountInv, TypeOK, TicketInv, Place
  <2>10. StoredInv'
    BY <1>q DEF StoredInv, TypeOK, TicketInv, UniqueInv, DoneInv, CheckedInv, Exclusive, Place
  <2>11. FlagInv'
    BY <1>q DEF FlagInv, TypeOK, Place
  <2>12. ExitInv'
    BY <1>q DEF ExitInv, TypeOK, FlagInv, Place
  <2>13. BrokenInv'
    BY <1>q DEF BrokenInv, TypeOK, Place
  <2> QED BY <2>1, <2>2, <2>3, <2>4, <2>5, <2>6, <2>7, <2>8, <2>9, <2>10, <2>11, <2>12, <2>13
<1>12. ASSUME NEW w \in Worker, Record(w) PROVE IInv'
  <2> USE <1>12 DEF IInv, Record
  <2>1. TypeOK'
    BY <1>q DEF TypeOK, TicketInv, Place
  <2>2. CheckedInv'
    BY <1>q DEF CheckedInv
  <2>3. ActiveInv'
    BY <1>q DEF ActiveInv, PhaseInv, CheckedInv, TypeOK, Place
  <2>4. PhaseInv'
    BY <1>q DEF PhaseInv, TypeOK, Place
  <2>5. NoDanglingThread'
    BY <1>q DEF NoDanglingThread, PhaseInv, TypeOK, Place
  <2>6. TicketInv'
    BY <1>q DEF TicketInv, UniqueInv, TypeOK, DoneInv, Place
  <2>7. UniqueInv'
    BY <1>q DEF UniqueInv, TicketInv, TypeOK, Place
  <2>8. DoneInv'
    BY <1>q DEF DoneInv, TypeOK, TicketInv, Place
  <2>9. AccountInv'
    BY <1>q DEF AccountInv, TypeOK, TicketInv, Place
  <2>10. StoredInv'
    BY <1>q DEF StoredInv, TypeOK, TicketInv, UniqueInv, DoneInv, CheckedInv, Exclusive, Place
  <2>11. FlagInv'
    BY <1>q DEF FlagInv, TypeOK, Place
  <2>12. ExitInv'
    BY <1>q DEF ExitInv, TypeOK, FlagInv, Place
  <2>13. BrokenInv'
    BY <1>q DEF BrokenInv, TypeOK, Place
  <2> QED BY <2>1, <2>2, <2>3, <2>4, <2>5, <2>6, <2>7, <2>8, <2>9, <2>10, <2>11, <2>12, <2>13
<1>13. ASSUME Join PROVE IInv'
  <2> USE <1>13 DEF IInv, Join
  <2>1. TypeOK'
    BY <1>q DEF TypeOK, TicketInv, Place
  <2>2. CheckedInv'
    BY <1>q DEF CheckedInv
  <2>3. ActiveInv'
    BY <1>q DEF ActiveInv, PhaseInv, CheckedInv, TypeOK, Place
  <2>4. PhaseInv'
    BY <1>q DEF PhaseInv, TypeOK, Place
  <2>5. NoDanglingThread'
    BY <1>q DEF NoDanglingThread, PhaseInv, TypeOK, Place
  <2>6. TicketInv'
    BY <1>q DEF TicketInv, UniqueInv, TypeOK, DoneInv, Place
  <2>7. UniqueInv'
    BY <1>q DEF UniqueInv, TicketInv, TypeOK, Place
  <2>8. DoneInv'
    BY <1>q DEF DoneInv, TypeOK, TicketInv, Place
  <2>9. AccountInv'
    BY <1>q DEF AccountInv, TypeOK, TicketInv, Place
  <2>10. StoredInv'
    BY <1>q DEF StoredInv, TypeOK, TicketInv, UniqueInv, DoneInv, CheckedInv, Exclusive, Place
  <2>11. FlagInv'
    BY <1>q DEF FlagInv, TypeOK, Place
  <2>12. ExitInv'
    BY <1>q DEF ExitInv, TypeOK, FlagInv, Place
  <2>13. BrokenInv'
    BY <1>q DEF BrokenInv, TypeOK, Place
  <2> QED BY <2>1, <2>2, <2>3, <2>4, <2>5, <2>6, <2>7, <2>8, <2>9, <2>10, <2>11, <2>12, <2>13
<1>14. CASE UNCHANGED vars
  BY <1>14 DEF vars, IInv, TypeOK, CheckedInv, ActiveInv, PhaseInv, NoDanglingThread, TicketInv, UniqueInv, DoneInv, AccountInv, StoredInv, FlagInv, ExitInv, BrokenInv
<1> QED BY <1>1, <1>2, <1>3, <1>4, <1>5, <1>6, <1>7, <1>8, <1>9, <1>10, <1>11, <1>12, <1>13, <1>14 DEF Next, Step

(* In every reachable state the inductive invariant holds. *)
THEOREM Invariance == Spec => []IInv
  BY InitInv, NextInv, PTL DEF Spec

(* A returned call has stored every cell from the one task that owns it,   *)
(* for every store map, number of threads, task order and interleaving:    *)
(* exclusive tickets, exclusive owners and the join are enough.            *)
THEOREM ReturnsComplete == Spec => []ReturnedComplete
<1>1. IInv => ReturnedComplete
  <2> SUFFICES ASSUME IInv, main = "returned", NEW c \in Cell
               PROVE  /\ \E t \in Task : c \in own[t]
                      /\ \A t \in Task : c \in own[t] => out[c] = t
    BY DEF ReturnedComplete
  <2>1. Complete(own) /\ queue \in Orders(Queued(own))
    BY DEF IInv, CheckedInv
  <2>2. \A i \in DOMAIN queue : i \in done
    BY PoolAssumption DEF IInv, PhaseInv, ExitInv, AccountInv, Failing, Running
  <2>3. ASSUME NEW t \in Task, c \in own[t] PROVE out[c] = t
    <3>1. t \in Queued(own)
      BY <2>3 DEF Queued
    <3>2. PICK i \in DOMAIN queue : queue[i] = t
      BY <2>1, <3>1, OrdersFact, QueuedFact
    <3> QED BY <2>2, <2>3, <3>2 DEF IInv, StoredInv
  <2> QED BY <2>1, <2>3 DEF Complete
<1> QED BY <1>1, Invariance, PTL

(* No exception is lost: a call that returns ran no task that throws.      *)
THEOREM FailureReported == Spec => []NoSilentFailure
<1>1. IInv => NoSilentFailure
  BY PoolAssumption DEF IInv, NoSilentFailure, PhaseInv, ExitInv, AccountInv,
     Failing, Running, DoneInv, BrokenInv
<1> QED BY <1>1, Invariance, PTL

(* Stores need no lock: two workers never hold tasks that share a cell.    *)
THEOREM StoresDisjoint == Spec => []NoStoreRace
<1>1. IInv => NoStoreRace
  <2> SUFFICES ASSUME IInv, NEW v \in Worker, NEW w \in Worker,
                      v # w, Running(v), Running(w)
               PROVE  own[queue[ix[v]]] \cap own[queue[ix[w]]] = {}
    BY DEF NoStoreRace
  <2>1. /\ ix[v] \in DOMAIN queue /\ ix[w] \in DOMAIN queue /\ ix[v] # ix[w]
    BY DEF IInv, TicketInv, UniqueInv
  <2>2. Exclusive(own)
    BY DEF IInv, ActiveInv, Running
  <2> QED BY <2>1, <2>2, QueueFact DEF IInv, Exclusive
<1> QED BY <1>1, Invariance, PTL

(* No thread outlives the call that started it.                            *)
THEOREM ThreadsJoined == Spec => []NoDanglingThread
  BY Invariance, PTL DEF IInv

(* The pool implements the abstract parallel loop.                         *)
THEOREM Refinement == Spec => Implements
<1>1. Init => Abs!Init
  BY DEF Init, Abs!Init, AbsPlan, AbsDone, AbsResult
<1>2. IInv /\ IInv' /\ [Next]_vars => [Abs!Next]_(Abs!vars)
  <2> SUFFICES ASSUME IInv, IInv', [Next]_vars PROVE [Abs!Next]_(Abs!vars)
    OBVIOUS
  <2> USE DEF Abs!vars, AbsPlan, AbsDone, AbsResult, input, shared, Alive
  <2>1. CASE CheckMap
    <3>1. done = {} /\ DOMAIN queue = {}
      BY <2>1 DEF CheckMap, IInv, PhaseInv, TypeOK
    <3>2. CASE main' = "raised"
      BY <2>1, <3>1, <3>2 DEF CheckMap, Abs!Next, Abs!Reject
    <3>3. CASE main' = "spawn"
      <4>1. TypeOK'
        BY DEF IInv
      <4>2. queue' \in Orders(Queued(own))
        BY <2>1, <3>3 DEF CheckMap
      <4>3. AbsPlan' \in SUBSET Task
        BY <4>2, OrdersFact, QueuedFact
      <4>4. Abs!Admit
        BY <2>1, <3>1, <3>3, <4>3 DEF CheckMap, Abs!Admit
      <4> QED BY <4>4 DEF Abs!Next
    <3> QED BY <2>1, <3>2, <3>3 DEF CheckMap
  <2>2. CASE SpawnFails
    BY <2>2 DEF SpawnFails, Abs!Next, Abs!Fail
  <2>3. CASE StartJoin \/ \E t \in Thread : Spawn(t)
    BY <2>3 DEF StartJoin, Spawn
  <2>4. ASSUME NEW w \in Worker,
               Build(w) \/ Test(w) \/ Claim(w) \/ Store(w) \/ Throw(w) \/ RaiseFlag(w) \/ Record(w)
        PROVE  UNCHANGED Abs!vars
    BY <2>4 DEF Build, Test, Claim, Store, Throw, RaiseFlag, Record
  <2>5. ASSUME NEW w \in Worker, Finish(w) PROVE Abs!Next
    <3>1. ix[w] \in DOMAIN queue \ done /\ queue[ix[w]] \in Task
      BY <2>5, QueueFact DEF Finish, IInv, TicketInv, Running
    <3>2. queue[ix[w]] \notin AbsDone
      BY <3>1, QueueFact DEF IInv, TypeOK
    <3>3. AbsDone' = AbsDone \cup {queue[ix[w]]}
      BY <2>5, <3>1 DEF Finish
    <3>4. \E t \in Task : Abs!Perform(t)
      BY <2>5, <3>1, <3>2, <3>3 DEF Finish, Abs!Perform
    <3> QED BY <3>4 DEF Abs!Next
  <2>6. CASE Join
    <3>1. CASE ep = None
      <4>1. \A i \in DOMAIN queue : i \in done
        BY <2>6, <3>1, PoolAssumption DEF Join, IInv, ExitInv, AccountInv, Failing, Running
      <4>2. AbsDone = AbsPlan
        BY <4>1 DEF IInv, TypeOK
      <4>3. Abs!Succeed
        BY <2>6, <3>1, <4>2 DEF Join, Abs!Succeed
      <4> QED BY <4>3 DEF Abs!Next
    <3>2. CASE ep # None
      BY <2>6, <3>2 DEF Join, Abs!Next, Abs!Fail
    <3> QED BY <3>1, <3>2
  <2>7. CASE UNCHANGED vars
    BY <2>7 DEF vars
  <2> QED BY <2>1, <2>2, <2>3, <2>4, <2>5, <2>6, <2>7 DEF Next, Step
<1> QED BY <1>1, <1>2, Invariance, PTL DEF Implements, Abs!Spec, Spec
=============================================================================
