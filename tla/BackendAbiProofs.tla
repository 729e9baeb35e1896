--------------------------- MODULE BackendAbiProofs ---------------------------
(***************************************************************************)
(* The lifecycle of backend_abi.py for any number of threads, any set of   *)
(* launches and any assignment of owners.  The invariant of BackendAbi is  *)
(* inductive because _serial fixes _state and _configured_launch for as    *)
(* long as a call is in progress: what BeginRun's check read is what the   *)
(* native module is called with, and the tail launches outside _serial     *)
(* only ever make the tail tables smaller.  The second half is about       *)
(* Bridge.run, which calls them: the invariants of BridgeMiddle.           *)
(***************************************************************************)
EXTENDS BridgeMiddle, TLAPS

(* Nothing is held, loaded or running at the start. *)
LEMMA InitInv == Init => IInv
BY AbiAssumption
   DEF Init, IInv, TypeOK, Place, Owner, LockInv, Locked, StageInv, Native, ArgInv,
       MatchInv, LoadInv, RunInv

(* Every step of every call preserves the invariant. *)
LEMMA NextInv == IInv /\ [Next]_vars => IInv'
<1> SUFFICES ASSUME IInv, [Next]_vars PROVE IInv'
  OBVIOUS
<1> USE AbiAssumption DEF IInv

<1>1. ASSUME NEW c \in Client, Busy(c)
      PROVE  IInv'
  <2>1. TypeOK'
    BY <1>1 DEF Busy, TypeOK, Place, Locked, Owner
  <2>2. (LockInv /\ ArgInv)'
    BY <1>1 DEF Busy, TypeOK, LockInv, ArgInv, Locked, Place
  <2>3. StageInv'
    BY <1>1 DEF Busy, TypeOK, LockInv, Locked, Place, StageInv, Native
  <2>4. (MatchInv /\ LoadInv /\ RunInv)'
    BY <1>1 DEF Busy, TypeOK, ArgInv, MatchInv, LoadInv, RunInv, LockInv,
           Locked, Place, Owner, Served
  <2> QED BY <2>1, <2>2, <2>3, <2>4
<1>2. ASSUME NEW c \in Client, NEW L \in Launch, BeginConfigure(c, L)
      PROVE  IInv'
  <2>1. TypeOK'
    BY <1>2 DEF BeginConfigure, TypeOK, Place, Locked, Owner, Enter, Goto
  <2>2. (LockInv /\ ArgInv)'
    BY <1>2 DEF BeginConfigure, TypeOK, LockInv, ArgInv, Locked, Place, Enter,
           Goto
  <2>3. StageInv'
    BY <1>2 DEF BeginConfigure, TypeOK, LockInv, Locked, Place, StageInv,
           Native, Enter, Goto
  <2>4. (MatchInv /\ LoadInv /\ RunInv)'
    BY <1>2 DEF BeginConfigure, TypeOK, ArgInv, MatchInv, LoadInv, RunInv,
           LockInv, Locked, Place, Owner, Served, Enter, Goto
  <2> QED BY <2>1, <2>2, <2>3, <2>4
<1>3. ASSUME NEW c \in Client, NEW L \in Launch, BeginRun(c, L)
      PROVE  IInv'
  <2>1. TypeOK'
    BY <1>3 DEF BeginRun, TypeOK, Place, Locked, Owner, Enter, Goto
  <2>2. (LockInv /\ ArgInv)'
    BY <1>3 DEF BeginRun, TypeOK, LockInv, ArgInv, Locked, Place, Enter, Goto
  <2>3. StageInv'
    BY <1>3 DEF BeginRun, TypeOK, LockInv, Locked, Place, StageInv, Native,
           Enter, Goto
  <2>4. (MatchInv /\ LoadInv /\ RunInv)'
    BY <1>3 DEF BeginRun, TypeOK, ArgInv, MatchInv, LoadInv, RunInv, LockInv,
           Locked, Place, Owner, Served, Enter, Goto
  <2> QED BY <2>1, <2>2, <2>3, <2>4
<1>4. ASSUME NEW c \in Client, NEW L \in Launch, BeginPrep(c, L)
      PROVE  IInv'
  <2>1. TypeOK'
    BY <1>4 DEF BeginPrep, TypeOK, Place, Locked, Owner, Enter, Goto
  <2>2. (LockInv /\ ArgInv)'
    BY <1>4 DEF BeginPrep, TypeOK, LockInv, ArgInv, Locked, Place, Enter, Goto
  <2>3. StageInv'
    BY <1>4 DEF BeginPrep, TypeOK, LockInv, Locked, Place, StageInv, Native,
           Enter, Goto
  <2>4. (MatchInv /\ LoadInv /\ RunInv)'
    BY <1>4 DEF BeginPrep, TypeOK, ArgInv, MatchInv, LoadInv, RunInv, LockInv,
           Locked, Place, Owner, Served, Enter, Goto
  <2> QED BY <2>1, <2>2, <2>3, <2>4
<1>5. ASSUME NEW c \in Client, RetireOld(c)
      PROVE  IInv'
  <2>1. TypeOK'
    BY <1>5 DEF RetireOld, TypeOK, Place, Locked, Owner, Goto, Releasable,
           RetireFails, Retired
  <2>2. (LockInv /\ ArgInv)'
    BY <1>5 DEF RetireOld, TypeOK, LockInv, ArgInv, Locked, Place, Goto
  <2>3. StageInv'
    BY <1>5 DEF RetireOld, TypeOK, LockInv, Locked, Place, StageInv, Native,
           Goto, Releasable, RetireFails, Retired
  <2>4. (MatchInv /\ LoadInv /\ RunInv)'
    BY <1>5 DEF RetireOld, TypeOK, ArgInv, MatchInv, LoadInv, RunInv, LockInv,
           Locked, Place, Owner, Served, Goto, Releasable, RetireFails,
           Retired
  <2> QED BY <2>1, <2>2, <2>3, <2>4
<1>6. ASSUME NEW c \in Client, RetireOldFails(c)
      PROVE  IInv'
  <2>1. TypeOK'
    BY <1>6 DEF RetireOldFails, TypeOK, Place, Locked, Owner, End, Goto,
           Release, RetireFails
  <2>2. (LockInv /\ ArgInv)'
    BY <1>6 DEF RetireOldFails, TypeOK, LockInv, ArgInv, Locked, Place, End,
           Goto, Release
  <2>3. StageInv'
    BY <1>6 DEF RetireOldFails, TypeOK, LockInv, Locked, Place, StageInv,
           Native, End, Goto, Release, RetireFails
  <2>4. (MatchInv /\ LoadInv /\ RunInv)'
    BY <1>6 DEF RetireOldFails, TypeOK, ArgInv, MatchInv, LoadInv, RunInv,
           LockInv, Locked, Place, Owner, Served, End, Goto, Release,
           RetireFails
  <2> QED BY <2>1, <2>2, <2>3, <2>4
<1>7. ASSUME NEW c \in Client, LoadRow(c)
      PROVE  IInv'
  <2>1. arg[c] \in Launch /\ serial = c
    BY <1>7 DEF LoadRow, ArgInv, LockInv, Locked
  <2>2. State(OwnerOf[arg[c]], FALSE) \in [owner : Owner, wt : BOOLEAN]
    BY <2>1 DEF State
  <2>3. \/ /\ state' = State(OwnerOf[arg[c]], FALSE)
           /\ pc' = [pc EXCEPT ![c] = "tables"]
        \/ state' = state /\ pc' = [pc EXCEPT ![c] = "failed"]
    BY <1>7 DEF LoadRow, Goto
  <2>4. TypeOK'
    BY <1>7, <2>2, <2>3 DEF LoadRow, TypeOK, Place, Locked
  <2>5. (LockInv /\ ArgInv)'
    BY <1>7, <2>3 DEF LoadRow, TypeOK, LockInv, ArgInv, Locked
  <2>6. StageInv'
    BY <1>7, <2>3 DEF LoadRow, TypeOK, StageInv, Native
  <2>7. configured = None
    BY <1>7 DEF LoadRow, LoadInv
  <2>8. /\ State(OwnerOf[arg[c]], FALSE) # None
        /\ State(OwnerOf[arg[c]], FALSE).owner = OwnerOf[arg[c]]
    BY <2>2 DEF State
  <2>9. LoadInv'
    <3>1. CASE pc' = [pc EXCEPT ![c] = "tables"] /\ state' = State(OwnerOf[arg[c]], FALSE)
      BY <1>7, <2>1, <2>7, <2>8, <3>1 DEF LoadRow, TypeOK, LoadInv, LockInv, Locked
    <3>2. CASE pc' = [pc EXCEPT ![c] = "failed"] /\ state' = state
      BY <1>7, <2>1, <2>7, <3>2 DEF LoadRow, TypeOK, LoadInv, LockInv, Locked
    <3> QED BY <2>3, <3>1, <3>2
  <2>10. (MatchInv /\ RunInv)'
    BY <1>7, <2>1, <2>3, <2>7 DEF LoadRow, TypeOK, MatchInv, RunInv, LockInv, Locked
  <2> QED BY <2>4, <2>5, <2>6, <2>9, <2>10
<1>8. ASSUME NEW c \in Client, LoadTables(c)
      PROVE  IInv'
  <2>1. TypeOK'
    BY <1>8 DEF LoadTables, TypeOK, Place, Locked, Owner, ArgInv, Goto, Served
  <2>2. (LockInv /\ ArgInv)'
    BY <1>8 DEF LoadTables, TypeOK, LockInv, ArgInv, Locked, Place, Goto
  <2>3. StageInv'
    BY <1>8 DEF LoadTables, TypeOK, LockInv, Locked, Place, StageInv, Native,
           Goto, Served
  <2>4. (MatchInv /\ LoadInv /\ RunInv)'
    BY <1>8 DEF LoadTables, TypeOK, ArgInv, MatchInv, LoadInv, RunInv, LockInv,
           Locked, Place, Owner, Served, Goto
  <2> QED BY <2>1, <2>2, <2>3, <2>4
<1>9. ASSUME NEW c \in Client, Complete(c)
      PROVE  IInv'
  <2>1. arg[c] \in Launch /\ serial = c
    BY <1>9 DEF Complete, ArgInv, LockInv, Locked
  <2>2. State(OwnerOf[arg[c]], TRUE) \in [owner : Owner, wt : BOOLEAN]
    BY <2>1 DEF State
  <2>3. TypeOK'
    BY <1>9, <2>1, <2>2 DEF Complete, End, Goto, Release, TypeOK, Place, Locked
  <2>4. LockInv'
    BY <1>9, <2>1 DEF Complete, End, Goto, Release, TypeOK, LockInv, Locked
  <2>5. ArgInv'
    BY <1>9, <2>1 DEF Complete, End, Goto, TypeOK, ArgInv
  <2>6. StageInv'
    BY <1>9 DEF Complete, End, Goto, TypeOK, StageInv, Native
  <2>7. (MatchInv /\ LoadInv /\ RunInv)'
    BY <1>9, <2>1 DEF Complete, End, Goto, State, TypeOK, MatchInv, LoadInv, RunInv,
       LockInv,
       Locked
  <2> QED BY <2>3, <2>4, <2>5, <2>6, <2>7
<1>10. ASSUME NEW c \in Client, HandleFailure(c)
      PROVE  IInv'
  <2>1. TypeOK'
    BY <1>10 DEF HandleFailure, TypeOK, Place, Locked, Owner, End, Goto,
           Releasable, Release, RetireFails, Retired
  <2>2. (LockInv /\ ArgInv)'
    BY <1>10 DEF HandleFailure, TypeOK, LockInv, ArgInv, Locked, Place, End,
           Goto, Release
  <2>3. StageInv'
    BY <1>10 DEF HandleFailure, TypeOK, LockInv, Locked, Place, StageInv,
           Native, End, Goto, Releasable, Release, RetireFails, Retired
  <2>4. (MatchInv /\ LoadInv /\ RunInv)'
    BY <1>10 DEF HandleFailure, TypeOK, ArgInv, MatchInv, LoadInv, RunInv,
           LockInv, Locked, Place, Owner, Served, End, Goto, Releasable,
           Release, RetireFails, Retired
  <2> QED BY <2>1, <2>2, <2>3, <2>4
<1>11. ASSUME NEW c \in Client, Refuse(c)
      PROVE  IInv'
  <2>1. TypeOK'
    BY <1>11 DEF Refuse, TypeOK, Place, Locked, Owner, End, Goto, Matches,
           Release
  <2>2. (LockInv /\ ArgInv)'
    BY <1>11 DEF Refuse, TypeOK, LockInv, ArgInv, Locked, Place, End, Goto,
           Release
  <2>3. StageInv'
    BY <1>11 DEF Refuse, TypeOK, LockInv, Locked, Place, StageInv, Native, End,
           Goto, Matches, Release
  <2>4. (MatchInv /\ LoadInv /\ RunInv)'
    BY <1>11 DEF Refuse, TypeOK, ArgInv, MatchInv, LoadInv, RunInv, LockInv,
           Locked, Place, Owner, Served, End, Goto, Matches, Release
  <2> QED BY <2>1, <2>2, <2>3, <2>4
<1>12. ASSUME NEW c \in Client, RefuseAlias(c)
      PROVE  IInv'
  <2>1. TypeOK'
    BY <1>12 DEF RefuseAlias, TypeOK, Place, Locked, Owner, End, Goto, Matches,
           Release
  <2>2. (LockInv /\ ArgInv)'
    BY <1>12 DEF RefuseAlias, TypeOK, LockInv, ArgInv, Locked, Place, End,
           Goto, Release
  <2>3. StageInv'
    BY <1>12 DEF RefuseAlias, TypeOK, LockInv, Locked, Place, StageInv, Native,
           End, Goto, Matches, Release
  <2>4. (MatchInv /\ LoadInv /\ RunInv)'
    BY <1>12 DEF RefuseAlias, TypeOK, ArgInv, MatchInv, LoadInv, RunInv,
           LockInv, Locked, Place, Owner, Served, End, Goto, Matches, Release
  <2> QED BY <2>1, <2>2, <2>3, <2>4
<1>13. ASSUME NEW c \in Client, Call(c)
      PROVE  IInv'
  <2>1. TypeOK'
    BY <1>13 DEF Call, TypeOK, Place, Locked, Owner, CanCall, Goto, Matches
  <2>2. (LockInv /\ ArgInv)'
    BY <1>13 DEF Call, TypeOK, LockInv, ArgInv, Locked, Place, Goto
  <2>3. StageInv'
    BY <1>13 DEF Call, TypeOK, LockInv, Locked, Place, StageInv, Native,
           ArgInv, MatchInv, CanCall, Goto, Matches
  <2>4. (MatchInv /\ LoadInv /\ RunInv)'
    BY <1>13 DEF Call, TypeOK, ArgInv, MatchInv, LoadInv, RunInv, LockInv,
           Locked, Place, Owner, Served, CanCall, Goto, Matches
  <2> QED BY <2>1, <2>2, <2>3, <2>4
<1>14. ASSUME NEW c \in Client, CallFails(c)
      PROVE  IInv'
  <2>1. TypeOK'
    BY <1>14 DEF CallFails, TypeOK, Place, Locked, Owner, CanCall, Goto,
           Matches
  <2>2. (LockInv /\ ArgInv)'
    BY <1>14 DEF CallFails, TypeOK, LockInv, ArgInv, Locked, Place, Goto
  <2>3. StageInv'
    BY <1>14 DEF CallFails, TypeOK, LockInv, Locked, Place, StageInv, Native,
           CanCall, Goto, Matches
  <2>4. (MatchInv /\ LoadInv /\ RunInv)'
    BY <1>14 DEF CallFails, TypeOK, ArgInv, MatchInv, LoadInv, RunInv, LockInv,
           Locked, Place, Owner, Served, CanCall, Goto, Matches
  <2> QED BY <2>1, <2>2, <2>3, <2>4
<1>15. ASSUME NEW c \in Client, Return(c)
      PROVE  IInv'
  <2>1. TypeOK'
    BY <1>15 DEF Return, TypeOK, Place, Locked, Owner, Goto
  <2>2. (LockInv /\ ArgInv)'
    BY <1>15 DEF Return, TypeOK, LockInv, ArgInv, Locked, Place, Goto
  <2>3. StageInv'
    BY <1>15 DEF Return, TypeOK, LockInv, Locked, Place, StageInv, Native,
           ArgInv, MatchInv, Goto
  <2>4. (MatchInv /\ LoadInv /\ RunInv)'
    BY <1>15 DEF Return, TypeOK, ArgInv, MatchInv, LoadInv, RunInv, LockInv,
           Locked, Place, Owner, Served, Goto
  <2> QED BY <2>1, <2>2, <2>3, <2>4
<1>16. ASSUME NEW c \in Client, Finally(c)
      PROVE  IInv'
  <2>1. TypeOK'
    BY <1>16 DEF Finally, TypeOK, Place, Locked, Owner, Goto, Release
  <2>2. (LockInv /\ ArgInv)'
    BY <1>16 DEF Finally, TypeOK, LockInv, ArgInv, Locked, Place, Goto,
           Release
  <2>3. StageInv'
    BY <1>16 DEF Finally, TypeOK, LockInv, Locked, Place, StageInv, Native,
           Goto, Release
  <2>4. (MatchInv /\ LoadInv /\ RunInv)'
    BY <1>16 DEF Finally, TypeOK, ArgInv, MatchInv, LoadInv, RunInv, LockInv,
           Locked, Place, Owner, Served, Goto, Release
  <2> QED BY <2>1, <2>2, <2>3, <2>4
<1>17. ASSUME NEW c \in Client, Prep(c)
      PROVE  IInv'
  <2>1. TypeOK'
    BY <1>17 DEF Prep, TypeOK, Place, Locked, Owner, ArgInv, End, Goto,
           Releasable, Release, RetireFails, Retired, Served
  <2>2. (LockInv /\ ArgInv)'
    BY <1>17 DEF Prep, TypeOK, LockInv, ArgInv, Locked, Place, End, Goto,
           Release
  <2>3. StageInv'
    BY <1>17 DEF Prep, TypeOK, LockInv, Locked, Place, StageInv, Native, End,
           Goto, Releasable, Release, RetireFails, Retired, Served
  <2>4. (MatchInv /\ LoadInv /\ RunInv)'
    BY <1>17 DEF Prep, TypeOK, ArgInv, MatchInv, LoadInv, RunInv, LockInv,
           Locked, Place, Owner, Served, End, Goto, Releasable, Release,
           RetireFails, Retired
  <2> QED BY <2>1, <2>2, <2>3, <2>4
<1>18. ASSUME NEW c \in Client, TailCall(c)
      PROVE  IInv'
  <2>1. TypeOK'
    BY <1>18 DEF TailCall, TypeOK, Place, Locked, Owner, Goto
  <2>2. (LockInv /\ ArgInv)'
    BY <1>18 DEF TailCall, TypeOK, LockInv, ArgInv, Locked, Place, Goto
  <2>3. StageInv'
    BY <1>18 DEF TailCall, TypeOK, LockInv, Locked, Place, StageInv, Native,
           Goto
  <2>4. (MatchInv /\ LoadInv /\ RunInv)'
    BY <1>18 DEF TailCall, TypeOK, ArgInv, MatchInv, LoadInv, RunInv, LockInv,
           Locked, Place, Owner, Served, Goto
  <2> QED BY <2>1, <2>2, <2>3, <2>4
<1>19. ASSUME NEW c \in Client, TailReturn(c)
      PROVE  IInv'
  <2>1. TypeOK'
    BY <1>19 DEF TailReturn, TypeOK, Place, Locked, Owner, Goto
  <2>2. (LockInv /\ ArgInv)'
    BY <1>19 DEF TailReturn, TypeOK, LockInv, ArgInv, Locked, Place, Goto
  <2>3. StageInv'
    BY <1>19 DEF TailReturn, TypeOK, LockInv, Locked, Place, StageInv, Native,
           Goto
  <2>4. (MatchInv /\ LoadInv /\ RunInv)'
    BY <1>19 DEF TailReturn, TypeOK, ArgInv, MatchInv, LoadInv, RunInv,
           LockInv, Locked, Place, Owner, Served, Goto
  <2> QED BY <2>1, <2>2, <2>3, <2>4
<1>20. ASSUME NEW c \in Client, TailClear(c)
      PROVE  IInv'
  <2>1. TypeOK'
    BY <1>20 DEF TailClear, TypeOK, Place, Locked, Owner, Goto
  <2>2. (LockInv /\ ArgInv)'
    BY <1>20 DEF TailClear, TypeOK, LockInv, ArgInv, Locked, Place, Goto
  <2>3. StageInv'
    BY <1>20 DEF TailClear, TypeOK, LockInv, Locked, Place, StageInv, Native,
           Goto
  <2>4. (MatchInv /\ LoadInv /\ RunInv)'
    BY <1>20 DEF TailClear, TypeOK, ArgInv, MatchInv, LoadInv, RunInv, LockInv,
           Locked, Place, Owner, Served, Goto
  <2> QED BY <2>1, <2>2, <2>3, <2>4
<1>21. CASE UNCHANGED vars
  BY <1>21 DEF vars, TypeOK, LockInv, StageInv, Native, ArgInv, MatchInv, LoadInv, RunInv
<1> QED BY <1>1, <1>2, <1>3, <1>4, <1>5, <1>6, <1>7, <1>8, <1>9, <1>10, <1>11,
           <1>12, <1>13, <1>14, <1>15, <1>16, <1>17, <1>18, <1>19, <1>20, <1>21
        DEF Next, Begin, Continue

(* The invariant holds in every reachable state. *)
THEOREM Invariance == Spec => []IInv
BY InitInv, NextInv, PTL DEF Spec

(* A launch computes with its own tables or with none (backend_abi.py:203, *)
(* stage_codec.inc:20).                                                    *)
THEOREM OwnTables == Spec => []RunsOwnTables
<1>1. IInv => RunsOwnTables
  BY AbiAssumption DEF IInv, TypeOK, ArgInv, MatchInv, RunInv, RunsOwnTables
<1> QED BY Invariance, <1>1, PTL

(* Native launches run one at a time, except a tail launch beside a launch *)
(* of another module (bridge.py:206-211).                                  *)
THEOREM Alone == Spec => []NativeAlone
<1>1. IInv => NativeAlone
  BY AbiAssumption
     DEF IInv, LockInv, Locked, StageInv, Native, ArgInv, InNative, NativeAlone
<1> QED BY Invariance, <1>1, PTL

(* No step changes the tables of a module under a launch that runs in it:  *)
(* a step that clears tables holds _serial or finds stage_mutex free.      *)
THEOREM HeldStill == Spec => TablesHeldStill
<1> DEFINE Still == \A c \in Client : InNative(c) /\ InNative(c)'
                      => tables'[OwnerOf[arg[c]]] = tables[OwnerOf[arg[c]]]
<1>1. IInv /\ [Next]_vars => [Still]_vars
  <2> SUFFICES ASSUME IInv, Next, NEW c \in Client, InNative(c), InNative(c)'
               PROVE  tables'[OwnerOf[arg[c]]] = tables[OwnerOf[arg[c]]]
    OBVIOUS
  <2> USE AbiAssumption DEF IInv, InNative
  <2>1. PICK d \in Client : Begin(d) \/ Busy(d) \/ Continue(d)
    BY DEF Next
  <2>2. OwnerOf[arg[c]] \in Owner /\ (pc[c] = "tailnative" => OwnerOf[arg[c]] = "outtail")
    BY DEF ArgInv
  <2>3. OwnerOf[arg[c]] = "outtail" => stage = c
    BY DEF StageInv, Native
  <2>4. d # c /\ pc[c] = "native" => pc[d] \notin Locked
    BY DEF LockInv, Locked
  <2>5. UNCHANGED tables => tables'[OwnerOf[arg[c]]] = tables[OwnerOf[arg[c]]]
    OBVIOUS
  <2>6. CASE Begin(d) \/ Busy(d)
    BY <2>6, <2>5 DEF Begin, BeginConfigure, BeginRun, BeginPrep, Enter, Busy
  <2>7. CASE RetireOld(d) \/ HandleFailure(d)
    BY <2>7, <2>2, <2>3, <2>4
       DEF RetireOld, HandleFailure, Retired, RetireFails, Releasable, TypeOK, Locked, LockInv
  <2>8. CASE LoadTables(d)
    BY <2>8, <2>2, <2>3, <2>4 DEF LoadTables, TypeOK, Locked
  <2>9. CASE RefuseAlias(d) \/ Finally(d)
    BY <2>9, <2>2, <2>4 DEF RefuseAlias, Finally, TypeOK, Locked
  <2>10. CASE Return(d)
    BY <2>10, <2>2, <2>3, <2>4 DEF Return, Goto, TypeOK, Locked, StageInv, Native
  <2>11. CASE Prep(d)
    BY <2>11, <2>2, <2>3, <2>4 DEF Prep, Retired, RetireFails, Releasable, TypeOK, Locked
  <2>12. CASE TailReturn(d) \/ TailClear(d)
    BY <2>12, <2>2, <2>3 DEF TailReturn, TailClear, Goto, TypeOK, StageInv, Native
  <2>13. CASE RetireOldFails(d) \/ LoadRow(d) \/ Complete(d) \/ Refuse(d) \/ Call(d)
              \/ CallFails(d) \/ TailCall(d)
    BY <2>13, <2>5 DEF RetireOldFails, LoadRow, Complete, Refuse, Call, CallFails,
       TailCall
  <2> QED BY <2>1, <2>6, <2>7, <2>8, <2>9, <2>10, <2>11, <2>12, <2>13 DEF Continue
<1> QED BY Invariance, <1>1, PTL DEF Spec, TablesHeldStill

-----------------------------------------------------------------------------
(* What is left behind when nobody is inside: nothing but what _state      *)
(* names.  While calls are in progress the tail tables have a second       *)
(* keeper, a tail launch between its configure and its clearing; and a     *)
(* configure that has retired the old tables finds no others.              *)
TailOpen == \E c \in Client : pc[c] \in {"tail", "tailnative", "tailclear"}
KeptOwner == Releasable \cup {"vit"}
LeftInv  == \A o \in KeptOwner : tables[o] # {} =>
              \/ state # None /\ state.owner = o
              \/ o = "outtail" /\ TailOpen
FreshInv == \A c \in Client : pc[c] \in {"load", "tables", "busy"} =>
              \A o \in KeptOwner : tables[o] # {} => o = "outtail" /\ TailOpen
KInv     == LeftInv /\ FreshInv
TailAt    == {"tail", "tailnative", "tailclear"}

(* Nothing is loaded at the start. *)
LEMMA KStarts == Init => KInv
BY DEF Init, KInv, LeftInv, FreshInv, KeptOwner, Releasable, Owner

(* A tail launch that is open stays open while others move. *)
LEMMA OpenStays ==
  ASSUME TypeOK, NEW c \in Client, NEW to, pc' = [pc EXCEPT ![c] = to],
         pc[c] \notin TailAt \/ to \in TailAt, TailOpen
  PROVE  TailOpen'
<1>1. PICK d \in Client : pc[d] \in TailAt
  BY DEF TailOpen, TailAt
<1>2. pc'[d] \in TailAt
  BY <1>1 DEF TypeOK
<1> QED BY <1>2 DEF TailOpen, TailAt

(* A step that adds no table, leaves _state alone and enters no call keeps *)
(* both.                                                                   *)
LEMMA Shrinks ==
  ASSUME KInv, state' = state, TailOpen => TailOpen',
         \A o \in KeptOwner : tables'[o] \subseteq tables[o],
         \A c \in Client : pc'[c] \in {"load", "tables", "busy"} => pc[c] \in {"load", "tables", "busy"}
  PROVE  KInv'
<1>1. \A o \in KeptOwner : tables'[o] # {} => tables[o] # {}
  OBVIOUS
<1> QED BY <1>1 DEF KInv, LeftInv, FreshInv

(* After the retirement of the old state every kept owner is empty but the *)
(* tail of an open launch.                                                 *)
LEMMA RetiredAll ==
  ASSUME TypeOK, LeftInv, NEW o \in KeptOwner, Retired[o] # {}
  PROVE  o = "outtail" /\ TailOpen
BY DEF TypeOK, LeftInv, KeptOwner, Releasable, Owner, Retired

(* Every step keeps the two. *)
LEMMA KHolds == IInv /\ KInv /\ [Next]_vars => KInv'
<1> SUFFICES ASSUME IInv, KInv, [Next]_vars PROVE KInv'
  OBVIOUS
<1>q. TypeOK /\ LockInv /\ StageInv /\ ArgInv /\ MatchInv /\ LoadInv /\ RunInv
  BY DEF IInv
<1>t. \A o \in KeptOwner : o \in DOMAIN tables
  BY <1>q DEF TypeOK, KeptOwner, Releasable, Owner
<1>1. ASSUME NEW c \in Client, Busy(c)
      PROVE  KInv'
  BY <1>1, Shrinks DEF Busy, TailOpen
<1>2. ASSUME NEW c \in Client, NEW L \in Launch, NEW at \in {"retire", "check", "prep"}, Enter(c, L, at)
      PROVE  KInv'
  <2>1. TailOpen => TailOpen'
    BY <1>2, <1>q, OpenStays DEF Enter, Goto, TailAt
  <2> QED BY <1>2, <1>q, <2>1, Shrinks DEF Enter, Goto, TypeOK
<1>3. ASSUME NEW c \in Client, RetireOld(c)
      PROVE  KInv'
  <2>1. TailOpen => TailOpen'
    BY <1>3, <1>q, OpenStays DEF RetireOld, Goto, TailAt
  <2>2. \A o \in KeptOwner : tables'[o] # {} => o = "outtail" /\ TailOpen'
    BY <1>3, <1>q, <2>1, RetiredAll DEF RetireOld, KInv
  <2> QED BY <2>2 DEF KInv, LeftInv, FreshInv
<1>4. ASSUME NEW c \in Client,
             RetireOldFails(c) \/ Refuse(c) \/ RefuseAlias(c) \/ Call(c) \/ CallFails(c)
               \/ Return(c) \/ Finally(c)
      PROVE  KInv'
  <2>1. PICK to \in {"idle", "native", "finally"} : pc' = [pc EXCEPT ![c] = to] /\ state' = state
    BY <1>4 DEF RetireOldFails, Refuse, RefuseAlias, Call, CallFails, Return, Finally,
       End, Goto
  <2>2. pc[c] \notin TailAt
    BY <1>4 DEF RetireOldFails, Refuse, RefuseAlias, Call, CallFails, Return, Finally,
       TailAt
  <2>3. TailOpen => TailOpen'
    BY <2>1, <2>2, <1>q, OpenStays
  <2>4. \A o \in KeptOwner : tables'[o] \subseteq tables[o]
    BY <1>4, <1>q, <1>t
       DEF RetireOldFails, Refuse, RefuseAlias, Call, CallFails, Return, Finally, TypeOK
  <2> QED BY <2>1, <2>3, <2>4, <1>q, Shrinks DEF TypeOK
<1>5. ASSUME NEW c \in Client, LoadRow(c)
      PROVE  KInv'
  <2>1. UNCHANGED tables /\ pc[c] = "load"
    BY <1>5 DEF LoadRow
  <2>2. TailOpen => TailOpen'
    BY <1>5, <1>q, OpenStays DEF LoadRow, Goto, TailAt
  <2>3. \A o \in KeptOwner : tables'[o] # {} => o = "outtail" /\ TailOpen'
    BY <2>1, <2>2 DEF KInv, FreshInv
  <2> QED BY <2>3 DEF KInv, LeftInv, FreshInv
<1>6. ASSUME NEW c \in Client, LoadTables(c)
      PROVE  KInv'
  <2>1. state # None /\ state.owner = OwnerOf[arg[c]] /\ state' = state /\ pc[c] = "tables" /\ serial = c
    BY <1>6, <1>q DEF LoadTables, LoadInv, LockInv, Locked
  <2>2. TailOpen => TailOpen'
    BY <1>6, <1>q, OpenStays DEF LoadTables, Goto, TailAt
  <2>3. CASE UNCHANGED tables
    <3>1. \A o \in KeptOwner : tables'[o] # {} => o = "outtail" /\ TailOpen'
      BY <2>1, <2>2, <2>3 DEF KInv, FreshInv
    <3> QED BY <3>1 DEF KInv, LeftInv, FreshInv
  <2>4. CASE ~UNCHANGED tables
    <3>1. \A o \in KeptOwner : o # OwnerOf[arg[c]] => tables'[o] = tables[o]
      BY <1>6, <1>q, <1>t DEF LoadTables, TypeOK
    <3>2. \A d \in Client : pc'[d] \notin {"load", "tables", "busy"}
      BY <1>6, <1>q, <2>1, <2>4 DEF LoadTables, Goto, TypeOK, LockInv, Locked
    <3> QED BY <2>1, <2>2, <3>1, <3>2 DEF KInv, LeftInv, FreshInv
  <2> QED BY <2>3, <2>4
<1>7. ASSUME NEW c \in Client, Complete(c)
      PROVE  KInv'
  <2>1. state # None /\ state.owner = OwnerOf[arg[c]] /\ serial = c /\ arg[c] \in Launch
    BY <1>7, <1>q DEF Complete, LoadInv, LockInv, Locked, ArgInv
  <2>2. State(OwnerOf[arg[c]], TRUE) # None /\ State(OwnerOf[arg[c]], TRUE).owner = OwnerOf[arg[c]]
    <3>1. State(OwnerOf[arg[c]], TRUE) \in [owner : Owner, wt : BOOLEAN]
      BY <2>1, AbiAssumption DEF State
    <3> QED BY <3>1, AbiAssumption DEF State
  <2>3. state' # None /\ state'.owner = OwnerOf[arg[c]] /\ UNCHANGED tables
    BY <1>7, <2>1, <2>2 DEF Complete
  <2>4. PICK to \in {"idle", "failed"} : pc' = [pc EXCEPT ![c] = to]
    BY <1>7 DEF Complete, End, Goto
  <2>5. TailOpen => TailOpen'
    BY <1>7, <1>q, <2>4, OpenStays DEF Complete, TailAt
  <2>6. \A d \in Client : pc'[d] \in {"load", "tables", "busy"} => pc[d] \in {"load", "tables", "busy"}
    BY <2>4, <1>q DEF TypeOK
  <2> QED BY <2>1, <2>3, <2>5, <2>6 DEF KInv, LeftInv, FreshInv
<1>8. ASSUME NEW c \in Client, HandleFailure(c)
      PROVE  KInv'
  <2>1. pc' = [pc EXCEPT ![c] = "idle"] /\ pc[c] \in {"failed", "busy"}
    BY <1>8 DEF HandleFailure, End, Goto
  <2>2. TailOpen => TailOpen'
    BY <2>1, <1>q, OpenStays DEF TailAt
  <2>3. CASE UNCHANGED <<tables, state>>
    BY <2>1, <2>2, <2>3, <1>q, Shrinks DEF TypeOK
  <2>4. CASE tables' = Retired
    <3>1. \A o \in KeptOwner : tables'[o] # {} => o = "outtail" /\ TailOpen'
      BY <2>4, <2>2, <1>q, RetiredAll DEF KInv
    <3> QED BY <3>1 DEF KInv, LeftInv, FreshInv
  <2>5. CASE pc[c] = "busy" /\ tables' = [tables EXCEPT !["vit"] = {}]
    <3>1. \A o \in KeptOwner : tables'[o] # {} => o = "outtail" /\ TailOpen'
      BY <2>5, <2>2, <1>q, <1>t DEF KInv, FreshInv
    <3> QED BY <3>1 DEF KInv, LeftInv, FreshInv
  <2> QED BY <1>8, <2>3, <2>4, <2>5 DEF HandleFailure
<1>9. ASSUME NEW c \in Client, Prep(c)
      PROVE  KInv'
  <2>1. PICK to \in {"idle", "tail"} : pc' = [pc EXCEPT ![c] = to] /\ pc[c] = "prep"
    BY <1>9 DEF Prep, End, Goto
  <2>2. TailOpen => TailOpen'
    BY <2>1, <1>q, OpenStays DEF TailAt
  <2>3. CASE UNCHANGED <<tables, state>>
    BY <2>1, <2>2, <2>3, <1>q, Shrinks DEF TypeOK
  <2>4. CASE tables' = Retired
    <3>1. \A o \in KeptOwner : tables'[o] # {} => o = "outtail" /\ TailOpen'
      BY <2>4, <2>2, <1>q, RetiredAll DEF KInv
    <3> QED BY <3>1 DEF KInv, LeftInv, FreshInv
  <2>5. CASE tables' = [Retired EXCEPT !["outtail"] = {}]
    <3>1. \A o \in KeptOwner : tables'[o] # {} => Retired[o] # {}
      BY <2>5, <1>q DEF TypeOK, Retired, KeptOwner, Releasable, Owner
    <3>2. \A o \in KeptOwner : tables'[o] # {} => o = "outtail" /\ TailOpen'
      BY <3>1, <2>2, <1>q, RetiredAll DEF KInv
    <3> QED BY <3>2 DEF KInv, LeftInv, FreshInv
  <2>6. CASE pc' = [pc EXCEPT ![c] = "tail"] /\ tables' = [Retired EXCEPT !["outtail"] = Served(arg[c])]
    <3>1. TailOpen'
      BY <2>1, <2>6, <1>q DEF TypeOK, TailOpen
    <3>2. \A o \in KeptOwner : o # "outtail" => tables'[o] = Retired[o]
      BY <2>6, <1>q DEF TypeOK, Retired, KeptOwner, Releasable, Owner
    <3>3. \A o \in KeptOwner : tables'[o] # {} => o = "outtail" /\ TailOpen'
      BY <3>1, <3>2, <1>q, RetiredAll DEF KInv
    <3> QED BY <3>3 DEF KInv, LeftInv, FreshInv
  <2> QED BY <1>9, <2>3, <2>4, <2>5, <2>6 DEF Prep, Goto
<1>10. ASSUME NEW c \in Client, TailCall(c) \/ TailReturn(c)
       PROVE  KInv'
  <2>1. PICK to \in TailAt : pc' = [pc EXCEPT ![c] = to] /\ state' = state
    BY <1>10 DEF TailCall, TailReturn, Goto, TailAt
  <2>2. TailOpen => TailOpen'
    BY <2>1, <1>q, OpenStays
  <2>3. \A o \in KeptOwner : tables'[o] \subseteq tables[o]
    BY <1>10, <1>t DEF TailCall, TailReturn
  <2> QED BY <2>1, <2>2, <2>3, <1>q, Shrinks DEF TypeOK, TailAt
<1>11. ASSUME NEW c \in Client, TailClear(c)
       PROVE  KInv'
  <2>1. pc' = [pc EXCEPT ![c] = "idle"] /\ state' = state /\ pc[c] = "tailclear"
    BY <1>11 DEF TailClear, Goto
  <2>2. \A o \in KeptOwner : o # "outtail" => tables'[o] = tables[o]
    BY <1>11, <1>t DEF TailClear
  <2>3. CASE stage = None
    <3>1. tables'["outtail"] = {}
      BY <1>11, <2>3, <1>t DEF TailClear, KeptOwner, Releasable
    <3>2. \A d \in Client : pc'[d] \in {"load", "tables", "busy"} => pc[d] \in {"load", "tables", "busy"}
      BY <2>1, <1>q DEF TypeOK
    <3> QED BY <2>1, <2>2, <3>1, <3>2 DEF KInv, LeftInv, FreshInv
  <2>4. CASE stage # None
    <3>1. UNCHANGED tables /\ stage \in Client /\ Native(stage)
      BY <1>11, <2>4, <1>q DEF TailClear, TypeOK, StageInv
    <3>2. CASE pc[stage] = "tailnative"
      <4>1. stage # c /\ pc'[stage] = "tailnative"
        BY <3>1, <3>2, <2>1, <1>q DEF TypeOK
      <4>2. TailOpen'
        BY <4>1, <3>1 DEF TailOpen
      <4> QED BY <4>2, <3>1, <2>1, <1>q, Shrinks DEF TypeOK
    <3>3. CASE pc[stage] = "native" /\ OwnerOf[arg[stage]] = "outtail"
      <4>1. state # None /\ state.owner = "outtail"
        BY <3>1, <3>3, <1>q, AbiAssumption DEF RunInv, MatchInv, ArgInv
      <4>2. \A d \in Client : pc'[d] \notin {"load", "tables", "busy"}
        BY <3>1, <3>3, <2>1, <1>q DEF LockInv, Locked, TypeOK
      <4> QED BY <4>1, <4>2, <3>1, <2>1 DEF KInv, LeftInv, FreshInv
    <3> QED BY <3>1, <3>2, <3>3 DEF Native
  <2> QED BY <2>3, <2>4
<1>12. CASE UNCHANGED vars
  BY <1>12, Shrinks DEF vars, TailOpen
<1>13. ASSUME NEW c \in Client, Begin(c)
       PROVE  KInv'
  BY <1>13, <1>2 DEF Begin, BeginConfigure, BeginRun, BeginPrep
<1> QED BY <1>1, <1>3, <1>4, <1>5, <1>6, <1>7, <1>8, <1>9, <1>10, <1>11, <1>12, <1>13
        DEF Next, Continue

(* When no call is in progress, of entry, split16, outtail and the ViT     *)
(* only the owner _state names has tables: a configure that failed and a   *)
(* launch that ended leave none of theirs behind (backend_abi.py:20-26,    *)
(* 164-168, 188-201).                                                      *)
THEOREM NothingLeft == Spec => []NothingLeftBehind
<1>1. KInv => NothingLeftBehind
  BY DEF KInv, LeftInv, KeptOwner, TailOpen, NothingLeftBehind, Quiet
<1>2. Spec => []KInv
  BY KStarts, KHolds, Invariance, PTL DEF Spec
<1> QED BY <1>1, <1>2, PTL
-----------------------------------------------------------------------------
(***************************************************************************)
(* Bridge.run over this ABI, for any number of threads that share one      *)
(* Bridge.  Whoever loads weights is on its way to where they are dropped; *)
(* the one way past the drop, a BufferError, leaves somebody else inside   *)
(* whose view it is, and that one passes the drop later.                   *)
(***************************************************************************)

(* Which calls of Bridge have the caller weights still to release, and     *)
(* where pc stands while they do.                                          *)
Viewing  == {"run", "running", "release"}
Owing    == {"configure", "view", "finally"} \cup Viewing
InBridge == Owing \cup {"out", "drop", "write"}
Configuring == {"retire", "load", "tables", "weights", "failed", "busy"}
Launching   == {"check", "native", "finally"}

BTypes   == /\ step \in [Client -> InBridge]
            /\ DOMAIN pc = Client /\ DOMAIN arg = Client /\ DOMAIN did = Client
            /\ DOMAIN fwd = Client /\ DOMAIN seen = Client
            /\ cw # None => cw.by \in Client
PlaceInv == \A c \in Client : pc[c] \in IF step[c] = "configure" THEN Configuring
                                        ELSE IF step[c] = "running" THEN Launching ELSE {"idle"}
ViewInv  == \A c \in Client : fwd[c] # None => step[c] \in Viewing
OwedInv  == cw # None => \E c \in Client : step[c] \in Owing
WtInv    == Packed(state) /\ state.wt => \E c \in Client : step[c] # "out"
BInv     == BTypes /\ PlaceInv /\ ViewInv /\ OwedInv /\ WtInv

(* While no two calls have overlapped, the one call finds what it left.    *)
AloneInv == ~crossed => \A c, d \in Client : step[c] # "out" /\ step[d] # "out" => c = d
Loading  == {"configure", "view", "run", "running"}
RouteInv == \A c \in Client : step[c] \in Loading => arg[c] \in Middle
IsConfigured(c) == state = State(OwnerOf[arg[c]], TRUE) /\ configured = arg[c]
OrderInv == ~crossed => \A c \in Client :
              /\ pc[c] \in {"retire", "load"} => cw = None
              /\ pc[c] \in {"tables", "weights"} => state # None /\ state.owner = OwnerOf[arg[c]]
              /\ step[c] \in {"view", "run"} \/ pc[c] = "check" => IsConfigured(c)
SInv     == AloneInv /\ RouteInv /\ OrderInv

(* No weights and no call at the start. *)
LEMMA BStarts == BInit => BInv /\ SInv
  BY DEF BInit, Init, BInv, BTypes, InBridge, PlaceInv, ViewInv, OwedInv, WtInv, Packed,
     SInv, AloneInv, RouteInv, Loading, OrderInv

(* One step per action of Bridge.run: who still has to drop what.          *)
LEMMA BHolds == BInv /\ [BNext]_bvars => BInv'
<1> SUFFICES ASSUME BInv, [BNext]_bvars PROVE BInv'
  OBVIOUS
<1> USE AbiAssumption DEF BInv, vars, At, InBridge, Owing, Viewing, Configuring, Launching
<1>1. ASSUME NEW c \in Client, BConfigure(c) PROVE BInv'
  <2>1. BTypes'
    BY <1>1 DEF BConfigure, BeginConfigure, Enter, Goto, Busy, BTypes
  <2>2. PlaceInv'
    BY <1>1 DEF BConfigure, BeginConfigure, Enter, Goto, Busy, BTypes, PlaceInv
  <2>3. ViewInv'
    BY <1>1 DEF BConfigure, BeginConfigure, Enter, Goto, Busy, BTypes, ViewInv
  <2>4. OwedInv'
    BY <1>1 DEF BConfigure, BeginConfigure, Enter, Goto, Busy, BTypes, ViewInv, OwedInv
  <2>5. WtInv'
    BY <1>1 DEF BConfigure, BeginConfigure, Enter, Goto, Busy, BTypes, ViewInv, WtInv,
       Packed, State
  <2> QED BY <2>1, <2>2, <2>3, <2>4, <2>5
<1>2. ASSUME NEW c \in Client, BLoadRow(c) PROVE BInv'
  <2>a. /\ step' = step /\ fwd' = fwd /\ seen' = seen
        /\ DOMAIN pc' = Client /\ DOMAIN arg' = Client /\ DOMAIN did' = Client
    BY <1>2 DEF BLoadRow, LoadRow, Goto, BTypes
  <2>b. cw' = cw \/ cw'.by = c
    BY <1>2 DEF BLoadRow, Prefix
  <2>1. BTypes'
    BY <2>a, <2>b DEF BTypes
  <2>2. PlaceInv'
    BY <1>2 DEF BLoadRow, LoadRow, Prefix, Goto, BTypes, PlaceInv
  <2>3. ViewInv'
    BY <1>2 DEF BLoadRow, LoadRow, Prefix, Goto, BTypes, ViewInv
  <2>4. OwedInv'
    BY <1>2 DEF BLoadRow, LoadRow, Prefix, Goto, BTypes, ViewInv, OwedInv
  <2>5. WtInv'
    BY <1>2 DEF BLoadRow, LoadRow, Prefix, Goto, BTypes, ViewInv, WtInv, Packed, State
  <2> QED BY <2>1, <2>2, <2>3, <2>4, <2>5
<1>3. ASSUME NEW c \in Client, BAdvance(c) PROVE BInv'
  <2>1. BTypes'
    BY <1>3 DEF BAdvance, RetireOld, RetireOldFails, LoadTables, Complete,
       HandleFailure, End, Goto, Release, BTypes
  <2>a. /\ pc'[c] \in Configuring \cup {"idle"}
        /\ \A d \in Client : d # c => pc'[d] = pc[d] /\ step'[d] = step[d]
        /\ step'[c] = "configure" <=> pc'[c] # "idle"
        /\ step'[c] \in {"configure", "view", "finally"}
    <3>1. \E p \in Configuring \cup {"idle"} : pc' = [pc EXCEPT ![c] = p]
      BY <1>3 DEF BAdvance, RetireOld, RetireOldFails, LoadTables, Complete,
         HandleFailure, End, Goto
    <3> QED BY <1>3, <3>1 DEF BAdvance, BTypes
  <2>2. PlaceInv'
    BY <2>a, <1>3 DEF BAdvance, PlaceInv
  <2>3. ViewInv'
    BY <1>3 DEF BAdvance, RetireOld, RetireOldFails, LoadTables, Complete,
       HandleFailure, End, Goto, Release, BTypes, ViewInv
  <2>4. OwedInv'
    BY <1>3 DEF BAdvance, RetireOld, RetireOldFails, LoadTables, Complete,
       HandleFailure, End, Goto, Release, BTypes, ViewInv, OwedInv
  <2>5. WtInv'
    BY <1>3 DEF BAdvance, RetireOld, RetireOldFails, LoadTables, Complete,
       HandleFailure, End, Goto, Release, BTypes, ViewInv, WtInv, Packed, State
  <2> QED BY <2>1, <2>2, <2>3, <2>4, <2>5
<1>4. ASSUME NEW c \in Client, BView(c) PROVE BInv'
  <2>1. BTypes'
    BY <1>4 DEF BView, BTypes
  <2>2. PlaceInv'
    BY <1>4 DEF BView, BTypes, PlaceInv
  <2>3. ViewInv'
    BY <1>4 DEF BView, BTypes, ViewInv
  <2>4. OwedInv'
    BY <1>4 DEF BView, BTypes, ViewInv, OwedInv
  <2>5. WtInv'
    BY <1>4 DEF BView, BTypes, ViewInv, WtInv, Packed, State
  <2> QED BY <2>1, <2>2, <2>3, <2>4, <2>5
<1>5. ASSUME NEW c \in Client, BRun(c) PROVE BInv'
  <2>1. BTypes'
    BY <1>5 DEF BRun, BeginRun, Enter, Goto, Busy, BTypes
  <2>2. PlaceInv'
    BY <1>5 DEF BRun, BeginRun, Enter, Goto, Busy, BTypes, PlaceInv
  <2>3. ViewInv'
    BY <1>5 DEF BRun, BeginRun, Enter, Goto, Busy, BTypes, ViewInv
  <2>4. OwedInv'
    BY <1>5 DEF BRun, BeginRun, Enter, Goto, Busy, BTypes, ViewInv, OwedInv
  <2>5. WtInv'
    BY <1>5 DEF BRun, BeginRun, Enter, Goto, Busy, BTypes, ViewInv, WtInv, Packed, State
  <2> QED BY <2>1, <2>2, <2>3, <2>4, <2>5
<1>6. ASSUME NEW c \in Client, BRunning(c) PROVE BInv'
  <2>1. BTypes'
    BY <1>6 DEF BRunning, Refuse, RefuseAlias, Call, CallFails, Return, Finally, End,
       Goto, Release, BTypes
  <2>2. PlaceInv'
    BY <1>6 DEF BRunning, Refuse, RefuseAlias, Call, CallFails, Return, Finally, End,
       Goto, Release, BTypes, PlaceInv
  <2>3. ViewInv'
    BY <1>6 DEF BRunning, Refuse, RefuseAlias, Call, CallFails, Return, Finally, End,
       Goto, Release, BTypes, ViewInv
  <2>4. OwedInv'
    BY <1>6 DEF BRunning, Refuse, RefuseAlias, Call, CallFails, Return, Finally, End,
       Goto, Release, BTypes, ViewInv, OwedInv
  <2>5. WtInv'
    BY <1>6 DEF BRunning, Refuse, RefuseAlias, Call, CallFails, Return, Finally, End,
       Goto, Release, BTypes, ViewInv, WtInv, Packed, State
  <2> QED BY <2>1, <2>2, <2>3, <2>4, <2>5
<1>7. ASSUME NEW c \in Client, BReleaseView(c) PROVE BInv'
  <2>1. BTypes'
    BY <1>7 DEF BReleaseView, BTypes
  <2>2. PlaceInv'
    BY <1>7 DEF BReleaseView, BTypes, PlaceInv
  <2>3. ViewInv'
    BY <1>7 DEF BReleaseView, BTypes, ViewInv
  <2>4. OwedInv'
    BY <1>7 DEF BReleaseView, BTypes, ViewInv, OwedInv
  <2>5. WtInv'
    BY <1>7 DEF BReleaseView, BTypes, ViewInv, WtInv, Packed, State
  <2> QED BY <2>1, <2>2, <2>3, <2>4, <2>5
<1>8. ASSUME NEW c \in Client, BReleaseCaller(c) PROVE BInv'
  <2>1. BTypes'
    BY <1>8 DEF BReleaseCaller, BTypes
  <2>2. PlaceInv'
    BY <1>8 DEF BReleaseCaller, BTypes, PlaceInv
  <2>3. ViewInv'
    BY <1>8 DEF BReleaseCaller, BTypes, ViewInv
  <2>4. OwedInv'
    BY <1>8 DEF BReleaseCaller, BTypes, ViewInv, OwedInv
  <2>5. WtInv'
    BY <1>8 DEF BReleaseCaller, BTypes, ViewInv, WtInv, Packed, State
  <2> QED BY <2>1, <2>2, <2>3, <2>4, <2>5
<1>9. ASSUME NEW c \in Client, BDrop(c) PROVE BInv'
  <2>1. BTypes'
    BY <1>9 DEF BDrop, BTypes
  <2>2. PlaceInv'
    BY <1>9 DEF BDrop, BTypes, PlaceInv
  <2>3. ViewInv'
    BY <1>9 DEF BDrop, BTypes, ViewInv
  <2>4. OwedInv'
    BY <1>9 DEF BDrop, BTypes, ViewInv, OwedInv
  <2>5. WtInv'
    BY <1>9 DEF BDrop, BTypes, ViewInv, WtInv, Packed, State
  <2> QED BY <2>1, <2>2, <2>3, <2>4, <2>5
<1>10. ASSUME NEW c \in Client, BWriteBack(c) PROVE BInv'
  <2>1. BTypes'
    BY <1>10 DEF BWriteBack, BTypes
  <2>2. PlaceInv'
    BY <1>10 DEF BWriteBack, BTypes, PlaceInv
  <2>3. ViewInv'
    BY <1>10 DEF BWriteBack, BTypes, ViewInv
  <2>4. OwedInv'
    BY <1>10 DEF BWriteBack, BTypes, ViewInv, OwedInv
  <2>5. WtInv'
    BY <1>10 DEF BWriteBack, BTypes, ViewInv, WtInv, Packed, State
  <2> QED BY <2>1, <2>2, <2>3, <2>4, <2>5
<1>11. CASE UNCHANGED bvars
  BY <1>11 DEF bvars, BTypes, PlaceInv, ViewInv, OwedInv, WtInv, Packed
<1> QED BY <1>1, <1>2, <1>3, <1>4, <1>5, <1>6, <1>7, <1>8, <1>9, <1>10, <1>11 DEF
   BNext, BStep

(* As long as no two calls have overlapped, each step of the one call      *)
(* finds what its earlier steps set up.                                    *)
LEMMA SHolds == BInv /\ SInv /\ [BNext]_bvars => SInv'
<1> SUFFICES ASSUME BInv, SInv, [BNext]_bvars PROVE SInv'
  OBVIOUS
<1> USE AbiAssumption, MiddleAssumption DEF BInv, SInv, vars, At, Configuring,
   Launching, Loading
<1>1. ASSUME NEW c \in Client, BConfigure(c) PROVE SInv'
  <2>1. AloneInv'
    BY <1>1 DEF BConfigure, BeginConfigure, Enter, Goto, Busy, BTypes, AloneInv
  <2>2. RouteInv'
    BY <1>1 DEF BConfigure, BeginConfigure, Enter, Goto, Busy, BTypes, PlaceInv, RouteInv
  <2>a. ~crossed' => cw' = None /\ \A d \in Client : step[d] = "out" /\ pc[d] = "idle"
    BY <1>1 DEF BConfigure, PlaceInv, OwedInv, Owing, Viewing
  <2>b. pc'[c] \in {"idle", "retire"} /\ step'[c] \in {"configure", "finally"}
    BY <1>1, <2>a DEF BConfigure, BeginConfigure, Enter, Goto, Busy, BTypes, PlaceInv
  <2>c. \A d \in Client : d # c => pc'[d] = pc[d] /\ step'[d] = step[d]
    BY <1>1 DEF BConfigure, BeginConfigure, Enter, Goto, Busy, BTypes
  <2>3. OrderInv'
    <3> SUFFICES ASSUME ~crossed', NEW d \in Client
                 PROVE  /\ cw' = None
                        /\ pc'[d] \in {"idle", "retire"}
                        /\ step'[d] \in {"out", "configure", "finally"}
      BY DEF OrderInv
    <3> QED BY <2>a, <2>b, <2>c
  <2> QED BY <2>1, <2>2, <2>3
<1>2. ASSUME NEW c \in Client, BLoadRow(c) PROVE SInv'
  <2>1. AloneInv'
    BY <1>2 DEF BLoadRow, LoadRow, Prefix, Goto, BTypes, AloneInv
  <2>2. RouteInv'
    BY <1>2 DEF BLoadRow, LoadRow, Prefix, Goto, BTypes, PlaceInv, RouteInv
  <2>a. /\ pc[c] = "load" /\ pc'[c] \in {"tables", "failed"}
        /\ pc'[c] = "tables" => state' # None /\ state'.owner = OwnerOf[arg[c]]
        /\ step[c] = "configure" /\ step' = step /\ arg' = arg /\ crossed' = crossed
        /\ \A d \in Client : d # c => pc'[d] = pc[d]
    <3>1. arg[c] \in Launch /\ OwnerOf[arg[c]] \in Owner
      BY <1>2 DEF BLoadRow, RouteInv, Middle
    <3>2. State(OwnerOf[arg[c]], FALSE) \in [owner : Owner, wt : BOOLEAN]
      BY <3>1 DEF State
    <3>3. State(OwnerOf[arg[c]], FALSE) # None /\ State(OwnerOf[arg[c]], FALSE).owner = OwnerOf[arg[c]]
      BY <3>2 DEF State
    <3> QED BY <1>2, <3>3 DEF BLoadRow, LoadRow, Goto, BTypes
  <2>b. ~crossed => \A d \in Client : d # c => step[d] = "out" /\ pc[d] = "idle"
    BY <2>a DEF AloneInv, PlaceInv
  <2>3. OrderInv'
    BY <2>a, <2>b DEF OrderInv
  <2> QED BY <2>1, <2>2, <2>3
<1>3. ASSUME NEW c \in Client, BAdvance(c) PROVE SInv'
  <2>1. AloneInv'
    BY <1>3 DEF BAdvance, RetireOld, RetireOldFails, LoadTables, Complete,
       HandleFailure, End, Goto, Release, BTypes, AloneInv
  <2>2. RouteInv'
    BY <1>3 DEF BAdvance, RetireOld, RetireOldFails, LoadTables, Complete,
       HandleFailure, End, Goto, Release, BTypes, PlaceInv, RouteInv
  <2>3. OrderInv'
    BY <1>3 DEF BAdvance, RetireOld, RetireOldFails, LoadTables, Complete,
       HandleFailure, End, Goto, Release, BTypes, PlaceInv, OwedInv, Owing, Viewing,
       AloneInv, RouteInv, OrderInv, IsConfigured, State, Middle
  <2> QED BY <2>1, <2>2, <2>3
<1>4. ASSUME NEW c \in Client, BView(c) PROVE SInv'
  <2>1. AloneInv'
    BY <1>4 DEF BView, BTypes, AloneInv
  <2>2. RouteInv'
    BY <1>4 DEF BView, BTypes, PlaceInv, RouteInv
  <2>3. OrderInv'
    BY <1>4 DEF BView, BTypes, PlaceInv, OwedInv, Owing, Viewing, AloneInv, RouteInv,
       OrderInv, IsConfigured, State, Middle
  <2> QED BY <2>1, <2>2, <2>3
<1>5. ASSUME NEW c \in Client, BRun(c) PROVE SInv'
  <2>1. AloneInv'
    BY <1>5 DEF BRun, BeginRun, Enter, Goto, Busy, BTypes, AloneInv
  <2>2. RouteInv'
    BY <1>5 DEF BRun, BeginRun, Enter, Goto, Busy, BTypes, PlaceInv, RouteInv
  <2>3. OrderInv'
    BY <1>5 DEF BRun, BeginRun, Enter, Goto, Busy, BTypes, PlaceInv, OwedInv, Owing,
       Viewing, AloneInv, RouteInv, OrderInv, IsConfigured, State, Middle
  <2> QED BY <2>1, <2>2, <2>3
<1>6. ASSUME NEW c \in Client, BRunning(c) PROVE SInv'
  <2>1. AloneInv'
    BY <1>6 DEF BRunning, Refuse, RefuseAlias, Call, CallFails, Return, Finally, End,
       Goto, Release, BTypes, AloneInv
  <2>2. RouteInv'
    BY <1>6 DEF BRunning, Refuse, RefuseAlias, Call, CallFails, Return, Finally, End,
       Goto, Release, BTypes, PlaceInv, RouteInv
  <2>3. OrderInv'
    BY <1>6 DEF BRunning, Refuse, RefuseAlias, Call, CallFails, Return, Finally, End,
       Goto, Release, BTypes, PlaceInv, OwedInv, Owing, Viewing, AloneInv, RouteInv,
       OrderInv, IsConfigured, State, Middle
  <2> QED BY <2>1, <2>2, <2>3
<1>7. ASSUME NEW c \in Client, BReleaseView(c) PROVE SInv'
  <2>1. AloneInv'
    BY <1>7 DEF BReleaseView, BTypes, AloneInv
  <2>2. RouteInv'
    BY <1>7 DEF BReleaseView, BTypes, PlaceInv, RouteInv
  <2>3. OrderInv'
    BY <1>7 DEF BReleaseView, BTypes, PlaceInv, OwedInv, Owing, Viewing, AloneInv,
       RouteInv, OrderInv, IsConfigured, State, Middle
  <2> QED BY <2>1, <2>2, <2>3
<1>8. ASSUME NEW c \in Client, BReleaseCaller(c) PROVE SInv'
  <2>1. AloneInv'
    BY <1>8 DEF BReleaseCaller, BTypes, AloneInv
  <2>2. RouteInv'
    BY <1>8 DEF BReleaseCaller, BTypes, PlaceInv, RouteInv
  <2>3. OrderInv'
    BY <1>8 DEF BReleaseCaller, BTypes, PlaceInv, OwedInv, Owing, Viewing, AloneInv,
       RouteInv, OrderInv, IsConfigured, State, Middle
  <2> QED BY <2>1, <2>2, <2>3
<1>9. ASSUME NEW c \in Client, BDrop(c) PROVE SInv'
  <2>1. AloneInv'
    BY <1>9 DEF BDrop, BTypes, AloneInv
  <2>2. RouteInv'
    BY <1>9 DEF BDrop, BTypes, PlaceInv, RouteInv
  <2>3. OrderInv'
    BY <1>9 DEF BDrop, BTypes, PlaceInv, OwedInv, Owing, Viewing, AloneInv, RouteInv,
       OrderInv, IsConfigured, State, Middle
  <2> QED BY <2>1, <2>2, <2>3
<1>10. ASSUME NEW c \in Client, BWriteBack(c) PROVE SInv'
  <2>1. AloneInv'
    BY <1>10 DEF BWriteBack, BTypes, AloneInv
  <2>2. RouteInv'
    BY <1>10 DEF BWriteBack, BTypes, PlaceInv, RouteInv
  <2>3. OrderInv'
    BY <1>10 DEF BWriteBack, BTypes, PlaceInv, OwedInv, Owing, Viewing, AloneInv,
       RouteInv, OrderInv, IsConfigured, State, Middle
  <2> QED BY <2>1, <2>2, <2>3
<1>11. CASE UNCHANGED bvars
  BY <1>11 DEF bvars, AloneInv, RouteInv, OrderInv, IsConfigured
<1> QED BY <1>1, <1>2, <1>3, <1>4, <1>5, <1>6, <1>7, <1>8, <1>9, <1>10, <1>11 DEF
   BNext, BStep

(* When no call of Bridge is in progress, neither the caller weights nor   *)
(* the packed device weights are left, whichever calls of however many     *)
(* threads failed or were refused (bridge.py:108-116).                     *)
THEOREM NoWeights == BSpec => []NoWeightsLeft
<1>1. BInv => NoWeightsLeft
  BY DEF BInv, OwedInv, WtInv, Owing, Viewing, NoWeightsLeft
<1>2. BInit => BInv
  BY BStarts
<1>3. BSpec => []BInv
  BY <1>2, BHolds, PTL DEF BSpec
<1> QED BY <1>1, <1>3, PTL

(* A call that follows the others is never turned away because of what     *)
(* they left behind: bridge_prefix finds no live owner of caller weights,  *)
(* and the launch that was just configured may run (bridge.py:64,234-246). *)
THEOREM NeverRefused == BSpec => []SerialNeverRefused
<1>1. BInv /\ SInv => SerialNeverRefused
  <2> SUFFICES ASSUME BInv, SInv, ~crossed, NEW c \in Client
               PROVE  /\ pc[c] = "load" => cw = None
                      /\ pc[c] = "check" => Matches(arg[c]) /\ CanCall(c)
    BY DEF SerialNeverRefused
  <2>1. pc[c] = "load" => cw = None
    BY DEF SInv, OrderInv
  <2>2. ASSUME pc[c] = "check" PROVE Matches(arg[c]) /\ CanCall(c)
    <3>1. step[c] = "running"
      BY <2>2 DEF BInv, PlaceInv, Configuring
    <3>2. arg[c] \in Launch /\ OwnerOf[arg[c]] \in {"tin", "split16", "vit"}
      BY <3>1 DEF SInv, RouteInv, Loading, Middle
    <3>3. State(OwnerOf[arg[c]], TRUE) \in [owner : Owner, wt : BOOLEAN]
      BY <3>2 DEF State, Owner
    <3>4. /\ State(OwnerOf[arg[c]], TRUE) # None
          /\ State(OwnerOf[arg[c]], TRUE).wt
          /\ State(OwnerOf[arg[c]], TRUE).owner # "outtail"
      BY <3>2, <3>3, AbiAssumption DEF State
    <3>5. IsConfigured(c)
      BY <2>2 DEF SInv, OrderInv
    <3> QED BY <3>4, <3>5 DEF IsConfigured, Matches, CanCall
  <2> QED BY <2>1, <2>2
<1>2. BInit => BInv /\ SInv
  BY BStarts
<1>3. BSpec => [](BInv /\ SInv)
  BY <1>2, BHolds, SHolds, PTL DEF BSpec
<1> QED BY <1>1, <1>3, PTL
===============================================================================
