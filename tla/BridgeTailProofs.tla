--------------------------- MODULE BridgeTailProofs ---------------------------
(***************************************************************************)
(* The three tail launches of a frame for any number of threads and        *)
(* frames.  What a tail call was admitted for stays true until it returns, *)
(* because _tail_lock is held all the time; and the state it leaves for    *)
(* the next one, whichever way it ends, is either that of a frame which    *)
(* waits for its next launch or that of no frame at all.                   *)
(***************************************************************************)
EXTENDS BridgeTail, TLAPS

(* The places of a call that holds _tail_lock, before and after the order  *)
(* check accepted it.                                                      *)
Asking   == {"prep", "check"}
Working  == {"register", "load", "tables", "call", "native"}
Holding  == Asking \cup Working \cup {"after", "except", "finally"}
Place    == Holding \cup {"out", "other", "log"}

Flags     == /\ joined \in BOOLEAN /\ receipt \in BOOLEAN
             /\ weights \in BOOLEAN /\ placeholder \in BOOLEAN
             /\ accepted \in [Client -> BOOLEAN] /\ ok \in [Client -> BOOLEAN]
TailTypes == /\ lock \in Client \cup {None}
             /\ started \in Nat /\ frame \in Frame \cup {None}
             /\ next \in {156, 157, None}
             /\ registry \in {"clear", "ready", "failed"}
             /\ tables \in Launch \cup {None}
             /\ pc \in [Client -> Place]
             /\ job \in [Client -> Nat \X Nat]

HoldsInv == \A c \in Client : pc[c] \in Holding <=> lock = c
JobInv   == \A c \in Client : pc[c] \in Holding => F(c) \in Frame /\ L(c) \in Launch
SideInv  == \A c \in Client : /\ pc[c] \in Asking => ~accepted[c]
                              /\ pc[c] \in Working \cup {"after"} => accepted[c]
FrameInv == frame # None => frame = started

(* An accepted call runs the launch that is next of the frame that is      *)
(* started; behind the registration the registry is ready.                 *)
Its(c)   == frame = F(c) /\ F(c) = started
MyTurn(c) == IF L(c) = 155 THEN next = None ELSE next = L(c) /\ joined
TurnInv  == \A c \in Client : pc[c] \in Working \cup {"after"} => Its(c) /\ MyTurn(c)
ReadyInv == \A c \in Client : pc[c] \in {"load", "tables", "call", "native"} => registry
   = "ready"

(* What a call finds and leaves: the last conjunct is what it has done on  *)
(* the way out.                                                            *)
Tidy == /\ tables = None /\ ~weights
        /\ next = None => registry = "clear" /\ ~placeholder /\ frame = None
Left(c) == IF ok[c] THEN joined /\ next = (IF L(c) < 157 THEN L(c) + 1 ELSE None)
                    ELSE ~joined
TidyInv == /\ lock = None => Tidy
           /\ \A c \in Client : /\ pc[c] \in Holding /\ ~accepted[c] => Tidy
                                /\ pc[c] = "finally" /\ accepted[c] => Left(c)
                                /\ pc[c] \in Holding \ {"except", "finally"} => ok[c]
                                /\ pc[c] = "except" => ~ok[c]

TailInv == /\ TailTypes /\ Flags /\ HoldsInv /\ JobInv /\ SideInv /\ FrameInv
           /\ TurnInv /\ ReadyInv /\ TidyInv

(* No call, no frame and no table at the start. *)
LEMMA TailStarts == Init => TailInv
<1> SUFFICES ASSUME Init PROVE TailInv
  OBVIOUS
<1>1. TailTypes
  BY DEF Init, TailTypes, Place
<1>2. Flags
  BY DEF Init, Flags
<1>3. \A c \in Client : pc[c] = "out" /\ lock # c
  BY TailAssumption DEF Init
<1>4. HoldsInv /\ JobInv /\ SideInv /\ FrameInv /\ TurnInv /\ ReadyInv
  BY <1>3 DEF Init, HoldsInv, JobInv, SideInv, FrameInv, TurnInv, ReadyInv, Holding,
     Asking, Working
<1>5. TidyInv
  BY <1>3 DEF Init, TidyInv, Tidy, Holding, Asking, Working
<1> QED BY <1>1, <1>2, <1>4, <1>5 DEF TailInv

(* Every step of every caller preserves the invariant. *)
LEMMA TailHolds == TailInv /\ [Next]_vars => TailInv'
<1> SUFFICES ASSUME TailInv, [Next]_vars PROVE TailInv'
  OBVIOUS
<1> USE TailAssumption DEF TailInv, tail, mod, mine, Step, Fail, Raise, Goto, Log,
   Holding, Asking, Working, Place, Launch, F, L
<1>1. ASSUME NEW c \in Client, OtherBegin(c) PROVE TailInv'
  <2>0. Flags'
    BY <1>1 DEF OtherBegin, Flags
  <2>1. TailTypes'
    BY <1>1 DEF OtherBegin, TailTypes, JobInv
  <2>2. (HoldsInv /\ JobInv /\ SideInv /\ FrameInv)'
    BY <1>1 DEF OtherBegin, TailTypes, Flags, HoldsInv, JobInv, SideInv, FrameInv
  <2>3. (TurnInv /\ ReadyInv)'
    BY <1>1 DEF OtherBegin, TailTypes, Flags, HoldsInv, JobInv, SideInv, FrameInv,
       TurnInv,
       ReadyInv, Its, MyTurn
  <2>4. TidyInv'
    BY <1>1 DEF OtherBegin, TailTypes, Flags, HoldsInv, JobInv, SideInv, FrameInv,
       TurnInv,
       ReadyInv, TidyInv, Tidy, Left, Its, MyTurn
  <2> QED BY <2>0, <2>1, <2>2, <2>3, <2>4
<1>2. ASSUME NEW c \in Client, OtherEnd(c) PROVE TailInv'
  <2>0. Flags'
    BY <1>2 DEF OtherEnd, Flags
  <2>1. TailTypes'
    BY <1>2 DEF OtherEnd, TailTypes, JobInv
  <2>2. (HoldsInv /\ JobInv /\ SideInv /\ FrameInv)'
    BY <1>2 DEF OtherEnd, TailTypes, Flags, HoldsInv, JobInv, SideInv, FrameInv
  <2>3. (TurnInv /\ ReadyInv)'
    BY <1>2 DEF OtherEnd, TailTypes, Flags, HoldsInv, JobInv, SideInv, FrameInv, TurnInv,
       ReadyInv, Its, MyTurn
  <2>4. TidyInv'
    BY <1>2 DEF OtherEnd, TailTypes, Flags, HoldsInv, JobInv, SideInv, FrameInv, TurnInv,
       ReadyInv, TidyInv, Tidy, Left, Its, MyTurn
  <2> QED BY <2>0, <2>1, <2>2, <2>3, <2>4
<1>3. ASSUME NEW c \in Client, Reject(c) PROVE TailInv'
  <2>0. Flags'
    BY <1>3 DEF Reject, Flags
  <2>1. TailTypes'
    BY <1>3 DEF Reject, TailTypes, JobInv
  <2>2. (HoldsInv /\ JobInv /\ SideInv /\ FrameInv)'
    BY <1>3 DEF Reject, TailTypes, Flags, HoldsInv, JobInv, SideInv, FrameInv
  <2>3. (TurnInv /\ ReadyInv)'
    BY <1>3 DEF Reject, TailTypes, Flags, HoldsInv, JobInv, SideInv, FrameInv, TurnInv,
       ReadyInv, Its, MyTurn
  <2>4. TidyInv'
    BY <1>3 DEF Reject, TailTypes, Flags, HoldsInv, JobInv, SideInv, FrameInv, TurnInv,
       ReadyInv, TidyInv, Tidy, Left, Its, MyTurn
  <2> QED BY <2>0, <2>1, <2>2, <2>3, <2>4
<1>4. ASSUME NEW c \in Client, Enter(c) PROVE TailInv'
  <2>0. Flags'
    BY <1>4 DEF Enter, Flags
  <2>1. TailTypes'
    BY <1>4 DEF Enter, TailTypes, JobInv
  <2>2. (HoldsInv /\ JobInv /\ SideInv /\ FrameInv)'
    BY <1>4 DEF Enter, TailTypes, Flags, HoldsInv, JobInv, SideInv, FrameInv
  <2>3. (TurnInv /\ ReadyInv)'
    BY <1>4 DEF Enter, TailTypes, Flags, HoldsInv, JobInv, SideInv, FrameInv, TurnInv,
       ReadyInv, Its, MyTurn
  <2>4. TidyInv'
    BY <1>4 DEF Enter, TailTypes, Flags, HoldsInv, JobInv, SideInv, FrameInv, TurnInv,
       ReadyInv, TidyInv, Tidy, Left, Its, MyTurn
  <2> QED BY <2>0, <2>1, <2>2, <2>3, <2>4
<1>5. ASSUME NEW c \in Client, PrepFails(c) PROVE TailInv'
  <2>0. Flags'
    BY <1>5 DEF PrepFails, Flags
  <2>1. TailTypes'
    BY <1>5 DEF PrepFails, TailTypes, JobInv
  <2>2. (HoldsInv /\ JobInv /\ SideInv /\ FrameInv)'
    BY <1>5 DEF PrepFails, TailTypes, Flags, HoldsInv, JobInv, SideInv, FrameInv
  <2>3. (TurnInv /\ ReadyInv)'
    BY <1>5 DEF PrepFails, TailTypes, Flags, HoldsInv, JobInv, SideInv, FrameInv, TurnInv,
       ReadyInv, Its, MyTurn
  <2>4. TidyInv'
    BY <1>5 DEF PrepFails, TailTypes, Flags, HoldsInv, JobInv, SideInv, FrameInv, TurnInv,
       ReadyInv, TidyInv, Tidy, Left, Its, MyTurn
  <2> QED BY <2>0, <2>1, <2>2, <2>3, <2>4
<1>6. ASSUME NEW c \in Client, Prefix(c) PROVE TailInv'
  <2>0. Flags'
    BY <1>6 DEF Prefix, Flags
  <2>1. TailTypes'
    BY <1>6 DEF Prefix, TailTypes, JobInv
  <2>2. (HoldsInv /\ JobInv /\ SideInv /\ FrameInv)'
    BY <1>6 DEF Prefix, TailTypes, Flags, HoldsInv, JobInv, SideInv, FrameInv
  <2>3. (TurnInv /\ ReadyInv)'
    BY <1>6 DEF Prefix, TailTypes, Flags, HoldsInv, JobInv, SideInv, FrameInv, TurnInv,
       ReadyInv, Its, MyTurn
  <2>4. TidyInv'
    BY <1>6 DEF Prefix, TailTypes, Flags, HoldsInv, JobInv, SideInv, FrameInv, TurnInv,
       ReadyInv, TidyInv, Tidy, Left, Its, MyTurn
  <2> QED BY <2>0, <2>1, <2>2, <2>3, <2>4
<1>7. ASSUME NEW c \in Client, CheckFirst(c) PROVE TailInv'
  <2>0. Flags'
    BY <1>7 DEF CheckFirst, Flags
  <2>1. TailTypes'
    BY <1>7 DEF CheckFirst, TailTypes, First, JobInv
  <2>2. (HoldsInv /\ JobInv /\ SideInv /\ FrameInv)'
    BY <1>7 DEF CheckFirst, TailTypes, Flags, HoldsInv, JobInv, SideInv, FrameInv, First
  <2>3. (TurnInv /\ ReadyInv)'
    BY <1>7 DEF CheckFirst, TailTypes, Flags, HoldsInv, JobInv, SideInv, FrameInv,
       TurnInv,
       ReadyInv, Its, MyTurn, First
  <2>4. TidyInv'
    BY <1>7 DEF CheckFirst, TailTypes, Flags, HoldsInv, JobInv, SideInv, FrameInv,
       TurnInv,
       ReadyInv, TidyInv, Tidy, Left, Its, MyTurn, First
  <2> QED BY <2>0, <2>1, <2>2, <2>3, <2>4
<1>8. ASSUME NEW c \in Client, CheckNext(c) PROVE TailInv'
  <2>0. Flags'
    BY <1>8 DEF CheckNext, Flags
  <2>1. TailTypes'
    BY <1>8 DEF CheckNext, TailTypes, Follows, JobInv
  <2>2. (HoldsInv /\ JobInv /\ SideInv /\ FrameInv)'
    BY <1>8 DEF CheckNext, TailTypes, Flags, HoldsInv, JobInv, SideInv, FrameInv, Follows
  <2>3. (TurnInv /\ ReadyInv)'
    BY <1>8 DEF CheckNext, TailTypes, Flags, HoldsInv, JobInv, SideInv, FrameInv, TurnInv,
       ReadyInv, Its, MyTurn, Follows
  <2>4. TidyInv'
    BY <1>8 DEF CheckNext, TailTypes, Flags, HoldsInv, JobInv, SideInv, FrameInv, TurnInv,
       ReadyInv, TidyInv, Tidy, Left, Its, MyTurn, Follows
  <2> QED BY <2>0, <2>1, <2>2, <2>3, <2>4
<1>9. ASSUME NEW c \in Client, CheckRejects(c) PROVE TailInv'
  <2>0. Flags'
    BY <1>9 DEF CheckRejects, Flags
  <2>1. TailTypes'
    BY <1>9 DEF CheckRejects, TailTypes, JobInv
  <2>2. (HoldsInv /\ JobInv /\ SideInv /\ FrameInv)'
    BY <1>9 DEF CheckRejects, TailTypes, Flags, HoldsInv, JobInv, SideInv, FrameInv
  <2>3. (TurnInv /\ ReadyInv)'
    BY <1>9 DEF CheckRejects, TailTypes, Flags, HoldsInv, JobInv, SideInv, FrameInv,
       TurnInv, ReadyInv, Its, MyTurn
  <2>4. TidyInv'
    BY <1>9 DEF CheckRejects, TailTypes, Flags, HoldsInv, JobInv, SideInv, FrameInv,
       TurnInv, ReadyInv, TidyInv, Tidy, Left, Its, MyTurn
  <2> QED BY <2>0, <2>1, <2>2, <2>3, <2>4
<1>10. ASSUME NEW c \in Client, Register(c) PROVE TailInv'
  <2>0. Flags'
    BY <1>10 DEF Register, Flags
  <2>1. TailTypes'
    BY <1>10 DEF Register, TailTypes, JobInv
  <2>2. (HoldsInv /\ JobInv /\ SideInv /\ FrameInv)'
    BY <1>10 DEF Register, TailTypes, Flags, HoldsInv, JobInv, SideInv, FrameInv
  <2>3. (TurnInv /\ ReadyInv)'
    BY <1>10 DEF Register, TailTypes, Flags, HoldsInv, JobInv, SideInv, FrameInv, TurnInv,
       ReadyInv, Its, MyTurn
  <2>4. TidyInv'
    BY <1>10 DEF Register, TailTypes, Flags, HoldsInv, JobInv, SideInv, FrameInv, TurnInv,
       ReadyInv, TidyInv, Tidy, Left, Its, MyTurn
  <2> QED BY <2>0, <2>1, <2>2, <2>3, <2>4
<1>11. ASSUME NEW c \in Client, RegisterFails(c) PROVE TailInv'
  <2>0. Flags'
    BY <1>11 DEF RegisterFails, Flags
  <2>1. TailTypes'
    BY <1>11 DEF RegisterFails, TailTypes, JobInv
  <2>2. (HoldsInv /\ JobInv /\ SideInv /\ FrameInv)'
    BY <1>11 DEF RegisterFails, TailTypes, Flags, HoldsInv, JobInv, SideInv, FrameInv
  <2>3. (TurnInv /\ ReadyInv)'
    BY <1>11 DEF RegisterFails, TailTypes, Flags, HoldsInv, JobInv, SideInv, FrameInv,
       TurnInv, ReadyInv, Its, MyTurn
  <2>4. TidyInv'
    BY <1>11 DEF RegisterFails, TailTypes, Flags, HoldsInv, JobInv, SideInv, FrameInv,
       TurnInv, ReadyInv, TidyInv, Tidy, Left, Its, MyTurn
  <2> QED BY <2>0, <2>1, <2>2, <2>3, <2>4
<1>12. ASSUME NEW c \in Client, Load(c) PROVE TailInv'
  <2>0. Flags'
    BY <1>12 DEF Load, Flags
  <2>1. TailTypes'
    BY <1>12 DEF Load, TailTypes, JobInv
  <2>2. (HoldsInv /\ JobInv /\ SideInv /\ FrameInv)'
    BY <1>12 DEF Load, TailTypes, Flags, HoldsInv, JobInv, SideInv, FrameInv
  <2>3. (TurnInv /\ ReadyInv)'
    BY <1>12 DEF Load, TailTypes, Flags, HoldsInv, JobInv, SideInv, FrameInv, TurnInv,
       ReadyInv, Its, MyTurn
  <2>4. TidyInv'
    BY <1>12 DEF Load, TailTypes, Flags, HoldsInv, JobInv, SideInv, FrameInv, TurnInv,
       ReadyInv, TidyInv, Tidy, Left, Its, MyTurn
  <2> QED BY <2>0, <2>1, <2>2, <2>3, <2>4
<1>13. ASSUME NEW c \in Client, LoadFails(c) PROVE TailInv'
  <2>0. Flags'
    BY <1>13 DEF LoadFails, Flags
  <2>1. TailTypes'
    BY <1>13 DEF LoadFails, TailTypes, JobInv
  <2>2. (HoldsInv /\ JobInv /\ SideInv /\ FrameInv)'
    BY <1>13 DEF LoadFails, TailTypes, Flags, HoldsInv, JobInv, SideInv, FrameInv
  <2>3. (TurnInv /\ ReadyInv)'
    BY <1>13 DEF LoadFails, TailTypes, Flags, HoldsInv, JobInv, SideInv, FrameInv,
       TurnInv,
       ReadyInv, Its, MyTurn
  <2>4. TidyInv'
    BY <1>13 DEF LoadFails, TailTypes, Flags, HoldsInv, JobInv, SideInv, FrameInv,
       TurnInv,
       ReadyInv, TidyInv, Tidy, Left, Its, MyTurn
  <2> QED BY <2>0, <2>1, <2>2, <2>3, <2>4
<1>14. ASSUME NEW c \in Client, Tables(c) PROVE TailInv'
  <2>0. Flags'
    BY <1>14 DEF Tables, Flags
  <2>1. TailTypes'
    BY <1>14 DEF Tables, TailTypes, JobInv
  <2>2. (HoldsInv /\ JobInv /\ SideInv /\ FrameInv)'
    BY <1>14 DEF Tables, TailTypes, Flags, HoldsInv, JobInv, SideInv, FrameInv
  <2>3. (TurnInv /\ ReadyInv)'
    BY <1>14 DEF Tables, TailTypes, Flags, HoldsInv, JobInv, SideInv, FrameInv, TurnInv,
       ReadyInv, Its, MyTurn
  <2>4. TidyInv'
    BY <1>14 DEF Tables, TailTypes, Flags, HoldsInv, JobInv, SideInv, FrameInv, TurnInv,
       ReadyInv, TidyInv, Tidy, Left, Its, MyTurn
  <2> QED BY <2>0, <2>1, <2>2, <2>3, <2>4
<1>15. ASSUME NEW c \in Client, TablesFail(c) PROVE TailInv'
  <2>0. Flags'
    BY <1>15 DEF TablesFail, Flags
  <2>1. TailTypes'
    BY <1>15 DEF TablesFail, TailTypes, JobInv
  <2>2. (HoldsInv /\ JobInv /\ SideInv /\ FrameInv)'
    BY <1>15 DEF TablesFail, TailTypes, Flags, HoldsInv, JobInv, SideInv, FrameInv
  <2>3. (TurnInv /\ ReadyInv)'
    BY <1>15 DEF TablesFail, TailTypes, Flags, HoldsInv, JobInv, SideInv, FrameInv,
       TurnInv, ReadyInv, Its, MyTurn
  <2>4. TidyInv'
    BY <1>15 DEF TablesFail, TailTypes, Flags, HoldsInv, JobInv, SideInv, FrameInv,
       TurnInv, ReadyInv, TidyInv, Tidy, Left, Its, MyTurn
  <2> QED BY <2>0, <2>1, <2>2, <2>3, <2>4
<1>16. ASSUME NEW c \in Client, CallFails(c) PROVE TailInv'
  <2>0. Flags'
    BY <1>16 DEF CallFails, Flags
  <2>1. TailTypes'
    BY <1>16 DEF CallFails, TailTypes, JobInv
  <2>2. (HoldsInv /\ JobInv /\ SideInv /\ FrameInv)'
    BY <1>16 DEF CallFails, TailTypes, Flags, HoldsInv, JobInv, SideInv, FrameInv
  <2>3. (TurnInv /\ ReadyInv)'
    BY <1>16 DEF CallFails, TailTypes, Flags, HoldsInv, JobInv, SideInv, FrameInv,
       TurnInv,
       ReadyInv, Its, MyTurn
  <2>4. TidyInv'
    BY <1>16 DEF CallFails, TailTypes, Flags, HoldsInv, JobInv, SideInv, FrameInv,
       TurnInv,
       ReadyInv, TidyInv, Tidy, Left, Its, MyTurn
  <2> QED BY <2>0, <2>1, <2>2, <2>3, <2>4
<1>17. ASSUME NEW c \in Client, Call(c) PROVE TailInv'
  <2>0. Flags'
    BY <1>17 DEF Call, Flags
  <2>1. TailTypes'
    BY <1>17 DEF Call, TailTypes, JobInv
  <2>2. (HoldsInv /\ JobInv /\ SideInv /\ FrameInv)'
    BY <1>17 DEF Call, TailTypes, Flags, HoldsInv, JobInv, SideInv, FrameInv
  <2>3. (TurnInv /\ ReadyInv)'
    BY <1>17 DEF Call, TailTypes, Flags, HoldsInv, JobInv, SideInv, FrameInv, TurnInv,
       ReadyInv, Its, MyTurn
  <2>4. TidyInv'
    BY <1>17 DEF Call, TailTypes, Flags, HoldsInv, JobInv, SideInv, FrameInv, TurnInv,
       ReadyInv, TidyInv, Tidy, Left, Its, MyTurn
  <2> QED BY <2>0, <2>1, <2>2, <2>3, <2>4
<1>18. ASSUME NEW c \in Client, Return(c) PROVE TailInv'
  <2>0. Flags'
    BY <1>18 DEF Return, Flags
  <2>1. TailTypes'
    BY <1>18 DEF Return, TailTypes, JobInv
  <2>2. (HoldsInv /\ JobInv /\ SideInv /\ FrameInv)'
    BY <1>18 DEF Return, TailTypes, Flags, HoldsInv, JobInv, SideInv, FrameInv
  <2>3. (TurnInv /\ ReadyInv)'
    BY <1>18 DEF Return, TailTypes, Flags, HoldsInv, JobInv, SideInv, FrameInv, TurnInv,
       ReadyInv, Its, MyTurn
  <2>4. TidyInv'
    BY <1>18 DEF Return, TailTypes, Flags, HoldsInv, JobInv, SideInv, FrameInv, TurnInv,
       ReadyInv, TidyInv, Tidy, Left, Its, MyTurn
  <2> QED BY <2>0, <2>1, <2>2, <2>3, <2>4
<1>19. ASSUME NEW c \in Client, NativeFails(c) PROVE TailInv'
  <2>0. Flags'
    BY <1>19 DEF NativeFails, Flags
  <2>1. TailTypes'
    BY <1>19 DEF NativeFails, TailTypes, JobInv
  <2>2. (HoldsInv /\ JobInv /\ SideInv /\ FrameInv)'
    BY <1>19 DEF NativeFails, TailTypes, Flags, HoldsInv, JobInv, SideInv, FrameInv
  <2>3. (TurnInv /\ ReadyInv)'
    BY <1>19 DEF NativeFails, TailTypes, Flags, HoldsInv, JobInv, SideInv, FrameInv,
       TurnInv, ReadyInv, Its, MyTurn
  <2>4. TidyInv'
    BY <1>19 DEF NativeFails, TailTypes, Flags, HoldsInv, JobInv, SideInv, FrameInv,
       TurnInv, ReadyInv, TidyInv, Tidy, Left, Its, MyTurn
  <2> QED BY <2>0, <2>1, <2>2, <2>3, <2>4
<1>20. ASSUME NEW c \in Client, After(c) PROVE TailInv'
  <2>0. Flags'
    BY <1>20 DEF After, Flags
  <2>1. TailTypes'
    BY <1>20 DEF After, TailTypes, JobInv
  <2>2. (HoldsInv /\ JobInv /\ SideInv /\ FrameInv)'
    BY <1>20 DEF After, TailTypes, Flags, HoldsInv, JobInv, SideInv, FrameInv
  <2>3. (TurnInv /\ ReadyInv)'
    BY <1>20 DEF After, TailTypes, Flags, HoldsInv, JobInv, SideInv, FrameInv, TurnInv,
       ReadyInv, Its, MyTurn
  <2>4. TidyInv'
    BY <1>20 DEF After, TailTypes, Flags, HoldsInv, JobInv, SideInv, FrameInv, TurnInv,
       ReadyInv, TidyInv, Tidy, Left, Its, MyTurn
  <2> QED BY <2>0, <2>1, <2>2, <2>3, <2>4
<1>21. ASSUME NEW c \in Client, Except(c) PROVE TailInv'
  <2>0. Flags'
    BY <1>21 DEF Except, Flags, Retire
  <2>1. TailTypes'
    BY <1>21 DEF Except, TailTypes, Retire, JobInv
  <2>2. (HoldsInv /\ JobInv /\ SideInv /\ FrameInv)'
    BY <1>21 DEF Except, TailTypes, Flags, HoldsInv, JobInv, SideInv, FrameInv, Retire
  <2>3. (TurnInv /\ ReadyInv)'
    BY <1>21 DEF Except, TailTypes, Flags, HoldsInv, JobInv, SideInv, FrameInv, TurnInv,
       ReadyInv, Its, MyTurn, Retire
  <2>4. TidyInv'
    BY <1>21 DEF Except, TailTypes, Flags, HoldsInv, JobInv, SideInv, FrameInv, TurnInv,
       ReadyInv, TidyInv, Tidy, Left, Its, MyTurn, Retire
  <2> QED BY <2>0, <2>1, <2>2, <2>3, <2>4
<1>22. ASSUME NEW c \in Client, Finally(c) PROVE TailInv'
  <2>0. Flags'
    BY <1>22 DEF Finally, Flags, Retire
  <2>1. TailTypes'
    BY <1>22 DEF Finally, TailTypes, Retire, JobInv
  <2>2. (HoldsInv /\ JobInv /\ SideInv /\ FrameInv)'
    BY <1>22 DEF Finally, TailTypes, Flags, HoldsInv, JobInv, SideInv, FrameInv, Retire
  <2>3. (TurnInv /\ ReadyInv)'
    BY <1>22 DEF Finally, TailTypes, Flags, HoldsInv, JobInv, SideInv, FrameInv, TurnInv,
       ReadyInv, Its, MyTurn, Retire
  <2>4. TidyInv'
    BY <1>22 DEF Finally, TailTypes, Flags, HoldsInv, JobInv, SideInv, FrameInv, TurnInv,
       ReadyInv, TidyInv, Tidy, Left, Its, MyTurn, Retire
  <2> QED BY <2>0, <2>1, <2>2, <2>3, <2>4
<1>23. ASSUME NEW c \in Client, LogReturn(c) PROVE TailInv'
  <2>0. Flags'
    BY <1>23 DEF LogReturn, Flags
  <2>1. TailTypes'
    BY <1>23 DEF LogReturn, TailTypes, JobInv
  <2>2. (HoldsInv /\ JobInv /\ SideInv /\ FrameInv)'
    BY <1>23 DEF LogReturn, TailTypes, Flags, HoldsInv, JobInv, SideInv, FrameInv
  <2>3. (TurnInv /\ ReadyInv)'
    BY <1>23 DEF LogReturn, TailTypes, Flags, HoldsInv, JobInv, SideInv, FrameInv,
       TurnInv,
       ReadyInv, Its, MyTurn
  <2>4. TidyInv'
    BY <1>23 DEF LogReturn, TailTypes, Flags, HoldsInv, JobInv, SideInv, FrameInv,
       TurnInv,
       ReadyInv, TidyInv, Tidy, Left, Its, MyTurn
  <2> QED BY <2>0, <2>1, <2>2, <2>3, <2>4
<1>24. CASE UNCHANGED vars
  BY <1>24 DEF vars, TailTypes, Flags, HoldsInv, JobInv, SideInv, FrameInv, TurnInv,
     ReadyInv, TidyInv, Tidy, Left, Its, MyTurn
<1> QED BY <1>1, <1>2, <1>3, <1>4, <1>5, <1>6, <1>7, <1>8, <1>9, <1>10, <1>11, <1>12,
   <1>13, <1>14, <1>15, <1>16, <1>17, <1>18, <1>19, <1>20, <1>21, <1>22, <1>23, <1>24
   DEF Next, Inside

-----------------------------------------------------------------------------
(* The invariant holds in every reachable state. *)
THEOREM TailInvariance == Spec => []TailInv
  BY TailStarts, TailHolds, PTL DEF Spec

(* Between tail calls the decoded tables and the weights are gone, and so  *)
(* are the registry and the placeholder unless the frame waits for its     *)
(* next launch, for all threads and frames and every failure on the way    *)
(* (bridge.py:219-231).                                                    *)
THEOREM Retired == Spec => []RetiredBetweenCalls
<1>1. TailInv => RetiredBetweenCalls
  BY DEF TailInv, TidyInv, Tidy, RetiredBetweenCalls
<1> QED BY TailInvariance, <1>1, PTL

(* The launches of a frame complete in their order, each once and of the   *)
(* frame that was started last, holding the lock and with the registry     *)
(* their frame was started with (bridge.py:174-178).                       *)
THEOREM InOrder == Spec => TailInOrder
<1> DEFINE Ordered(c) == /\ IF L(c) = 155 THEN next = None ELSE next = L(c) /\ frame = F(c)
                         /\ F(c) = started
                         /\ lock = c /\ registry = "ready"
           Fresh == frame' \notin {frame, None} => frame' > started
<1>1. ASSUME TailInv, NEW c \in Client, pc[c] = "native" PROVE Ordered(c)
  BY <1>1 DEF TailInv, HoldsInv, TurnInv, ReadyInv, Its, MyTurn, Holding, Working
<1>2. ASSUME TailInv, [Next]_vars PROVE Fresh
  <2>1. CASE \E c \in Client : CheckFirst(c)
    BY <2>1 DEF CheckFirst, First
  <2>2. CASE frame' \in {frame, None}
    BY <2>2
  <2>3. (\E c \in Client : CheckFirst(c)) \/ frame' \in {frame, None}
    BY <1>2 DEF Next, Inside, vars, tail, OtherBegin, OtherEnd, Reject, Enter, PrepFails,
       Prefix,
       CheckNext, CheckRejects, Register, RegisterFails, Load, LoadFails, Tables,
          TablesFail,
       CallFails, Call, Return, NativeFails, After, Except, Retire, Finally, LogReturn
  <2> QED BY <2>1, <2>2, <2>3
<1>3. TailInv /\ [Next]_vars =>
        [(\A c \in Client : Completes(c) => Ordered(c)) /\ Fresh]_vars
  BY <1>1, <1>2 DEF Completes
<1> QED BY TailInvariance, <1>3, PTL DEF Spec, TailInOrder
===============================================================================
