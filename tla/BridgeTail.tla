------------------------------ MODULE BridgeTail ------------------------------
(***************************************************************************)
(* Bridge.run for the tail launches L155, L156 and L157 (bridge.py,        *)
(* 166-231): three calls that share one upload receipt, one placeholder    *)
(* mapping and the registry of raw tables, and that must follow each other *)
(* within a frame.  The order is checked inside tail_prefix, against       *)
(* _tail_next and against the last entry of the event list, which the      *)
(* other launches of the same Bridge write to as well.  Several threads    *)
(* may use the Bridge; _tail_lock turns the second tail call away.         *)
(*                                                                         *)
(* The native module is seen from Bridge: which launch its tables are for, *)
(* and whether its registry is clear, ready or failed.  Its own locks and  *)
(* the registry are BackendAbi and ReachRegistry.                          *)
(***************************************************************************)
EXTENDS Naturals

CONSTANTS Client, Frame, None

Launch == 155 .. 157

ASSUME TailAssumption == Frame \subseteq Nat \ {0} /\ None \notin Client \cup Frame \cup Launch

VARIABLES lock,        \* the holder of _tail_lock
          started,     \* _tail_started_frame, 0 when it is None
          frame, next, \* _tail_frame and _tail_next
          joined,      \* _tail_joined
          receipt,     \* tail_weight_identity is a complete receipt
          weights,     \* tail_weights is loaded
          placeholder, \* _tail_placeholder is mapped
          registry,    \* the native registry of raw tables
          tables,      \* the launch the native tables are for, or None
          events,      \* the last two entries of Bridge.events
          pc, job,     \* where each client is, and the frame and launch it runs
          accepted, ok \* its call passed the order check; its call has not raised

tail == <<started, frame, next, joined, receipt, weights, placeholder>>
mod  == <<registry, tables>>
mine == <<pc, job, accepted, ok>>
vars == <<lock, tail, mod, events, mine>>

(* Entries of the list; the other launches are all <<0, 0>>. *)
Begun(f, l)  == [event |-> "call_begin", frame |-> f, launch |-> l]
Joined(f, l) == [event |-> "call_return_joined", frame |-> f, launch |-> l]
Log(e) == events' = <<events[2], e>>

F(c) == job[c][1]
L(c) == job[c][2]

Init == /\ lock = None /\ started = 0 /\ frame = None /\ next = None /\ joined = FALSE
        /\ receipt = FALSE /\ weights = FALSE /\ placeholder = FALSE
        /\ registry = "clear" /\ tables = None
        /\ events = <<Begun(0, 0), Joined(0, 0)>>
        /\ pc = [c \in Client |-> "out"] /\ job = [c \in Client |-> <<0, 0>>]
        /\ accepted = [c \in Client |-> FALSE] /\ ok = [c \in Client |-> TRUE]

Goto(c, at) == pc' = [pc EXCEPT ![c] = at]
Raise(c)    == Goto(c, "except") /\ ok' = [ok EXCEPT ![c] = FALSE]
Step(c, from, to) == pc[c] = from /\ Goto(c, to) /\ UNCHANGED <<job, accepted, ok>>
Fail(c, from)     == pc[c] = from /\ Raise(c) /\ UNCHANGED <<job, accepted>>

-----------------------------------------------------------------------------
(* A launch of another owner on the same Bridge.  Its call_begin is logged *)
(* by its configure, which holds the serial lock of backend_abi, as        *)
(* configure_bridge_outtail does; its call_return_joined is not.           *)
Configuring(c) == pc[c] \in {"check", "register", "load", "tables"}
OtherBegin(c) == /\ Step(c, "out", "other")
                 /\ \A d \in Client : ~Configuring(d)
                 /\ Log(Begun(0, 0))
                 /\ UNCHANGED <<lock, tail, mod>>
OtherEnd(c) == /\ Step(c, "other", "out")
               /\ Log(Joined(0, 0)) \/ UNCHANGED events
               /\ UNCHANGED <<lock, tail, mod>>

-----------------------------------------------------------------------------
(* A second tail call: "M03_TAIL_REENTRY_REJECTED", nothing changes.       *)
Reject(c) == /\ pc[c] = "out" /\ lock # None
             /\ ok' = [ok EXCEPT ![c] = FALSE]
             /\ UNCHANGED <<lock, tail, mod, events, pc, job, accepted>>
Enter(c) == /\ pc[c] = "out" /\ lock = None /\ lock' = c
            /\ \E f \in Frame, l \in Launch : job' = [job EXCEPT ![c] = <<f, l>>]
            /\ Goto(c, "prep")
            /\ accepted' = [accepted EXCEPT ![c] = FALSE] /\ ok' = [ok EXCEPT ![c] = TRUE]
            /\ UNCHANGED <<tail, mod, events>>

(* configure_bridge_outtail up to bridge_prefix: it retires the previous   *)
(* backend, and fails when another configure or run is in progress.  Its   *)
(* handler clears the tail tables whenever it holds the serial lock.       *)
PrepFails(c) == /\ Fail(c, "prep")
                /\ tables' \in {tables, None}
                /\ UNCHANGED <<lock, tail, registry, events>>
Prefix(c) == /\ Step(c, "prep", "check")
             /\ Log(Begun(F(c), L(c)))
             /\ UNCHANGED <<lock, tail, mod>>

(* tail_prefix: which launch may come now.  The last event but one is the  *)
(* one before this call's own call_begin.                                  *)
First(c) == L(c) = 155 /\ next = None /\ F(c) > started
Follows_NextOnly(c) == L(c) > 155 /\ next # None /\ joined /\ receipt
Follows(c) == /\ L(c) > 155 /\ frame = F(c) /\ next = L(c) /\ joined /\ receipt
              /\ events[1] = Joined(F(c), L(c) - 1)
CheckFirst(c) == /\ pc[c] = "check" /\ First(c)
                 /\ started' = F(c) /\ frame' = F(c) /\ joined' = FALSE /\ receipt' = FALSE
                 /\ accepted' = [accepted EXCEPT ![c] = TRUE]
                 /\ Goto(c, "register")
                 /\ UNCHANGED <<lock, next, weights, placeholder, mod, events, job, ok>>
CheckNext(c) == /\ pc[c] = "check" /\ Follows(c)
                /\ accepted' = [accepted EXCEPT ![c] = TRUE]
                /\ Goto(c, "register")
                /\ UNCHANGED <<lock, tail, mod, events, job, ok>>
CheckRejects(c) == /\ Fail(c, "check") /\ ~First(c) /\ ~Follows(c)
                   /\ tables' = None
                   /\ UNCHANGED <<lock, tail, registry, events>>

(* The registry is filled once per frame.  init_mufu_full_raw refuses a    *)
(* registry that is not clear; its pins are compared with the descriptors. *)
Register(c) == /\ Step(c, "register", "load")
               /\ registry \in {"ready", "clear"} /\ registry' = "ready"
               /\ UNCHANGED <<lock, tail, tables, events>>
RegisterFails(c) == /\ Fail(c, "register")
                    /\ registry # "ready"
                    /\ registry' \in {"failed", "ready"}
                    /\ tables' = None
                    /\ UNCHANGED <<lock, tail, events>>

(* L155 uploads the weights, the others map a placeholder of their size.   *)
Load(c) == /\ Step(c, "load", "tables")
           /\ IF L(c) = 155
                THEN weights' = TRUE /\ receipt' = TRUE /\ UNCHANGED placeholder
                ELSE placeholder' = TRUE /\ UNCHANGED <<weights, receipt>>
           /\ UNCHANGED <<lock, started, frame, next, joined, mod, events>>
LoadFails(c) == /\ Fail(c, "load")
                /\ IF L(c) = 155 THEN weights' \in BOOLEAN /\ receipt' \in BOOLEAN
                                 ELSE UNCHANGED <<weights, receipt>>
                /\ tables' = None
                /\ UNCHANGED <<lock, started, frame, next, joined, placeholder, registry, events>>

(* init_table_files, and the identity checks of configure_bridge_outtail.  *)
(* A failure inside init_table_files clears the registry as well.          *)
Tables(c) == /\ Step(c, "tables", "call")
             /\ tables' = L(c)
             /\ UNCHANGED <<lock, tail, registry, events>>
TablesFail(c) == /\ Fail(c, "tables")
                 /\ tables' = None
                 /\ registry' \in {registry, "clear"}
                 /\ UNCHANGED <<lock, tail, events>>

(* The alias guard and the metadata of the view come before the native     *)
(* launch; a view that was made is released, and L155 drops the weights.   *)
CallFails(c) == /\ Fail(c, "call")
                /\ weights' \in {weights, weights /\ L(c) # 155}
                /\ UNCHANGED <<lock, started, frame, next, joined, receipt, placeholder, mod, events>>
Call(c) == /\ Step(c, "call", "native")
           /\ UNCHANGED <<lock, tail, mod, events>>
(* L157 retires the registry itself; a launch that throws clears the       *)
(* tables and the registry.                                                *)
Return(c) == /\ Step(c, "native", "after")
             /\ tables = L(c)
             /\ registry' = IF L(c) = 157 THEN "clear" ELSE registry
             /\ weights' = (weights /\ L(c) # 155)
             /\ UNCHANGED <<lock, started, frame, next, joined, receipt, placeholder, tables, events>>
NativeFails(c) == /\ Fail(c, "native")
                  /\ tables' = None /\ registry' = "clear"
                  /\ weights' = (weights /\ L(c) # 155)
                  /\ UNCHANGED <<lock, started, frame, next, joined, receipt, placeholder, events>>
After(c) == /\ Step(c, "after", "finally")
            /\ joined' = (joined \/ L(c) = 155)
            /\ next' = IF L(c) < 157 THEN L(c) + 1 ELSE None
            /\ UNCHANGED <<lock, started, frame, receipt, weights, placeholder, mod, events>>

(* except: an accepted call that failed ends its frame.                    *)
Retire_KeepPlaceholder == /\ frame' = None /\ next' = None /\ joined' = FALSE
                          /\ tables' = None /\ registry' = "clear"
                          /\ UNCHANGED placeholder
Retire == /\ frame' = None /\ next' = None /\ joined' = FALSE
          /\ placeholder' = FALSE /\ tables' = None /\ registry' = "clear"
Except(c) == /\ Step(c, "except", "finally")
             /\ IF accepted[c] THEN Retire /\ weights' = FALSE
                               ELSE UNCHANGED <<frame, next, joined, placeholder, weights, mod>>
             /\ UNCHANGED <<lock, started, receipt, events>>

(* finally: the tables go after every launch, the rest after the last one. *)
Finally_KeepLock(c) ==
  /\ pc[c] = "finally"
  /\ UNCHANGED <<started, receipt, events, frame, next, joined, placeholder, weights, mod>>
  /\ lock' = IF accepted[c] THEN None ELSE lock
  /\ Goto(c, "out") /\ UNCHANGED <<job, accepted, ok>>
Finally(c) ==
  /\ pc[c] = "finally"
  /\ IF accepted[c]
       THEN /\ weights' = FALSE
            /\ IF L(c) = 157 \/ ~joined
                 THEN Retire
                 ELSE tables' = None /\ UNCHANGED <<frame, next, joined, placeholder, registry>>
       ELSE UNCHANGED <<frame, next, joined, placeholder, weights, mod>>
  /\ lock' = None
  /\ Goto(c, IF ok[c] THEN "log" ELSE "out")
  /\ UNCHANGED <<started, receipt, events, job, accepted, ok>>
(* The event of the return comes after the lock was given back.            *)
LogReturn(c) == /\ Step(c, "log", "out")
                /\ Log(Joined(F(c), L(c)))
                /\ UNCHANGED <<lock, tail, mod>>

-----------------------------------------------------------------------------
Inside(c) == \/ PrepFails(c) \/ Prefix(c) \/ CheckFirst(c) \/ CheckNext(c) \/ CheckRejects(c)
             \/ Register(c) \/ RegisterFails(c) \/ Load(c) \/ LoadFails(c)
             \/ Tables(c) \/ TablesFail(c) \/ CallFails(c) \/ Call(c)
             \/ Return(c) \/ NativeFails(c) \/ After(c) \/ Except(c) \/ Finally(c)
             \/ LogReturn(c)
Next == \E c \in Client : OtherBegin(c) \/ OtherEnd(c) \/ Reject(c) \/ Enter(c) \/ Inside(c)

Spec == Init /\ [][Next]_vars
(* A call that has begun runs to its end. *)
FairSpec == Spec /\ \A c \in Client : WF_vars(Inside(c))

-----------------------------------------------------------------------------
(* The tail of a frame runs natively in order and each launch of it once:  *)
(* what a completed launch is followed by is its successor in the same     *)
(* frame or the first launch of a later frame, and no frame is started a   *)
(* second time, whatever was rejected or failed in between                 *)
(* (bridge.py:174-178).  It completes with the lock held and the registry  *)
(* its frame was started with.                                             *)
Completes(c) == pc[c] = "native" /\ pc'[c] = "after"
TailInOrder ==
  [][/\ \A c \in Client : Completes(c) =>
          /\ IF L(c) = 155 THEN next = None ELSE next = L(c) /\ frame = F(c)
          /\ F(c) = started
          /\ lock = c /\ registry = "ready"
     /\ frame' \notin {frame, None} => frame' > started]_vars

(* Between tail calls the decoded tables and the weights are gone, and     *)
(* unless the frame waits for its next launch the registry, its file       *)
(* descriptors and the placeholder are too (bridge.py:219-231).            *)
RetiredBetweenCalls ==
  lock = None => /\ tables = None /\ ~weights
                 /\ next = None => registry = "clear" /\ ~placeholder /\ frame = None

(* The lock of the tail is given back by every call.                       *)
LockReturns == \A c \in Client : lock = c ~> lock # c
===============================================================================
