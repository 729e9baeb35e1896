------------------------------ MODULE BackendAbi ------------------------------
(***************************************************************************)
(* backend_abi.py: the one place that configures and runs the native       *)
(* modules.  configure, run_launch and configure_bridge_outtail take the   *)
(* module-wide lock _serial without waiting and are refused when it is     *)
(* held; _state and _configured_launch remember what was configured; every *)
(* native module keeps the tables of the launch it was last configured     *)
(* for.  The tail module has a lock of its own, stage_mutex, because       *)
(* Bridge runs it after configure_bridge_outtail gave _serial back.        *)
(*                                                                         *)
(* A step is what a thread does without giving another one the chance to   *)
(* observe it: the interpreter may switch between any two of them.  Names  *)
(* Name_Variant are slips a maintainer could make in Name.                 *)
(***************************************************************************)
EXTENDS Naturals, FiniteSets

CONSTANTS Client,   \* the threads that call in
          Launch,
          OwnerOf,  \* route_owner of each launch
          Bare,     \* launches whose native code reads no table: entry L0 and L1
          None

Owner      == {"entry", "tin", "split16", "vit", "outtail"}
Releasable == {"entry", "split16", "outtail"}  \* the owners _retire knows

ASSUME AbiAssumption == /\ OwnerOf \in [Launch -> Owner]
                        /\ Bare \subseteq Launch
                        /\ None \notin Client \cup Launch \cup [owner : Owner, wt : BOOLEAN]

VARIABLES serial,     \* the holder of _serial
          state,      \* _state: the owner and whether its weights are loaded, or None
          configured, \* _configured_launch
          tables,     \* the launches each native module can run
          stage,      \* the holder of stage_mutex
          pc, arg,    \* where each client is, and its launch
          did         \* how its last call ended

vars == <<serial, state, configured, tables, stage, pc, arg, did>>

State(o, wt) == [owner |-> o, wt |-> wt]
(* tin is configured with the rows of all its launches at once. *)
Served(L) == IF OwnerOf[L] = "tin" THEN {l \in Launch : OwnerOf[l] = "tin"} ELSE {L}

Init == /\ serial = None /\ state = None /\ configured = None
        /\ tables = [o \in Owner |-> {}]
        /\ stage = None
        /\ pc = [c \in Client |-> "idle"]
        /\ arg = [c \in Client |-> None]
        /\ did = [c \in Client |-> "none"]

Goto(c, at) == pc' = [pc EXCEPT ![c] = at]
End(c, how) == Goto(c, "idle") /\ did' = [did EXCEPT ![c] = how]
Release(c)  == serial' = None

(* "CONFIGURE_RUN_BUSY": the lock is held, nothing changes. *)
Busy(c) == /\ pc[c] = "idle" /\ serial # None
           /\ did' = [did EXCEPT ![c] = "raised"]
           /\ UNCHANGED <<serial, state, configured, tables, stage, pc, arg>>

Enter_Unlocked(c, L, at) == /\ pc[c] = "idle"
                            /\ serial' = c
                            /\ arg' = [arg EXCEPT ![c] = L]
                            /\ Goto(c, at)
                            /\ UNCHANGED <<state, configured, tables, stage, did>>
Enter(c, L, at) == /\ pc[c] = "idle" /\ serial = None
                   /\ serial' = c
                   /\ arg' = [arg EXCEPT ![c] = L]
                   /\ Goto(c, at)
                   /\ UNCHANGED <<state, configured, tables, stage, did>>

-----------------------------------------------------------------------------
(* configure *)

BeginConfigure(c, L) == Enter(c, L, "retire")

(* _retire(_state), the resets, and _clear_adapter of every ViT adapter.   *)
Retired == IF state # None /\ state.owner \in Releasable
             THEN [tables EXCEPT !["vit"] = {}, ![state.owner] = {}]
             ELSE [tables EXCEPT !["vit"] = {}]
(* optm_clear_tables raises "TAIL_CONFIGURE_RUN_BUSY" while a launch runs. *)
RetireFails == state # None /\ state.owner = "outtail" /\ stage # None

RetireOld(c) == /\ pc[c] = "retire" /\ ~RetireFails
                /\ tables' = Retired /\ state' = None /\ configured' = None
                /\ Goto(c, "load")
                /\ UNCHANGED <<serial, stage, arg, did>>
(* Raised before "began": the old state stays as it was. *)
RetireOldFails(c) == /\ pc[c] = "retire" /\ RetireFails
                     /\ End(c, "raised") /\ Release(c)
                     /\ UNCHANGED <<state, configured, tables, stage, arg>>

(* The route row, the asset registry, the parameter pins, bridge_prefix,   *)
(* and the module; _state holds the module before it is configured.        *)
LoadRow(c) == /\ pc[c] = "load"
              /\ \/ /\ state' = State(OwnerOf[arg[c]], FALSE)
                    /\ Goto(c, "tables")
                 \/ UNCHANGED state /\ Goto(c, "failed")
              /\ UNCHANGED <<serial, configured, tables, stage, arg, did>>

(* The configure of the native module, or of the ViT adapter, which checks *)
(* bindings, artifacts and modules: it may stop on the way, and the tail   *)
(* module is busy while another thread runs a launch in it.                *)
LoadTables(c) ==
  LET o == OwnerOf[arg[c]]
  IN  /\ pc[c] = "tables"
      /\ \/ /\ o = "outtail" => stage = None
            /\ tables' = [tables EXCEPT ![o] = Served(arg[c])]
            /\ Goto(c, "weights")
         \/ /\ o = "outtail" => stage = None
            /\ tables' \in {tables, [tables EXCEPT ![o] = {}]}
            /\ Goto(c, "failed")
         \/ /\ o = "outtail" /\ stage # None
            /\ UNCHANGED tables /\ Goto(c, "busy")
      /\ UNCHANGED <<serial, state, configured, stage, arg, did>>

(* The device weights, the read-set and the ABI identity check. *)
Complete(c) == /\ pc[c] = "weights"
               /\ \/ /\ state' = State(OwnerOf[arg[c]], TRUE)
                     /\ configured' = arg[c]
                     /\ End(c, "ok") /\ Release(c)
                  \/ /\ UNCHANGED <<configured, serial, did>>
                     /\ state' \in {state, State(OwnerOf[arg[c]], TRUE)}
                     /\ Goto(c, "failed")
               /\ UNCHANGED <<tables, stage, arg>>

(* except BaseException: what the failed configure loaded is retired,      *)
(* except when the error says the native module is in use.                 *)
HandleFailure_KeepTables(c) ==
  /\ pc[c] \in {"failed", "busy"}
  /\ tables' = [tables EXCEPT !["vit"] = {}]
  /\ state' = None
  /\ End(c, "raised") /\ Release(c)
  /\ UNCHANGED <<configured, stage, arg>>
HandleFailure(c) == /\ \/ /\ pc[c] = "failed" /\ ~RetireFails
                          /\ tables' = Retired /\ state' = None
                       \/ /\ pc[c] = "busy"
                          /\ tables' = [tables EXCEPT !["vit"] = {}] /\ state' = None
                       \/ /\ pc[c] = "failed" /\ RetireFails
                          /\ UNCHANGED <<tables, state>>
                    /\ End(c, "raised") /\ Release(c)
                    /\ UNCHANGED <<configured, stage, arg>>

-----------------------------------------------------------------------------
(* run_launch *)

BeginRun(c, L) == Enter(c, L, "check")

(* "ABI_CONFIGURED_LAUNCH_MISMATCH", and the alias guard, which releases   *)
(* the entry assets when it refuses.                                       *)
Matches_StateOnly(L) == state # None
Matches(L) == state # None /\ configured = L
Refuse(c) == /\ pc[c] = "check" /\ ~Matches(arg[c])
             /\ End(c, "raised") /\ Release(c)
             /\ UNCHANGED <<state, configured, tables, stage, arg>>
RefuseAlias(c) == /\ pc[c] = "check" /\ Matches(arg[c])
                  /\ tables' = IF state.owner = "entry" THEN [tables EXCEPT !["entry"] = {}]
                                                        ELSE tables
                  /\ End(c, "raised") /\ Release(c)
                  /\ UNCHANGED <<state, configured, stage, arg>>

(* The module is called with views of the weights; without weights the     *)
(* view cannot be made, and the tail module may be busy.                   *)
CanCall(c) == /\ state.owner = "vit" \/ state.wt
              /\ state.owner = "outtail" => stage = None
Call(c) == /\ pc[c] = "check" /\ Matches(arg[c]) /\ CanCall(c)
           /\ Goto(c, "native")
           /\ stage' = IF state.owner = "outtail" THEN c ELSE stage
           /\ UNCHANGED <<serial, state, configured, tables, arg, did>>
CallFails(c) == /\ pc[c] = "check" /\ Matches(arg[c]) /\ ~CanCall(c)
                /\ Goto(c, "finally")
                /\ UNCHANGED <<serial, state, configured, tables, stage, arg, did>>

HasTables(L) == L \in Bare \/ L \in tables[OwnerOf[L]]

(* The native launch returns, or throws: it refuses to run without its     *)
(* tables.  A tail launch that throws has cleared them.                    *)
Return(c) == LET o == OwnerOf[arg[c]] IN
  /\ pc[c] = "native"
  /\ \/ HasTables(arg[c]) /\ did' = [did EXCEPT ![c] = "ok"] /\ UNCHANGED tables
     \/ /\ did' = [did EXCEPT ![c] = "raised"]
        /\ tables' = IF o = "outtail" THEN [tables EXCEPT ![o] = {}] ELSE tables
  /\ stage' = IF o = "outtail" THEN None ELSE stage
  /\ Goto(c, "finally")
  /\ UNCHANGED <<serial, state, configured, arg>>

(* finally: the views, then the assets of entry and split16, then _serial. *)
Finally(c) == /\ pc[c] = "finally"
              /\ tables' = IF OwnerOf[arg[c]] \in {"entry", "split16"}
                             THEN [tables EXCEPT ![OwnerOf[arg[c]]] = {}] ELSE tables
              /\ Goto(c, "idle") /\ Release(c)
              /\ UNCHANGED <<state, configured, stage, arg, did>>

-----------------------------------------------------------------------------
(* configure_bridge_outtail, and what Bridge does after it: the launch     *)
(* without _serial, then optm_clear_tables.                                *)

BeginPrep(c, L) == OwnerOf[L] = "outtail" /\ Enter(c, L, "prep")

(* Its handler clears the tail tables whatever failed; _state stays None.  *)
Prep(c) ==
  /\ pc[c] = "prep"
  /\ \/ /\ ~RetireFails /\ stage = None
        /\ tables' = [Retired EXCEPT !["outtail"] = Served(arg[c])]
        /\ state' = None /\ configured' = arg[c]
        /\ Goto(c, "tail") /\ did' = [did EXCEPT ![c] = "ok"] /\ Release(c)
     \/ /\ stage = None
        /\ tables' = [Retired EXCEPT !["outtail"] = {}]
        /\ state' = None /\ configured' = None
        /\ End(c, "raised") /\ Release(c)
     \/ /\ stage # None  \* the handler itself raises: TAIL_CONFIGURE_RUN_BUSY
        /\ IF RetireFails
             THEN UNCHANGED <<tables, state, configured>>
             ELSE tables' = Retired /\ state' = None /\ configured' = None
        /\ End(c, "raised") /\ Release(c)
  /\ UNCHANGED <<stage, arg>>

TailCall(c) == /\ pc[c] = "tail"
               /\ IF stage = None THEN stage' = c /\ Goto(c, "tailnative")
                                  ELSE UNCHANGED stage /\ Goto(c, "tailclear")
               /\ UNCHANGED <<serial, state, configured, tables, arg, did>>
TailReturn(c) == /\ pc[c] = "tailnative"
                 /\ \/ HasTables(arg[c]) /\ did' = [did EXCEPT ![c] = "ok"] /\ UNCHANGED tables
                    \/ /\ did' = [did EXCEPT ![c] = "raised"]
                       /\ tables' = [tables EXCEPT !["outtail"] = {}]
                 /\ stage' = None
                 /\ Goto(c, "tailclear")
                 /\ UNCHANGED <<serial, state, configured, arg>>
TailClear(c) == /\ pc[c] = "tailclear"
                /\ \/ stage = None /\ tables' = [tables EXCEPT !["outtail"] = {}] /\ UNCHANGED did
                   \/ stage # None /\ UNCHANGED tables /\ did' = [did EXCEPT ![c] = "raised"]
                /\ Goto(c, "idle")
                /\ UNCHANGED <<serial, state, configured, stage, arg>>

-----------------------------------------------------------------------------
Begin(c) == \E L \in Launch : BeginConfigure(c, L) \/ BeginRun(c, L) \/ BeginPrep(c, L)
Continue(c) == \/ RetireOld(c) \/ RetireOldFails(c) \/ LoadRow(c) \/ LoadTables(c)
               \/ Complete(c) \/ HandleFailure(c)
               \/ Refuse(c) \/ RefuseAlias(c) \/ Call(c) \/ CallFails(c)
               \/ Return(c) \/ Finally(c)
               \/ Prep(c) \/ TailCall(c) \/ TailReturn(c) \/ TailClear(c)
Next == \E c \in Client : Begin(c) \/ Busy(c) \/ Continue(c)

Spec == Init /\ [][Next]_vars

-----------------------------------------------------------------------------
Locked == {"retire", "load", "tables", "weights", "failed", "busy", "check", "native",
           "finally", "prep"}
Place  == Locked \cup {"idle", "tail", "tailnative", "tailclear"}

TypeOK == /\ serial \in Client \cup {None}
          /\ state \in [owner : Owner, wt : BOOLEAN] \cup {None}
          /\ configured \in Launch \cup {None}
          /\ tables \in [Owner -> SUBSET Launch]
          /\ stage \in Client \cup {None}
          /\ pc \in [Client -> Place]
          /\ arg \in [Client -> Launch \cup {None}]
          /\ did \in [Client -> {"none", "ok", "raised"}]

(* A launch never computes with the tables of another one, whatever        *)
(* configures, failures and refusals came before: the native module holds  *)
(* the tables of this launch or none, and then it refuses                  *)
(* (backend_abi.py:203, stage_codec.inc:20).                               *)
InNative(c) == pc[c] \in {"native", "tailnative"}
RunsOwnTables ==
  \A c \in Client : pc[c] = "native" => tables[OwnerOf[arg[c]]] \subseteq Served(arg[c])

(* While a launch runs nobody replaces or clears the tables of its module  *)
(* under it.                                                               *)
TablesHeldStill ==
  [][\A c \in Client : InNative(c) /\ InNative(c)'
        => tables'[OwnerOf[arg[c]]] = tables[OwnerOf[arg[c]]]]_vars

(* A configure that failed, or a launch that ended, leaves no decoded      *)
(* tables of entry, split16, outtail or the ViT behind except those the    *)
(* next _retire will find by _state: never those of two of them, which is  *)
(* the memory bound of a launch.  tin is not among them: _retire has no    *)
(* branch for it (lines 21-26) and its rows stay until the next configure. *)
Quiet == \A c \in Client : pc[c] = "idle"
NothingLeftBehind ==
  Quiet => \A o \in Releasable \cup {"vit"} :
             tables[o] # {} => state # None /\ state.owner = o

(* Two native launches never run at once, except a tail launch, which      *)
(* Bridge runs outside _serial and stage_mutex keeps alone in its module.  *)
NativeAlone ==
  \A c, d \in Client : c # d /\ InNative(c) /\ InNative(d)
     => /\ pc[c] = "tailnative" \/ pc[d] = "tailnative"
        /\ OwnerOf[arg[c]] # OwnerOf[arg[d]]

(***************************************************************************)
(* The inductive invariant.  _serial is held exactly between Enter and the *)
(* end of a call, so what a call reads of _state stays true to its end.    *)
(***************************************************************************)
Native(c) == pc[c] = "tailnative" \/ (pc[c] = "native" /\ OwnerOf[arg[c]] = "outtail")

LockInv  == \A c \in Client : pc[c] \in Locked <=> serial = c
StageInv == \A c \in Client : Native(c) <=> stage = c
ArgInv   == \A c \in Client : /\ pc[c] # "idle" => arg[c] \in Launch
                              /\ pc[c] \in {"prep", "tail", "tailnative", "tailclear"}
                                   => OwnerOf[arg[c]] = "outtail"
MatchInv == state # None /\ configured # None =>
              /\ state.owner = OwnerOf[configured]
              /\ tables[OwnerOf[configured]] \subseteq Served(configured)
LoadInv  == \A c \in Client :
              pc[c] \in {"load", "tables", "weights", "failed", "busy"} =>
                /\ configured = None
                /\ pc[c] \in {"tables", "weights", "busy"} =>
                     state # None /\ state.owner = OwnerOf[arg[c]]
                /\ pc[c] = "weights" => tables[OwnerOf[arg[c]]] \subseteq Served(arg[c])
RunInv   == \A c \in Client :
              pc[c] \in {"native", "finally"} => state # None /\ configured = arg[c]

IInv == TypeOK /\ LockInv /\ StageInv /\ ArgInv /\ MatchInv /\ LoadInv /\ RunInv
=============================================================================
