----------------------------- MODULE BridgeMiddle -----------------------------
(***************************************************************************)
(* Bridge.run for the launches between entry and tail (tin, split16, vit), *)
(* composed with BackendAbi: configure, whose bridge_prefix loads the      *)
(* caller weights, a view of them, run_launch, and the two releases of the *)
(* finally block.  Bridge keeps the caller weights in one attribute of the *)
(* object and takes no lock around the sequence, so the steps of two       *)
(* threads that use the same Bridge interleave.                            *)
(***************************************************************************)
EXTENDS BackendAbi

CONSTANT Mapped  \* the launches whose caller weights are a fresh mmap

ASSUME MiddleAssumption == Mapped \subseteq Launch

Middle == {L \in Launch : OwnerOf[L] \in {"tin", "split16", "vit"}}

VARIABLES cw,   \* caller_weights: its loader and whether it is a mmap, or None
          fwd,  \* the loader of the weights each client forwards, or None
          seen, \* the state a client read before it writes it back, or None
          crossed, \* history: two calls of Bridge.run have overlapped
          step  \* where each client is in Bridge.run

bvars == <<vars, cw, fwd, seen, crossed, step>>

BInit == /\ Init
         /\ cw = None
         /\ fwd = [c \in Client |-> None]
         /\ seen = [c \in Client |-> None]
         /\ crossed = FALSE
         /\ step = [c \in Client |-> "out"]

At(c, s) == step' = [step EXCEPT ![c] = s]

(* self.abi.configure(...); a busy lock is an exception like any other.    *)
BConfigure(c) == /\ step[c] = "out"
                 /\ \/ /\ \E L \in Middle : BeginConfigure(c, L)
                       /\ At(c, "configure")
                    \/ Busy(c) /\ At(c, "finally")
                 /\ crossed' = (crossed \/ \E d \in Client : step[d] # "out")
                 /\ UNCHANGED <<cw, fwd, seen>>

(* bridge_prefix: load_caller_weights_mmap refuses a second owner          *)
(* ("M01_CALLER_OWNER_ALREADY_LIVE"), load_caller_weights keeps a first.   *)
Prefix(c) == IF arg[c] \in Mapped
               THEN cw = None /\ cw' = [by |-> c, mmap |-> TRUE]
               ELSE IF cw = None THEN cw' = [by |-> c, mmap |-> FALSE] ELSE UNCHANGED cw
BLoadRow(c) == /\ step[c] = "configure"
               /\ \/ LoadRow(c) /\ pc'[c] = "tables" /\ Prefix(c)
                  \/ LoadRow(c) /\ pc'[c] = "failed" /\ (UNCHANGED cw \/ Prefix(c))
               /\ UNCHANGED <<fwd, seen, crossed, step>>

(* The rest of configure; its end is the end of the configure call.        *)
BAdvance(c) == /\ step[c] = "configure"
               /\ RetireOld(c) \/ RetireOldFails(c) \/ LoadTables(c) \/ Complete(c) \/ HandleFailure(c)
               /\ IF pc'[c] # "idle" THEN UNCHANGED step
                  ELSE At(c, IF did'[c] = "ok" THEN "view" ELSE "finally")
               /\ UNCHANGED <<cw, fwd, seen, crossed>>

(* self.abi._state[0], and forwarded = memoryview(self.caller_weights)     *)
BView(c) == /\ step[c] = "view"
            /\ IF state # None /\ cw # None
                 THEN fwd' = [fwd EXCEPT ![c] = cw.by] /\ At(c, "run") /\ UNCHANGED did
                 ELSE At(c, "finally") /\ UNCHANGED fwd /\ did' = [did EXCEPT ![c] = "raised"]
            /\ UNCHANGED <<serial, state, configured, tables, stage, pc, arg, cw, seen, crossed>>

(* self.abi.run_launch(...) *)
BRun(c) == /\ step[c] = "run"
           /\ \/ BeginRun(c, arg[c]) /\ At(c, "running")
              \/ Busy(c) /\ At(c, "release")
           /\ UNCHANGED <<cw, fwd, seen, crossed>>
BRunning(c) == /\ step[c] = "running"
               /\ Refuse(c) \/ RefuseAlias(c) \/ Call(c) \/ CallFails(c) \/ Return(c) \/ Finally(c)
               /\ IF pc'[c] # "idle" THEN UNCHANGED step ELSE At(c, "release")
               /\ UNCHANGED <<cw, fwd, seen, crossed>>

(* finally: forwarded.release() *)
BReleaseView(c) == /\ step[c] = "release"
                   /\ fwd' = [fwd EXCEPT ![c] = None]
                   /\ At(c, "finally")
                   /\ UNCHANGED <<vars, cw, seen, crossed>>

(* release_caller_weights_m01: the attribute is cleared first, and the     *)
(* mmap cannot be closed while another thread holds a view of it.          *)
BReleaseCaller_OnSuccess(c) ==
  /\ step[c] = "finally"
  /\ cw' = IF did[c] = "ok" THEN None ELSE cw
  /\ At(c, "drop")
  /\ UNCHANGED <<vars, fwd, seen, crossed>>
BReleaseCaller(c) ==
  /\ step[c] = "finally"
  /\ cw' = None
  /\ IF cw # None /\ cw.mmap /\ \E d \in Client : fwd[d] = cw.by
       THEN At(c, "out") /\ did' = [did EXCEPT ![c] = "raised"]  \* BufferError
       ELSE At(c, "drop") /\ UNCHANGED did
  /\ UNCHANGED <<serial, state, configured, tables, stage, pc, arg, fwd, seen, crossed>>

(* release_packed_after_join_m01 reads abi._state and writes it back       *)
(* without its weights, and holds no lock from the one to the other.       *)
Packed(st) == st # None /\ st.owner \in {"tin", "split16"}
BDrop_Forgotten(c) == step[c] = "drop" /\ At(c, "out") /\ UNCHANGED <<vars, cw, fwd, seen, crossed>>
BDrop(c) == /\ step[c] = "drop"
            /\ IF Packed(state) THEN At(c, "write") /\ seen' = [seen EXCEPT ![c] = state]
                                ELSE At(c, "out") /\ UNCHANGED seen
            /\ UNCHANGED <<vars, cw, fwd, crossed>>
BWriteBack(c) == /\ step[c] = "write"
                 /\ state' = State(seen[c].owner, FALSE)
                 /\ seen' = [seen EXCEPT ![c] = None]
                 /\ At(c, "out")
                 /\ UNCHANGED <<serial, configured, tables, stage, pc, arg, did, cw, fwd, crossed>>

BStep(c) == \/ BConfigure(c) \/ BLoadRow(c) \/ BAdvance(c) \/ BView(c) \/ BRun(c)
            \/ BRunning(c) \/ BReleaseView(c) \/ BReleaseCaller(c) \/ BDrop(c)
            \/ BWriteBack(c)
BNext == \E c \in Client : BStep(c)

BSpec == BInit /\ [][BNext]_bvars

-----------------------------------------------------------------------------
(* When no call is in progress neither the caller weights nor the packed   *)
(* device weights stay in memory, whichever calls failed or were refused   *)
(* in between (bridge.py:108-116).                                         *)
NoWeightsLeft == (\A c \in Client : step[c] = "out") => cw = None /\ ~(Packed(state) /\ state.wt)

(* Calls that follow one another are never turned away because of what     *)
(* the earlier ones left behind, failed or not, whichever thread made      *)
(* them: the prefix finds no live caller owner, and the launch that was    *)
(* just configured is the one that may run (bridge.py:64,234-246,          *)
(* backend_abi.py:203).                                                    *)
SerialNeverRefused ==
  ~crossed => \A c \in Client : /\ pc[c] = "load" => cw = None
                                /\ pc[c] = "check" => Matches(arg[c]) /\ CanCall(c)

(* "run_launch has returned or unwound: borrower views and native threads  *)
(* joined" (bridge.py:114): the packed weights of _state are dropped only  *)
(* when no launch is running.                                              *)
DropsAfterJoin ==
  [][Packed(state) /\ Packed(state') /\ state.wt /\ ~state'.wt /\ UNCHANGED configured
       => \A c \in Client : pc[c] # "native"]_bvars
=============================================================================
