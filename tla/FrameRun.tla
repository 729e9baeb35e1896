------------------------------- MODULE FrameRun -------------------------------
(***************************************************************************)
(* A session of one thread with one Bridge: each call selects and prepares *)
(* its frame (FrameSwitch), the native launch reads and writes the         *)
(* workspace (LaunchIO), and the launches of repack and outtail compute    *)
(* with the static pool (StaticPool).  The pools of the other owners are   *)
(* the subject of TicketPool; here their computation ends or throws.       *)
(***************************************************************************)
EXTENDS FrameSwitch, LaunchIO, StaticPool

CONSTANT Sessions  \* what a session may do: frames, programs, calls, pool

(* Pointers and lengths are words of the parameter block.  zstores are the *)
(* padded ViT adapter's: they zero words of its first output, one after    *)
(* the other in some order, and are reported as one range.                 *)
Roles == [ptr : 0 .. Word - 1, len : 0 .. Word - 1, ok : BOOLEAN]
OneRun(z) == /\ z \in Seq(Nat)
             /\ \E a \in 0 .. Word : ToSet(z) = a .. a + Len(z) - 1
ASSUME SessionAssumption ==
  \A s \in Sessions :
    /\ s.frames \subseteq Frame /\ DOMAIN s.progs \subseteq Launch
    /\ \A l \in DOMAIN s.progs :
         LET p == s.progs[l]
         IN  /\ p.ins \in Seq(Roles) /\ p.outs \in Seq(Roles) /\ p.rels \in Seq(Roles)
             /\ p.family = "vit" \/ p.zstore = <<>>
             /\ p.zstore # <<>> => p.outs # <<>> /\ OneRun(p.zstore)

VARIABLES session, \* the session
          calls    \* the calls made so far

fvars == <<bvars, iovars, vars, session, calls>>
OnlyBridge == UNCHANGED <<iovars, vars, session, calls>>
OnlyIO     == UNCHANGED <<bvars, vars, session, calls>>

FInit == /\ BInit /\ IOInit /\ Init
         /\ session \in Sessions
         /\ calls = 0
         /\ ~session.pool => ~strided /\ n = 0 /\ nt = 1 /\ seed = 0

Call == /\ calls < session.calls
        /\ calls' = calls + 1
        /\ \E f \in session.frames, l \in DOMAIN session.progs, g \in session.frames :
             Select(f, l, Param[g][l]) \/ SelectFails(f, l, Param[g][l])
        /\ UNCHANGED <<iovars, vars, session>>

Prepare == BStep /\ OnlyBridge

Launched == /\ Admit /\ Enter(session.progs[call.launch])
            /\ UNCHANGED <<vars, session, calls>>

Transfer == IOStep /\ OnlyIO

(* parallel and execute of repack are joined before they return or throw.  *)
Pool      == /\ io = "compute" /\ prog.pool /\ Next
             /\ UNCHANGED <<bvars, iovars, session, calls>>
Finished  == /\ (prog.pool => main = "returned") /\ Computed /\ OnlyIO
Failed    == /\ (prog.pool => main = "raised") /\ ComputeFails /\ OnlyIO

Ended == Done /\ Leave /\ UNCHANGED <<vars, session, calls>>

FNext == Call \/ Prepare \/ Launched \/ Transfer \/ Pool \/ Finished \/ Failed \/ Ended

FSpec == FInit /\ [][FNext]_fvars
=============================================================================
