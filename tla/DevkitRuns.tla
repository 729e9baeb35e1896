------------------------------ MODULE DevkitRuns ------------------------------
(***************************************************************************)
(* A user's session with the devkit: the frame-0 driver any number of      *)
(* times over one root, or the two-frame driver once over a new root.      *)
(* Both begin with relocate.run.                                           *)
(***************************************************************************)
EXTENDS FrameZero, TwoFrames

CONSTANT Sessions  \* what is tried: [driver, kit, diff, verify, runs, edits],
                   \* with bounds on frame-0 runs and edits of an input;
                   \* verify is --verify-only of the two-frame driver

VARIABLE session

driver == session.driver

zero  == <<reader, zvars>>
dvars == <<session, rvars, zero, vars>>

DInit == /\ \E s \in Sessions : session = s /\ kit = s.kit /\ diff = s.diff /\ verify_only = s.verify
         /\ RInit /\ ZInit /\ Init

(* run_1080_f0.py *)
ZeroStep == /\ driver = "f0" /\ ZStep /\ (zrun' # zrun => zrun < session.runs)
            /\ UNCHANGED <<session, vars>>
EditInput == /\ driver = "f0"
             /\ \E p \in Range(kit.required) : user[p].stamp < session.edits /\ Edit(p)
             /\ UNCHANGED <<session, zero, vars>>

(* run_1080_two_frames.py: root.mkdir(exist_ok=False), then relocate.run   *)
(* with the inputs of both frames.                                         *)
StartTwo == /\ driver = "two" /\ main = "prepare" /\ rphase = "idle" /\ work = <<>>
            /\ StartRelocate(TRUE)
            /\ UNCHANGED <<session, zero, vars>>
KillTwo  == /\ driver = "two" /\ main = "prepare" /\ KillRelocate
            /\ main' = "killed"
            /\ UNCHANGED <<session, zero, diff, wvars, pipes>>
            /\ UNCHANGED <<verify_only, closed, reply, got, results, first, files, exit>>
TwoStep(A) == /\ driver = "two" /\ A /\ (main = "prepare" => rphase \in {"done", "refused"})
              /\ (main = "prepare" /\ main' = "read" => rphase = "done")
              /\ UNCHANGED <<session, rvars, zero>>

Relocating == RelocateStep /\ UNCHANGED <<session, zero, vars>>

DNext == \/ ZeroStep \/ EditInput \/ StartTwo \/ KillTwo \/ TwoStep(Next) \/ Relocating
DSpec == DInit /\ [][DNext]_dvars
(* The scheduler runs the driver of two frames and its worker. *)
DFair == /\ DSpec
         /\ WF_dvars(TwoStep(Worker)) /\ WF_dvars(TwoStep(Main))

===============================================================================
