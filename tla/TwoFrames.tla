------------------------------- MODULE TwoFrames -------------------------------
(***************************************************************************)
(* run_1080_two_frames.py: main starts one worker process that computes    *)
(* the launches of frame 0 and then of frame 1.  After each launch the     *)
(* worker prints a ROW of hashes and waits; main compares the row with the *)
(* reference and answers GO or STOP.  After the last launch of a frame the *)
(* worker prints a FRAME line, which main checks with compare of           *)
(* run_1080_f0.py.  The two share nothing but two pipes; the worker can    *)
(* raise, and either of them can be killed at any time.                    *)
(***************************************************************************)
EXTENDS Receipt

VARIABLES diff,      \* what differs from the reference: <<frame, launch>>, or
                     \* <<frame, Last + 1>> for the final image
          worker,    \* where the worker is, "exited" or "killed" at the end
          wf, wl,    \* its frame and launch
          wrc,       \* its exit code: 0, 1, or 2 for a signal; 3 while it runs
          toMain, toWorker, \* the lines in the two pipes
          closed,    \* main closed the worker's stdin
          verify_only, \* --verify-only
          main,      \* where main is
          reply,     \* the answer main is about to write
          got,       \* the rows main received for each frame
          results,   \* the compare exit of each finished frame
          first,     \* frame, launch and status of the first failure, or <<>>
          files,     \* the reports main wrote
          exit       \* the exit code of main; 3 while it runs

wvars == <<worker, wf, wl, wrc>>
mvars == <<verify_only, closed, main, reply, got, results, first, files, exit>>
pipes == <<toMain, toWorker>>
vars  == <<diff, wvars, mvars, pipes>>

Init == /\ diff \in SUBSET (Frames \X (0 .. Last + 1))
        /\ worker = "none" /\ wf = 0 /\ wl = 0 /\ wrc = 3
        /\ toMain = <<>> /\ toWorker = <<>> /\ closed = FALSE
        /\ verify_only \in BOOLEAN /\ main = "prepare" /\ reply = "none"
        /\ got = [f \in Frames |-> <<>>]
        /\ results = <<>>
        /\ first = <<>> /\ files = {} /\ exit = 3

Dead  == worker \in {"exited", "killed"}
Ended == main \in {"ended", "killed"}

-----------------------------------------------------------------------------
(* The worker. *)

WExit(rc) == worker' = "exited" /\ wrc' = rc /\ UNCHANGED <<wf, wl>>
Alive     == worker \notin {"none", "exited", "killed"}

(* An exception: a pin, a launch, the lineage of the frames, written_ranges *)
WRaise == /\ worker \in {"bind", "compute", "finish"}
          /\ WExit(1)
          /\ UNCHANGED <<diff, mvars, pipes>>
WKill == /\ Alive /\ worker' = "killed" /\ wrc' = 2
         /\ UNCHANGED <<diff, wf, wl, mvars, pipes>>
(* The textures of a frame are bound: the caller's uploads, and what the   *)
(* frame before left.                                                      *)
WBind == /\ worker = "bind" /\ worker' = "compute" /\ wl' = 0
         /\ UNCHANGED <<diff, wf, wrc, mvars, pipes>>
(* bridge.run, and print: it raises when main is gone. *)
WLaunch == /\ worker = "compute"
           /\ IF Ended THEN WExit(1) /\ UNCHANGED toMain
              ELSE /\ toMain' = Append(toMain, [line |-> "ROW", f |-> wf, L |-> wl])
                   /\ worker' = "wait" /\ UNCHANGED <<wf, wl, wrc>>
           /\ UNCHANGED <<diff, toWorker, mvars>>
(* stdin.readline(): GO, or STOP, or nothing when the pipe is closed. *)
WGo == /\ worker = "wait" /\ toWorker # <<>> /\ Head(toWorker) = "GO"
       /\ toWorker' = Tail(toWorker)
       /\ IF wl < Last THEN worker' = "compute" /\ wl' = wl + 1
                       ELSE worker' = "frame" /\ UNCHANGED wl
       /\ UNCHANGED <<diff, wf, wrc, toMain, mvars>>
WFrame == /\ worker = "frame"
          /\ IF Ended THEN WExit(1) /\ UNCHANGED toMain
             ELSE /\ toMain' = Append(toMain, [line |-> "FRAME", f |-> wf, L |-> Last + 1])
                  /\ worker' = "waitframe" /\ UNCHANGED <<wf, wl, wrc>>
          /\ UNCHANGED <<diff, toWorker, mvars>>
WFrameGo == /\ worker = "waitframe" /\ toWorker # <<>> /\ Head(toWorker) = "GO"
            /\ toWorker' = Tail(toWorker)
            /\ IF wf = 0 THEN worker' = "bind" /\ wf' = 1 ELSE worker' = "finish" /\ UNCHANGED wf
            /\ UNCHANGED <<diff, wl, wrc, toMain, mvars>>
WStopped_NotByEof == /\ worker \in {"wait", "waitframe"}
                     /\ toWorker # <<>> /\ Head(toWorker) = "STOP" /\ toWorker' = Tail(toWorker)
                     /\ WExit(1)
                     /\ UNCHANGED <<diff, toMain, mvars>>
WStopped == /\ worker \in {"wait", "waitframe"}
            /\ \/ toWorker # <<>> /\ Head(toWorker) = "STOP" /\ toWorker' = Tail(toWorker)
               \/ toWorker = <<>> /\ (closed \/ Ended) /\ UNCHANGED toWorker
            /\ WExit(1)
            /\ UNCHANGED <<diff, toMain, mvars>>
WFinish == /\ worker = "finish" /\ WExit(0)
           /\ UNCHANGED <<diff, mvars, pipes>>

-----------------------------------------------------------------------------
(* main. *)

(* Relocation, references, pins, job.json; --verify-only ends here; else   *)
(* Popen. *)
Prepare == /\ main = "prepare"
           /\ IF verify_only THEN main' = "ended" /\ exit' = 0 /\ UNCHANGED worker
                             ELSE main' = "read" /\ worker' = "bind" /\ UNCHANGED exit
           /\ UNCHANGED <<diff, verify_only, wf, wl, wrc, pipes, closed, reply, got, results, first, files>>
PrepareFails == /\ main = "prepare"
                /\ main' = "ended" /\ exit' = 1
                /\ UNCHANGED <<diff, verify_only, wvars, pipes, closed, reply, got, results, first, files>>

Compare_RowsOnly(f) == IF got[f] # [i \in 1 .. Last + 1 |-> i - 1] THEN 4
                       ELSE IF \E l \in Launches : <<f, l>> \in diff THEN 2 ELSE 0
Compare(f) == CompareReceipt(got[f], {d[2] : d \in {x \in diff : x[1] = f}}, Len(got[f]), Last)

Failure(m, status) == /\ first' = <<m.f, m.L, status>>
                      /\ files' = files \cup {"first-comparison-failure"}
                      /\ reply' = "STOP"
Differs(m) == m.L # Len(got[m.f]) \/ <<m.f, m.L>> \in diff
ReadRow == LET m == Head(toMain) IN
  /\ main = "read" /\ toMain # <<>> /\ m.line = "ROW"
  /\ toMain' = Tail(toMain)
  /\ got' = [got EXCEPT ![m.f] = Append(@, m.L)]
  /\ IF Differs(m) THEN Failure(m, "DIFF")
                   ELSE reply' = "GO" /\ UNCHANGED <<first, files>>
  /\ main' = "write"
  /\ UNCHANGED <<diff, verify_only, wvars, toWorker, closed, results, exit>>
ReadFrame == LET m == Head(toMain)
                 rc == Compare(m.f)
             IN
  /\ main = "read" /\ toMain # <<>> /\ m.line = "FRAME"
  /\ toMain' = Tail(toMain)
  /\ IF rc # 0 THEN Failure(m, IF rc \in {2, 3} THEN "DIFF" ELSE "INVALID")
               ELSE reply' = "GO" /\ UNCHANGED <<first, files>>
  /\ results' = Append(results, <<m.f, rc>>)
  /\ main' = "write"
  /\ UNCHANGED <<diff, verify_only, wvars, toWorker, closed, got, exit>>

(* stdin.write and flush; BrokenPipeError ends main when the worker died.  *)
Answer == /\ main = "write" /\ ~Dead
          /\ toWorker' = Append(toWorker, reply)
          /\ main' = IF reply = "GO" THEN "read" ELSE "close"
          /\ UNCHANGED <<diff, verify_only, wvars, toMain, closed, reply, got, results, first, files, exit>>
WriteBroken == /\ main = "write" /\ Dead
               /\ main' = "ended" /\ exit' = 1
               /\ UNCHANGED <<diff, verify_only, wvars, pipes, closed, reply, got, results, first, files>>
EndOfOutput == /\ main = "read" /\ toMain = <<>> /\ Dead
               /\ main' = "close"
               /\ UNCHANGED <<diff, verify_only, wvars, pipes, closed, reply, got, results, first, files, exit>>
(* stdin.close(), then wait. *)
Close == /\ main = "close"
         /\ closed' = TRUE /\ main' = "wait"
         /\ UNCHANGED <<diff, verify_only, wvars, pipes, reply, got, results, first, files, exit>>
Blocked == first # <<>> \/ wrc # 0 \/ {results[i][1] : i \in DOMAIN results} # Frames
Finish == /\ main = "wait" /\ Dead
          /\ files' = files \cup {"comparison"}
          /\ exit' = IF ~Blocked THEN 0 ELSE IF first # <<>> THEN 2 ELSE 1
          /\ main' = "ended"
          /\ UNCHANGED <<diff, verify_only, wvars, pipes, closed, reply, got, results, first>>

MKill == /\ main \notin {"prepare", "ended", "killed"} /\ main' = "killed"
         /\ UNCHANGED <<diff, verify_only, wvars, pipes, closed, reply, got, results, first, files, exit>>

-----------------------------------------------------------------------------
Worker == \/ WRaise \/ WBind \/ WLaunch \/ WGo \/ WFrame \/ WFrameGo \/ WStopped \/ WFinish
Main   == \/ Prepare \/ PrepareFails \/ ReadRow \/ ReadFrame \/ Answer \/ WriteBroken
          \/ EndOfOutput \/ Close \/ Finish
Next == Worker \/ Main \/ WKill \/ MKill

-----------------------------------------------------------------------------
(* "Exit code 0 = both frames match ... 2 = a launch or final image        *)
(* differs; 1 = blocked before a comparison" (lines 13-14): whatever the   *)
(* worker does, exit 0 of a run that is not --verify-only means that every *)
(* launch and both images were compared and match, exit 2 that something   *)
(* differs, and, unless the worker was killed, exit 1 that no difference   *)
(* was seen.  The failure that is reported is the first one: everything    *)
(* before it was compared and matches, and a difference is never reported  *)
(* as an incomplete receipt.                                               *)
Before(f, l) == {x \in Frames \X (0 .. Last + 1) : x[1] < f \/ (x[1] = f /\ x[2] < l)}
ExitMeansVerdict ==
  /\ exit = 0 /\ ~verify_only => diff = {} /\ wrc = 0 /\ \A f \in Frames : Len(got[f]) = Last + 1
  /\ exit = 2 => first # <<>>
  /\ first # <<>> => /\ first[3] = "DIFF" /\ <<first[1], first[2]>> \in diff
                     /\ Before(first[1], first[2]) \cap diff = {}
  /\ exit = 1 /\ wrc # 2 => first = <<>>

(* Once the worker is started both processes end, whichever of them raises *)
(* or is killed: a worker whose main is gone stops at its next line or at  *)
(* the closed pipe.                                                        *)
BothEnd == main # "prepare" ~> Ended /\ (Dead \/ worker = "none")
===============================================================================
