------------------------------- MODULE FrameZero -------------------------------
(***************************************************************************)
(* run_1080_f0.py and devkit_worker.py: the driver relocates, starts a     *)
(* worker, waits for it and compares the receipt it left in <root>/out.    *)
(* The root may hold the tree and the receipt of earlier runs, complete or *)
(* not: nothing in out is removed at the start.  A kill ends the driver    *)
(* and its worker together, or the worker alone.                           *)
(***************************************************************************)
EXTENDS PinnedLoad, Receipt

VARIABLES zrun,      \* how many times the driver was started
          verify,    \* --verify-only
          stop,      \* --stop-after, in the worker's job.json
          zmain,     \* where the driver is
          zexit,     \* its exit code; 9 while it runs or when it was killed
          zworker,   \* where the worker is
          zrc,       \* its exit code: 0, 1, or 8 for a signal
          zrows,     \* for each launch it computed, does it differ
          zfinal,    \* does the final image differ
          perlaunch, \* perlaunch.json: zrows of the run that wrote it
          result,    \* result.json: [launches, final], or <<>>
          failure    \* the run that wrote first-failure.json

zvars == <<zrun, verify, stop, zmain, zexit, zworker, zrc, zrows, zfinal, perlaunch, result, failure>>
out   == <<perlaunch, result, failure>>

ZInit == /\ zrun = 0 /\ verify = FALSE /\ stop = 0 /\ zmain = "none" /\ zexit = 9
         /\ zworker = "none" /\ zrc = 0 /\ zrows = <<>> /\ zfinal = FALSE
         /\ perlaunch = <<>> /\ result = <<>> /\ failure = 0
         /\ reader = NoReader

ZStart == /\ zmain \in {"none", "ended", "killed"}
          /\ \E v \in BOOLEAN, s \in Launches : verify' = v /\ stop' = s
          /\ StartRelocate(FALSE)
          /\ zrun' = zrun + 1 /\ zmain' = "relocate" /\ zexit' = 9 /\ zworker' = "none"
          /\ zrows' = <<>> /\ zfinal' = FALSE /\ reader' = NoReader
          /\ UNCHANGED <<zrc, out>>

ZRefused == /\ zmain = "relocate" /\ rphase = "refused"
            /\ zmain' = "ended" /\ zexit' = 1
            /\ UNCHANGED <<rvars, reader, zrun, verify, stop, zworker, zrc, zrows, zfinal, out>>
(* The layer and job.json are written anew; --verify-only ends here. *)
ZPrepare == /\ zmain = "relocate" /\ rphase = "done"
            /\ IF verify THEN zmain' = "ended" /\ zexit' = 0 /\ UNCHANGED zworker
                         ELSE zmain' = "call" /\ zworker' = "load" /\ UNCHANGED zexit
            /\ UNCHANGED <<rvars, reader, zrun, verify, stop, zrc, zrows, zfinal, out>>

-----------------------------------------------------------------------------
(* The worker. *)
ZExit(rc) == zworker' = "exited" /\ zrc' = rc
(* The pinned inputs; one of them is followed. *)
ZOpen == /\ zworker = "load" /\ reader = NoReader
         /\ \E s \in Styles, p \in given : Open(s, p)
         /\ UNCHANGED <<rvars, zvars>>
ZLoad == /\ zworker = "load" /\ LoadStep
         /\ UNCHANGED <<rvars, zvars>>
ZLoaded == /\ zworker = "load" /\ Loaded
           /\ zworker' = "compute"
           /\ UNCHANGED <<rvars, reader, zrun, verify, stop, zmain, zexit, zrc, zrows, zfinal, out>>
(* Any exception: a pin, a refused launch, WRITTEN_RANGES_DIFF *)
ZRaise == /\ zworker \in {"load", "compute"} /\ reader.left = <<>>
          /\ ZExit(1) /\ failure' = zrun
          /\ UNCHANGED <<rvars, reader, zrun, verify, stop, zmain, zexit, zrows, zfinal, perlaunch, result>>
ZLaunch == /\ zworker = "compute" /\ Len(zrows) <= stop
           /\ \E differs \in BOOLEAN : zrows' = Append(zrows, differs)
           /\ UNCHANGED <<rvars, reader, zrun, verify, stop, zmain, zexit, zworker, zrc, zfinal, out>>
WriteRows == /\ zworker = "compute" /\ Len(zrows) = stop + 1
             /\ zfinal' \in IF stop = Last THEN BOOLEAN ELSE {TRUE}
             /\ perlaunch' = zrows /\ zworker' = "result"
             /\ UNCHANGED <<rvars, reader, zrun, verify, stop, zmain, zexit, zrc, zrows, result, failure>>
WriteResult == /\ zworker = "result"
               /\ result' = <<Len(zrows), zfinal>> /\ ZExit(0)
               /\ UNCHANGED <<rvars, reader, zrun, verify, stop, zmain, zexit, zrows, zfinal, perlaunch, failure>>

-----------------------------------------------------------------------------
(* compare over what is in out now. *)
Verdict == CompareReceipt([n \in DOMAIN perlaunch |-> n - 1],
                          {n - 1 : n \in {m \in DOMAIN perlaunch : perlaunch[m]}}
                            \cup (IF result # <<>> /\ result[2] THEN {Last + 1} ELSE {}),
                          IF result = <<>> THEN 0 ELSE result[1], stop)
ZJudge_RcIgnored == Verdict
(* RUN_FAILED, or compare. *)
ZJudge == IF zrc # 0 THEN zrc ELSE Verdict
ZFinish == /\ zmain = "call" /\ zworker = "exited"
           /\ zmain' = "ended" /\ zexit' = ZJudge
           /\ UNCHANGED <<rvars, reader, zrun, verify, stop, zworker, zrc, zrows, zfinal, out>>

KillWorker == /\ zworker \in {"load", "compute", "result"} /\ zmain = "call"
              /\ ZExit(8)
              /\ UNCHANGED <<rvars, reader, zrun, verify, stop, zmain, zexit, zrows, zfinal, out>>
KillAll == /\ zmain \in {"relocate", "call"}
           /\ zmain' = "killed" /\ zworker' = "none"
           /\ IF rphase = "running" THEN KillRelocate ELSE UNCHANGED rvars
           /\ UNCHANGED <<reader, zrun, verify, stop, zexit, zrc, zrows, zfinal, out>>

ZStep == \/ ZStart \/ ZRefused \/ ZPrepare \/ ZOpen \/ ZLoad \/ ZLoaded \/ ZRaise
         \/ ZLaunch \/ WriteRows \/ WriteResult \/ ZFinish \/ KillWorker \/ KillAll

(* "Exit code 0 = every launch and the final image match; 2 = a launch     *)
(* differs; 3 = the final image differs" (run_1080_f0.py:13-14), of this   *)
(* run and not of an earlier one whose receipt is still in out; and a      *)
(* worker that ends well never leaves a receipt that is judged incomplete. *)
ThisRunDiffers == \E n \in DOMAIN zrows : zrows[n]
CodeMeansThisRun ==
  zmain = "ended" /\ ~verify =>
    /\ zexit = 0 => /\ Len(zrows) = stop + 1 /\ ~ThisRunDiffers
                    /\ stop = Last => ~zfinal
    /\ zexit = 2 => ThisRunDiffers
    /\ zexit = 3 => ~ThisRunDiffers /\ stop = Last /\ zfinal
    /\ zexit # 4
===============================================================================
