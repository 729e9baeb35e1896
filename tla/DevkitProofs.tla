------------------------------ MODULE DevkitProofs ------------------------------
(***************************************************************************)
(* What the exit codes of the two drivers mean, proved for any number of   *)
(* launches in a frame, any number of starts over one root, and whatever   *)
(* differs from the reference; and, for every manifest, that relocation    *)
(* puts every file where its names lead, that every pin accepts the file   *)
(* it then finds, and that what is loaded is what was pinned.              *)
(***************************************************************************)
EXTENDS DevkitRuns, Arithmetic

-----------------------------------------------------------------------------
(* The driver of two frames and its worker. *)

(* Why it is so: at most one line is under way between the two, and it is  *)
(* about the launch the worker waits at.  main answers with STOP exactly   *)
(* if it has recorded a failure, so a worker that goes on, and a main that *)
(* reads on, mean that all rows so far were compared and match.  A worker  *)
(* that dies while main is about to write was killed: it does not raise    *)
(* while it waits.                                                         *)

(* The frames whose compare is through. *)
Compared == {results[i][1] : i \in DOMAIN results}
(* The rows 0 .. n - 1, in order. *)
Counted(n) == [i \in 1 .. n |-> i - 1]
TwoTypes == /\ diff \subseteq Frames \X (0 .. Last + 1) /\ wf \in Frames /\ wl \in Launches
            /\ worker \in {"none", "bind", "compute", "wait", "frame", "waitframe", "finish", "exited", "killed"}
            /\ main \in {"prepare", "read", "write", "close", "wait", "ended", "killed"}
            /\ results \in Seq(Frames \X Nat)
CodeInv  == /\ worker = "exited" => wrc \in {0, 1}
            /\ worker = "killed" => wrc = 2
            /\ ~Dead => wrc = 3
            /\ exit \in {0, 1, 2, 3} /\ (main # "ended" <=> exit = 3)
GotInv == /\ DOMAIN got = Frames
          /\ \A f \in Frames : \E n \in 0 .. Last + 1 : got[f] = Counted(n)
          /\ wf = 0 => got[1] = Counted(0) /\ 1 \notin Compared
          /\ wf = 1 => 0 \in Compared
          /\ \A f \in Compared : got[f] = Counted(Last + 1)
WaitInv ==
  /\ worker \in {"none", "bind"} => got[wf] = Counted(0)
  /\ worker = "compute" => got[wf] = Counted(wl)
  /\ worker = "wait" /\ toMain = <<>> => got[wf] = Counted(wl + 1)
  /\ worker \in {"frame", "waitframe", "finish"} => wl = Last /\ got[wf] = Counted(Last + 1)
  /\ worker \in {"none", "bind", "compute", "wait", "frame"} => wf \notin Compared
  /\ worker = "waitframe" /\ toMain = <<>> => wf \in Compared
  /\ worker = "finish" => Compared = Frames
TurnInv ==
  /\ worker \in {"none", "bind", "compute", "frame", "finish"} => toMain = <<>> /\ toWorker = <<>> /\ first = <<>>
  /\ worker \in {"bind", "compute", "frame", "finish"} => main \in {"read", "killed"}
  /\ worker \in {"wait", "waitframe"} => main \in {"read", "write", "close", "wait", "killed"}
  /\ main = "prepare" => worker = "none"
  /\ closed = TRUE => main \in {"wait", "ended", "killed"}
  /\ worker = "none" => main \in {"prepare", "ended", "killed"} /\ exit # 2
  /\ main = "write" => /\ worker \in {"wait", "waitframe", "killed"} /\ toMain = <<>> /\ toWorker = <<>>
                       /\ reply = IF first = <<>> THEN "GO" ELSE "STOP"
  /\ main = "read" => first = <<>>
  /\ main \in {"close", "wait"} => first # <<>> \/ Dead
  /\ main = "ended" => Dead \/ worker = "none"
RowLine   == [line |-> "ROW", f |-> wf, L |-> wl]
FrameLine == [line |-> "FRAME", f |-> wf, L |-> Last + 1]
PipeInv ==
  /\ \/ toMain = <<>>
     \/ /\ main \in {"read", "killed"} /\ toWorker = <<>> /\ first = <<>>
        /\ worker \in {"wait", "waitframe", "killed", "exited"} /\ (worker = "exited" => main = "killed")
        /\ wf \notin Compared
        /\ \/ toMain = <<RowLine>> /\ got[wf] = Counted(wl) /\ worker # "waitframe"
           \/ toMain = <<FrameLine>> /\ got[wf] = Counted(Last + 1) /\ worker # "wait"
  /\ \/ toWorker = <<>>
     \/ /\ worker \in {"wait", "waitframe", "killed", "exited"}
        /\ \/ toWorker = <<"GO">> /\ first = <<>>
           \/ toWorker = <<"STOP">> /\ first # <<>>
FirstInv ==
  /\ first = <<>> => /\ \A f \in Frames, l \in Launches : l < Len(got[f]) => <<f, l>> \notin diff
                     /\ \A f \in Compared : <<f, Last + 1>> \notin diff
  /\ first # <<>> => /\ first[3] = "DIFF" /\ <<first[1], first[2]>> \in diff
                     /\ Before(first[1], first[2]) \cap diff = {}
ExitInv == /\ exit = 0 /\ ~verify_only => first = <<>> /\ Compared = Frames /\ wrc = 0
           /\ exit = 2 => first # <<>>
           /\ exit = 1 /\ wrc # 2 => first = <<>>
TInv == TwoTypes /\ CodeInv /\ GotInv /\ WaitInv /\ TurnInv /\ PipeInv /\ FirstInv /\ ExitInv

(* The invariant holds before anything was started. *)
LEMMA TwoStarts == Init => TInv
<1> SUFFICES ASSUME Init PROVE TInv
  OBVIOUS
<1>1. Compared = {} /\ results \in Seq(Frames \X Nat)
  BY DEF Init, Compared
<1>2. got = [f \in Frames |-> Counted(0)]
  BY DEF Init, Counted
<1>3. Len(Counted(0)) = 0
  BY DEF Counted
<1>4. TwoTypes /\ CodeInv
  BY <1>1, LastAssumption DEF Init, TwoTypes, CodeInv, Frames, Launches, Dead
<1>5. GotInv /\ WaitInv
  BY <1>1, <1>2, LastAssumption DEF Init, GotInv, WaitInv, Frames
<1>6. TurnInv /\ PipeInv /\ ExitInv
  BY <1>1, <1>2 DEF Init, TurnInv, PipeInv, ExitInv, Dead
<1>7. FirstInv
  BY <1>1, <1>2, <1>3 DEF Init, FirstInv, Launches
<1> QED BY <1>4, <1>5, <1>6, <1>7 DEF TInv

(* One row more; and a receipt tells how many rows it has. *)
LEMMA Counts ==
  ASSUME NEW n \in Nat
  PROVE  /\ Counted(n) \in Seq(Nat) /\ Len(Counted(n)) = n
         /\ Append(Counted(n), n) = Counted(n + 1)
         /\ \A k \in Nat : Counted(k) = Counted(n) => k = n
<1>1. Counted(n) \in Seq(Nat) /\ Len(Counted(n)) = n
  BY DEF Counted
<1>2. \A k \in Nat : DOMAIN Counted(k) = 1 .. k
  BY DEF Counted
<1>3. \A k \in Nat : Counted(k) = Counted(n) => k = n
  <2> SUFFICES ASSUME NEW k \in Nat, Counted(k) = Counted(n) PROVE k = n
    OBVIOUS
  <2>1. 1 .. k = 1 .. n
    BY <1>2
  <2> QED BY <2>1
<1>4. Append(Counted(n), n) = Counted(n + 1)
  <2>1. DOMAIN Append(Counted(n), n) = 1 .. n + 1
    BY <1>1
  <2>2. \A i \in 1 .. n + 1 : Append(Counted(n), n)[i] = i - 1
    BY <1>1 DEF Counted
  <2>3. Append(Counted(n), n) \in Seq(Nat)
    BY <1>1
  <2> QED BY <2>1, <2>2, <2>3 DEF Counted
<1> QED BY <1>1, <1>3, <1>4

(* What the worker does, its death included, keeps the invariant. *)
LEMMA WorkerHolds == TInv /\ (Worker \/ WKill) => TInv'
<1> SUFFICES ASSUME TInv, Worker \/ WKill PROVE TInv'
  OBVIOUS
<1>t. TwoTypes /\ CodeInv /\ GotInv /\ WaitInv /\ TurnInv /\ PipeInv /\ FirstInv /\ ExitInv /\ Last \in Nat
  BY LastAssumption DEF TInv
<1>1. CASE WRaise
  <2> USE <1>1 DEF WRaise, WExit, mvars, pipes
  <2>1. TwoTypes' /\ CodeInv' /\ GotInv' /\ WaitInv'
    BY <1>t DEF TwoTypes, CodeInv, GotInv, WaitInv, TurnInv, Compared, Dead
  <2>2. TurnInv' /\ PipeInv' /\ FirstInv' /\ ExitInv'
    BY <1>t DEF TurnInv, PipeInv, FirstInv, ExitInv, CodeInv, Compared, Dead, RowLine,
       FrameLine
  <2> QED BY <2>1, <2>2 DEF TInv
<1>2. CASE WKill
  <2> USE <1>2 DEF WKill, Alive, mvars, pipes
  <2>1. TwoTypes' /\ CodeInv' /\ GotInv' /\ WaitInv'
    BY <1>t DEF TwoTypes, CodeInv, GotInv, WaitInv, TurnInv, Compared, Dead
  <2>2. TurnInv' /\ PipeInv' /\ FirstInv' /\ ExitInv'
    BY <1>t DEF TurnInv, PipeInv, FirstInv, ExitInv, CodeInv, Compared, Dead, RowLine,
       FrameLine
  <2> QED BY <2>1, <2>2 DEF TInv
<1>3. CASE WBind
  <2> USE <1>3 DEF WBind, mvars, pipes
  <2>1. TwoTypes' /\ CodeInv' /\ GotInv' /\ WaitInv'
    BY <1>t DEF TwoTypes, CodeInv, GotInv, WaitInv, TurnInv, Compared, Dead, Launches
  <2>2. TurnInv' /\ PipeInv' /\ FirstInv' /\ ExitInv'
    BY <1>t DEF TurnInv, PipeInv, FirstInv, ExitInv, CodeInv, Compared, Dead, RowLine,
       FrameLine
  <2> QED BY <2>1, <2>2 DEF TInv
<1>4. CASE WLaunch
  <2>1. CASE Ended
    <3> USE <1>4, <2>1 DEF WLaunch, WExit, mvars
    <3>1. TwoTypes' /\ CodeInv' /\ GotInv' /\ WaitInv'
      BY <1>t DEF TwoTypes, CodeInv, GotInv, WaitInv, TurnInv, Compared, Dead
    <3>2. TurnInv' /\ PipeInv' /\ FirstInv' /\ ExitInv'
      BY <1>t DEF TurnInv, PipeInv, FirstInv, ExitInv, CodeInv, Compared, Dead,
         RowLine, FrameLine
    <3> QED BY <3>1, <3>2 DEF TInv
  <2>2. CASE ~Ended
    <3>1. /\ worker = "compute" /\ toMain = <<>> /\ toWorker = <<>> /\ first = <<>> /\ main = "read"
          /\ toMain' = <<RowLine>> /\ toMain' # <<>> /\ worker' = "wait"
          /\ UNCHANGED <<diff, wf, wl, wrc, toWorker, mvars>>
      BY <1>4, <1>t, <2>2 DEF WLaunch, TurnInv, RowLine, Ended
    <3>2. TwoTypes' /\ CodeInv' /\ GotInv' /\ WaitInv'
      BY <1>t, <3>1 DEF TwoTypes, CodeInv, GotInv, WaitInv, TurnInv, Compared, Dead, mvars
    <3>3. PipeInv'
      <4>1. toMain' = <<RowLine'>>
        BY <3>1 DEF RowLine
      <4> QED BY <1>t, <3>1, <4>1 DEF PipeInv, WaitInv, Compared, mvars
    <3>4. TurnInv' /\ FirstInv' /\ ExitInv'
      BY <1>t, <3>1 DEF TurnInv, FirstInv, ExitInv, CodeInv, Compared, Dead, mvars
    <3> QED BY <3>2, <3>3, <3>4 DEF TInv
  <2> QED BY <2>1, <2>2
<1>5. CASE WFrame
  <2>1. CASE Ended
    <3> USE <1>5, <2>1 DEF WFrame, WExit, mvars
    <3>1. TwoTypes' /\ CodeInv' /\ GotInv' /\ WaitInv'
      BY <1>t DEF TwoTypes, CodeInv, GotInv, WaitInv, TurnInv, Compared, Dead
    <3>2. TurnInv' /\ PipeInv' /\ FirstInv' /\ ExitInv'
      BY <1>t DEF TurnInv, PipeInv, FirstInv, ExitInv, CodeInv, Compared, Dead,
         RowLine, FrameLine
    <3> QED BY <3>1, <3>2 DEF TInv
  <2>2. CASE ~Ended
    <3>1. /\ worker = "frame" /\ toMain = <<>> /\ toWorker = <<>> /\ first = <<>> /\ main = "read"
          /\ toMain' = <<FrameLine>> /\ toMain' # <<>> /\ worker' = "waitframe"
          /\ UNCHANGED <<diff, wf, wl, wrc, toWorker, mvars>>
      <4>1. /\ worker = "frame" /\ toMain' = Append(toMain, FrameLine) /\ worker' = "waitframe"
            /\ UNCHANGED <<diff, wf, wl, wrc, toWorker, mvars>>
        BY <1>5, <2>2 DEF WFrame, FrameLine
      <4>2. toMain = <<>> /\ toWorker = <<>> /\ first = <<>> /\ main = "read"
        BY <1>t, <2>2, <4>1 DEF TurnInv, Ended
      <4> QED BY <4>1, <4>2
    <3>2. TwoTypes' /\ CodeInv' /\ GotInv' /\ WaitInv'
      BY <1>t, <3>1 DEF TwoTypes, CodeInv, GotInv, WaitInv, TurnInv, Compared, Dead, mvars
    <3>3. PipeInv'
      <4>1. toMain' = <<FrameLine'>>
        BY <3>1 DEF FrameLine
      <4> QED BY <1>t, <3>1, <4>1 DEF PipeInv, WaitInv, Compared, mvars
    <3>4. TurnInv' /\ FirstInv' /\ ExitInv'
      BY <1>t, <3>1 DEF TurnInv, FirstInv, ExitInv, CodeInv, Compared, Dead, mvars
    <3> QED BY <3>2, <3>3, <3>4 DEF TInv
  <2> QED BY <2>1, <2>2
<1>6. CASE WGo
  <2>1. /\ worker = "wait" /\ toMain = <<>> /\ toWorker = <<"GO">> /\ first = <<>>
        /\ toWorker' = <<>> /\ main \in {"read", "killed"} /\ got[wf] = Counted(wl + 1)
        /\ UNCHANGED <<diff, wf, wrc, toMain, mvars>>
    <3>1. /\ worker = "wait" /\ toWorker # <<>> /\ Head(toWorker) = "GO" /\ toWorker' = Tail(toWorker)
          /\ UNCHANGED <<diff, wf, wrc, toMain, mvars>>
      BY <1>6 DEF WGo
    <3>2. toMain = <<>> /\ toWorker = <<"GO">> /\ first = <<>>
      BY <3>1, <1>t DEF PipeInv
    <3>3. main \in {"read", "killed"} /\ got[wf] = Counted(wl + 1)
      BY <3>1, <3>2, <1>t DEF TurnInv, WaitInv, Dead
    <3> QED BY <3>1, <3>2, <3>3
  <2>2. \/ wl < Last /\ worker' = "compute" /\ wl' = wl + 1
        \/ wl = Last /\ worker' = "frame" /\ wl' = wl
    BY <1>6, <1>t DEF WGo, TwoTypes, Launches
  <2>3. TwoTypes' /\ CodeInv' /\ GotInv' /\ WaitInv'
    BY <1>t, <2>1, <2>2 DEF TwoTypes, CodeInv, GotInv, WaitInv, Compared, Dead, mvars,
       Launches
  <2>4. TurnInv' /\ PipeInv' /\ FirstInv' /\ ExitInv'
    BY <1>t, <2>1, <2>2 DEF TurnInv, PipeInv, FirstInv, ExitInv, CodeInv, Compared,
       Dead, mvars
  <2> QED BY <2>3, <2>4 DEF TInv
<1>7. CASE WFrameGo
  <2>1. /\ worker = "waitframe" /\ toMain = <<>> /\ toWorker = <<"GO">> /\ first = <<>>
        /\ toWorker' = <<>> /\ main \in {"read", "killed"} /\ wf \in Compared
        /\ got[wf] = Counted(Last + 1) /\ wl = Last
        /\ UNCHANGED <<diff, wl, wrc, toMain, mvars>>
    <3>1. /\ worker = "waitframe" /\ toWorker # <<>> /\ Head(toWorker) = "GO" /\ toWorker' = Tail(toWorker)
          /\ UNCHANGED <<diff, wl, wrc, toMain, mvars>>
      BY <1>7 DEF WFrameGo
    <3>2. toMain = <<>> /\ toWorker = <<"GO">> /\ first = <<>>
      BY <3>1, <1>t DEF PipeInv
    <3>3. main \in {"read", "killed"} /\ wf \in Compared /\ got[wf] = Counted(Last + 1) /\ wl = Last
      BY <3>1, <3>2, <1>t DEF TurnInv, WaitInv, Dead
    <3> QED BY <3>1, <3>2, <3>3
  <2>2. \/ wf = 0 /\ worker' = "bind" /\ wf' = 1 /\ got[1] = Counted(0) /\ 1 \notin Compared
        \/ wf = 1 /\ worker' = "finish" /\ wf' = 1 /\ 0 \in Compared
    BY <1>7, <1>t DEF WFrameGo, TwoTypes, Frames, GotInv
  <2>3. Compared' = Compared /\ Compared \subseteq Frames
    BY <2>1, <1>t DEF Compared, mvars, TwoTypes
  <2>4. TwoTypes' /\ CodeInv' /\ GotInv' /\ WaitInv'
    BY <1>t, <2>1, <2>2, <2>3 DEF TwoTypes, CodeInv, GotInv, WaitInv, Dead, mvars, Frames
  <2>5. TurnInv' /\ PipeInv' /\ FirstInv' /\ ExitInv'
    BY <1>t, <2>1, <2>2, <2>3 DEF TurnInv, PipeInv, FirstInv, ExitInv, CodeInv, Dead,
       mvars
  <2> QED BY <2>4, <2>5 DEF TInv
<1>8. CASE WStopped
  <2>1. /\ worker \in {"wait", "waitframe"} /\ worker' = "exited" /\ wrc' = 1
        /\ \/ toWorker = <<"STOP">> /\ toWorker' = <<>> /\ first # <<>> /\ toMain = <<>>
           \/ toWorker' = toWorker /\ toWorker = <<>> /\ main \in {"wait", "killed"}
              /\ (toMain # <<>> => main = "killed")
        /\ UNCHANGED <<diff, wf, wl, mvars, toMain>>
    <3>1. /\ worker \in {"wait", "waitframe"} /\ worker' = "exited" /\ wrc' = 1
          /\ UNCHANGED <<diff, wf, wl, mvars, toMain>>
      BY <1>8 DEF WStopped, WExit
    <3>2. CASE toWorker # <<>> /\ Head(toWorker) = "STOP" /\ toWorker' = Tail(toWorker)
      <4>1. toWorker = <<"STOP">> /\ first # <<>> /\ toMain = <<>>
        BY <3>2, <1>t DEF PipeInv
      <4> QED BY <3>1, <3>2, <4>1
    <3>3. CASE toWorker = <<>> /\ (closed \/ Ended) /\ UNCHANGED toWorker
      <4>1. main \in {"wait", "killed"}
        BY <3>1, <3>3, <1>t DEF TurnInv, Ended
      <4>2. toMain # <<>> => main \in {"read", "killed"}
        BY <1>t DEF PipeInv
      <4> QED BY <3>1, <3>3, <4>1, <4>2
    <3> QED BY <1>8, <3>2, <3>3 DEF WStopped
  <2>2. TwoTypes' /\ CodeInv' /\ GotInv' /\ WaitInv'
    BY <1>t, <2>1 DEF TwoTypes, CodeInv, GotInv, WaitInv, Compared, Dead, mvars
  <2>3. TurnInv' /\ PipeInv' /\ FirstInv' /\ ExitInv'
    BY <1>t, <2>1 DEF TurnInv, PipeInv, FirstInv, ExitInv, CodeInv, Compared, Dead,
       mvars, RowLine, FrameLine
  <2> QED BY <2>2, <2>3 DEF TInv
<1>9. CASE WFinish
  <2> USE <1>9 DEF WFinish, WExit, mvars, pipes
  <2>1. TwoTypes' /\ CodeInv' /\ GotInv' /\ WaitInv'
    BY <1>t DEF TwoTypes, CodeInv, GotInv, WaitInv, TurnInv, Compared, Dead
  <2>2. TurnInv' /\ PipeInv' /\ FirstInv' /\ ExitInv'
    BY <1>t DEF TurnInv, PipeInv, FirstInv, ExitInv, CodeInv, Compared, Dead, RowLine,
       FrameLine
  <2> QED BY <2>1, <2>2 DEF TInv
<1> QED BY <1>1, <1>2, <1>3, <1>4, <1>5, <1>6, <1>7, <1>8, <1>9 DEF Worker
(* And what main does. *)
LEMMA MainHolds == TInv /\ (Main \/ MKill) => TInv'
<1> SUFFICES ASSUME TInv, Main \/ MKill PROVE TInv'
  OBVIOUS
<1>t. TwoTypes /\ CodeInv /\ GotInv /\ WaitInv /\ TurnInv /\ PipeInv /\ FirstInv /\ ExitInv /\ Last \in Nat
  BY LastAssumption DEF TInv
<1>u. wf \in Frames /\ wl \in Launches /\ results \in Seq(Frames \X Nat) /\ Compared \subseteq Frames
  BY <1>t DEF TwoTypes, Compared
<1>1. CASE Prepare
  <2> USE <1>1 DEF Prepare, pipes
  <2>1. TwoTypes' /\ CodeInv' /\ GotInv' /\ WaitInv'
    BY <1>t DEF TwoTypes, CodeInv, GotInv, WaitInv, TurnInv, Compared, Dead
  <2>2. TurnInv' /\ PipeInv' /\ FirstInv' /\ ExitInv'
    BY <1>t DEF TurnInv, PipeInv, FirstInv, ExitInv, CodeInv, Compared, Dead, RowLine,
       FrameLine
  <2> QED BY <2>1, <2>2 DEF TInv
<1>2. CASE PrepareFails
  <2> USE <1>2 DEF PrepareFails, pipes, wvars
  <2>1. TwoTypes' /\ CodeInv' /\ GotInv' /\ WaitInv'
    BY <1>t DEF TwoTypes, CodeInv, GotInv, WaitInv, TurnInv, Compared, Dead
  <2>2. TurnInv' /\ PipeInv' /\ FirstInv' /\ ExitInv'
    BY <1>t DEF TurnInv, PipeInv, FirstInv, ExitInv, CodeInv, Compared, Dead, RowLine,
       FrameLine
  <2> QED BY <2>1, <2>2 DEF TInv
<1>3. CASE ReadRow
  <2>1. /\ main = "read" /\ toMain # <<>> /\ Head(toMain).line = "ROW" /\ toMain' = Tail(toMain)
        /\ main' = "write"
        /\ UNCHANGED <<diff, verify_only, wvars, toWorker, closed, results, exit>>
    BY <1>3 DEF ReadRow
  <2>2. /\ toMain = <<RowLine>> /\ toMain' = <<>> /\ toWorker = <<>> /\ first = <<>>
        /\ got[wf] = Counted(wl) /\ wf \notin Compared /\ worker \in {"wait", "killed"}
    <3>1. toMain # <<FrameLine>>
      BY <2>1 DEF FrameLine
    <3>2. /\ toMain = <<RowLine>> /\ toWorker = <<>> /\ first = <<>>
          /\ got[wf] = Counted(wl) /\ wf \notin Compared /\ worker \in {"wait", "killed"}
      BY <2>1, <3>1, <1>t DEF PipeInv
    <3> QED BY <2>1, <3>2
  <2>3. Head(toMain) = RowLine /\ RowLine.f = wf /\ RowLine.L = wl
    BY <2>2 DEF RowLine
  <2>4. got' = [got EXCEPT ![wf] = Counted(wl + 1)]
    <3>1. got' = [got EXCEPT ![wf] = Append(got[wf], wl)]
      BY <1>3, <2>3 DEF ReadRow
    <3>2. Append(Counted(wl), wl) = Counted(wl + 1)
      BY <1>u, Counts DEF Launches
    <3> QED BY <2>2, <3>1, <3>2
  <2>5. Differs(RowLine) <=> <<wf, wl>> \in diff
    <3>1. Len(Counted(wl)) = wl
      BY <1>u, Counts DEF Launches
    <3> QED BY <2>2, <2>3, <3>1 DEF Differs
  <2>6. IF <<wf, wl>> \in diff
          THEN first' = <<wf, wl, "DIFF">> /\ reply' = "STOP"
          ELSE first' = first /\ reply' = "GO"
    BY <1>3, <2>3, <2>5 DEF ReadRow, Failure
  <2>7. Compared' = Compared
    BY <2>1 DEF Compared
  <2>8. TwoTypes' /\ CodeInv'
    BY <1>t, <2>1, <2>2 DEF TwoTypes, CodeInv, Dead, wvars
  <2>9. GotInv'
    <3>1. wl + 1 \in 0 .. Last + 1
      BY <1>t, <1>u DEF Launches
    <3> QED BY <1>t, <1>u, <2>1, <2>2, <2>4, <2>7, <3>1 DEF GotInv, wvars
  <2>10. WaitInv'
    BY <1>t, <1>u, <2>1, <2>2, <2>4, <2>7 DEF WaitInv, GotInv, wvars
  <2>11. TurnInv' /\ PipeInv' /\ ExitInv'
    BY <1>t, <2>1, <2>2, <2>6, <2>7 DEF TurnInv, PipeInv, ExitInv, CodeInv, Dead, wvars
  <2>12. \A f \in Frames, l \in Launches : l < Len(got[f]) => <<f, l>> \notin diff
    BY <1>t, <2>2 DEF FirstInv
  <2>13. \A f \in Frames : got'[f] = IF f = wf THEN Counted(wl + 1) ELSE got[f]
    BY <1>t, <2>4 DEF GotInv
  <2>14. FirstInv'
    <3>1. CASE <<wf, wl>> \in diff
      <4>1. Len(got[wf]) = wl /\ (wf = 1 => Len(got[0]) = Last + 1 /\ <<0, Last + 1>> \notin diff)
        <5>0. wl \in Nat /\ Last + 1 \in Nat
          BY <1>t, <1>u DEF Launches
        <5>1. Len(Counted(wl)) = wl /\ Len(Counted(Last + 1)) = Last + 1
          BY <5>0, Counts
        <5>2. wf = 1 => 0 \in Compared /\ got[0] = Counted(Last + 1)
          BY <1>t DEF GotInv
        <5>3. wf = 1 => <<0, Last + 1>> \notin diff
          BY <1>t, <2>2, <5>2 DEF FirstInv
        <5> QED BY <2>2, <5>1, <5>2, <5>3
      <4>2. \A x \in Before(wf, wl) : x \notin diff
        <5> SUFFICES ASSUME NEW f \in Frames, NEW l \in 0 .. Last + 1, f < wf \/ (f = wf /\ l < wl)
                     PROVE  <<f, l>> \notin diff
          BY DEF Before
        <5>1. CASE f = wf /\ l < wl
          BY <5>1, <4>1, <1>t, <1>u, <2>12 DEF Launches
        <5>2. CASE f < wf
          <6>1. f = 0 /\ wf = 1
            BY <5>2, <1>u DEF Frames
          <6>2. l = Last + 1 \/ (l \in Launches /\ l < Last + 1)
            BY <1>t DEF Launches
          <6> QED BY <6>1, <6>2, <4>1, <2>12
        <5> QED BY <5>1, <5>2
      <4>3. first' = <<wf, wl, "DIFF">> /\ first' # <<>> /\ diff' = diff
        <5>1. first' = <<wf, wl, "DIFF">> /\ diff' = diff
          BY <2>1, <2>6, <3>1
        <5> QED BY <5>1
      <4> QED BY <3>1, <4>2, <4>3 DEF FirstInv, Before
    <3>2. CASE <<wf, wl>> \notin diff
      <4>1. Len(Counted(wl + 1)) = wl + 1 /\ Len(got[wf]) = wl
        BY <1>u, <2>2, Counts DEF Launches
      <4>2. ASSUME NEW f \in Frames, NEW l \in Launches, l < Len(got'[f]) PROVE <<f, l>> \notin diff
        <5>1. CASE f = wf
          <6>1. l < wl + 1
            BY <4>1, <4>2, <5>1, <2>13
          <6>2. l = wl \/ l < Len(got[wf])
            BY <6>1, <4>1, <1>u DEF Launches
          <6> QED BY <3>2, <5>1, <6>2, <2>12
        <5>2. CASE f # wf
          BY <4>2, <5>2, <2>12, <2>13
        <5> QED BY <5>1, <5>2
      <4>3. first' = <<>> /\ diff' = diff
        BY <2>1, <2>2, <2>6, <3>2
      <4> QED BY <1>t, <2>2, <2>7, <4>2, <4>3 DEF FirstInv
    <3> QED BY <3>1, <3>2
  <2> QED BY <2>8, <2>9, <2>10, <2>11, <2>14 DEF TInv
<1>4. CASE ReadFrame
  <2>1. /\ main = "read" /\ toMain # <<>> /\ Head(toMain).line = "FRAME" /\ toMain' = Tail(toMain)
        /\ main' = "write"
        /\ UNCHANGED <<diff, verify_only, wvars, toWorker, closed, got, exit>>
    BY <1>4 DEF ReadFrame
  <2>2. /\ toMain = <<FrameLine>> /\ toMain' = <<>> /\ toWorker = <<>> /\ first = <<>>
        /\ got[wf] = Counted(Last + 1) /\ wf \notin Compared /\ worker \in {"waitframe", "killed"}
    BY <2>1, <1>t DEF PipeInv, FrameLine, RowLine
  <2>3. Head(toMain) = FrameLine /\ FrameLine.f = wf /\ FrameLine.L = Last + 1
    BY <2>2 DEF FrameLine
  <2>4. Len(got[wf]) = Last + 1 /\ \A l \in Launches : <<wf, l>> \notin diff
    <3>1. Len(got[wf]) = Last + 1
      BY <1>t, <2>2, Counts
    <3> QED BY <3>1, <1>t, <1>u, <2>2 DEF FirstInv, Launches
  <2>5. Compare(wf) = IF <<wf, Last + 1>> \in diff THEN 3 ELSE 0
    <3> DEFINE D == {d[2] : d \in {x \in diff : x[1] = wf}}
    <3>1. diff \subseteq Frames \X (0 .. Last + 1)
      BY <1>t DEF TwoTypes
    <3>2. \A l : l \in D <=> <<wf, l>> \in diff
      BY <3>1
    <3>3. got[wf] = [i \in 1 .. Last + 1 |-> i - 1]
      BY <2>2 DEF Counted
    <3>4. Compare(wf) = CompareReceipt(got[wf], D, Len(got[wf]), Last)
      BY DEF Compare
    <3> HIDE DEF D
    <3>5. /\ ~(got[wf] # [i \in 1 .. Last + 1 |-> i - 1] \/ Len(got[wf]) # Last + 1)
          /\ ~(\E l \in 0 .. Last : l \in D) /\ Last >= Last
      <4>1. \A l \in 0 .. Last : l \notin D
        BY <2>4, <3>2 DEF Launches
      <4>2. Last >= Last
        BY <1>t
      <4> QED BY <2>4, <3>3, <4>1, <4>2, Zenon
    <3> QED BY <3>2, <3>4, <3>5 DEF CompareReceipt
  <2>6. IF <<wf, Last + 1>> \in diff
          THEN first' = <<wf, Last + 1, "DIFF">> /\ reply' = "STOP"
          ELSE first' = first /\ reply' = "GO"
    BY <1>4, <2>3, <2>5 DEF ReadFrame, Failure
  <2>7. results' \in Seq(Frames \X Nat) /\ Compared' = Compared \cup {wf}
    <3>1. PICK rc \in Nat : results' = Append(results, <<wf, rc>>)
      BY <1>4, <2>3, <2>5 DEF ReadFrame
    <3>2. /\ results' \in Seq(Frames \X Nat) /\ Len(results') = Len(results) + 1
          /\ \A i \in 1 .. Len(results) : results'[i] = results[i]
          /\ results'[Len(results) + 1] = <<wf, rc>>
      BY <3>1, <1>u
    <3>3. DOMAIN results' = DOMAIN results \cup {Len(results) + 1} /\ DOMAIN results = 1 .. Len(results)
      BY <3>2, <1>u
    <3> QED BY <3>2, <3>3 DEF Compared
  <2>8. TwoTypes' /\ CodeInv'
    BY <1>t, <2>1, <2>2, <2>7 DEF TwoTypes, CodeInv, Dead, wvars
  <2>9. GotInv' /\ WaitInv'
    BY <1>t, <1>u, <2>1, <2>2, <2>7 DEF GotInv, WaitInv, wvars
  <2>10. TurnInv' /\ PipeInv' /\ ExitInv'
    BY <1>t, <2>1, <2>2, <2>6 DEF TurnInv, PipeInv, ExitInv, CodeInv, Dead, wvars
  <2>11. FirstInv'
    <3>1. CASE <<wf, Last + 1>> \in diff
      <4>1. wf = 1 => Len(got[0]) = Last + 1 /\ <<0, Last + 1>> \notin diff
        <5>1. Len(Counted(Last + 1)) = Last + 1
          BY <1>t, Counts
        <5>2. wf = 1 => 0 \in Compared /\ got[0] = Counted(Last + 1)
          BY <1>t DEF GotInv
        <5>3. wf = 1 => <<0, Last + 1>> \notin diff
          BY <1>t, <2>2, <5>2 DEF FirstInv
        <5> QED BY <5>1, <5>2, <5>3
      <4>2. \A x \in Before(wf, Last + 1) : x \notin diff
        <5> SUFFICES ASSUME NEW f \in Frames, NEW l \in 0 .. Last + 1, f < wf \/ (f = wf /\ l < Last + 1)
                     PROVE  <<f, l>> \notin diff
          BY DEF Before
        <5>1. CASE f = wf /\ l < Last + 1
          BY <5>1, <2>4, <1>t DEF Launches
        <5>2. CASE f < wf
          BY <5>2, <4>1, <1>t, <1>u, <2>2 DEF Launches, Frames, FirstInv
        <5> QED BY <5>1, <5>2
      <4>3. first' = <<wf, Last + 1, "DIFF">> /\ first' # <<>> /\ diff' = diff
        <5>1. first' = <<wf, Last + 1, "DIFF">> /\ diff' = diff
          BY <2>1, <2>6, <3>1
        <5> QED BY <5>1
      <4> QED BY <3>1, <4>2, <4>3 DEF FirstInv, Before
    <3>2. CASE <<wf, Last + 1>> \notin diff
      <4>1. first' = <<>> /\ diff' = diff /\ got' = got
        BY <2>1, <2>2, <2>6, <3>2
      <4> QED BY <1>t, <2>2, <2>7, <3>2, <4>1 DEF FirstInv
    <3> QED BY <3>1, <3>2
  <2> QED BY <2>8, <2>9, <2>10, <2>11 DEF TInv
<1>5. CASE Answer
  <2>1. /\ main = "write" /\ ~Dead /\ toWorker' = Append(toWorker, reply)
        /\ main' = IF reply = "GO" THEN "read" ELSE "close"
        /\ UNCHANGED <<diff, verify_only, wvars, toMain, closed, reply, got, results, first, files, exit>>
    BY <1>5 DEF Answer
  <2>2. /\ worker \in {"wait", "waitframe"} /\ toMain = <<>> /\ toWorker' = <<reply>>
        /\ reply = IF first = <<>> THEN "GO" ELSE "STOP"
    <3>1. toWorker = <<>>
      BY <2>1, <1>t DEF TurnInv
    <3>2. toWorker' = <<reply>>
      BY <2>1, <3>1
    <3> QED BY <2>1, <1>t, <3>2 DEF TurnInv, Dead
  <2>3. TwoTypes' /\ CodeInv' /\ GotInv' /\ WaitInv'
    BY <1>t, <2>1, <2>2 DEF TwoTypes, CodeInv, GotInv, WaitInv, Compared, Dead, wvars
  <2>4. TurnInv' /\ PipeInv' /\ FirstInv' /\ ExitInv'
    BY <1>t, <2>1, <2>2 DEF TurnInv, PipeInv, FirstInv, ExitInv, CodeInv, Compared,
       Dead, wvars
  <2> QED BY <2>3, <2>4 DEF TInv
<1>6. CASE WriteBroken
  <2> USE <1>6 DEF WriteBroken, pipes, wvars
  <2>1. TwoTypes' /\ CodeInv' /\ GotInv' /\ WaitInv'
    BY <1>t DEF TwoTypes, CodeInv, GotInv, WaitInv, TurnInv, Compared, Dead
  <2>2. TurnInv' /\ PipeInv' /\ FirstInv' /\ ExitInv'
    BY <1>t DEF TurnInv, PipeInv, FirstInv, ExitInv, CodeInv, Compared, Dead, RowLine,
       FrameLine
  <2> QED BY <2>1, <2>2 DEF TInv
<1>7. CASE EndOfOutput
  <2> USE <1>7 DEF EndOfOutput, pipes, wvars
  <2>1. TwoTypes' /\ CodeInv' /\ GotInv' /\ WaitInv'
    BY <1>t DEF TwoTypes, CodeInv, GotInv, WaitInv, TurnInv, Compared, Dead
  <2>2. TurnInv' /\ PipeInv' /\ FirstInv' /\ ExitInv'
    BY <1>t DEF TurnInv, PipeInv, FirstInv, ExitInv, CodeInv, Compared, Dead, RowLine,
       FrameLine
  <2> QED BY <2>1, <2>2 DEF TInv
<1>8. CASE Close
  <2> USE <1>8 DEF Close, pipes, wvars
  <2>1. TwoTypes' /\ CodeInv' /\ GotInv' /\ WaitInv'
    BY <1>t DEF TwoTypes, CodeInv, GotInv, WaitInv, TurnInv, Compared, Dead
  <2>2. TurnInv' /\ PipeInv' /\ FirstInv' /\ ExitInv'
    BY <1>t DEF TurnInv, PipeInv, FirstInv, ExitInv, CodeInv, Compared, Dead, RowLine,
       FrameLine
  <2> QED BY <2>1, <2>2 DEF TInv
<1>9. CASE Finish
  <2>1. /\ main = "wait" /\ Dead /\ main' = "ended"
        /\ UNCHANGED <<diff, verify_only, wvars, pipes, closed, reply, got, results, first>>
        /\ exit' = IF ~Blocked THEN 0 ELSE IF first # <<>> THEN 2 ELSE 1
    BY <1>9 DEF Finish
  <2>2. ~Blocked => first = <<>> /\ wrc = 0 /\ Compared = Frames
    BY DEF Blocked, Compared
  <2>3. \/ exit' = 0 /\ first = <<>> /\ wrc = 0 /\ Compared = Frames
        \/ exit' = 2 /\ first # <<>>
        \/ exit' = 1 /\ first = <<>>
    <3>1. CASE Blocked
      BY <2>1, <3>1
    <3>2. CASE ~Blocked
      BY <2>1, <2>2, <3>2
    <3> QED BY <3>1, <3>2
  <2>4. TwoTypes' /\ CodeInv' /\ GotInv' /\ WaitInv'
    BY <1>t, <2>1, <2>3 DEF TwoTypes, CodeInv, GotInv, WaitInv, Compared, Dead, wvars,
       pipes
  <2>5. TurnInv' /\ PipeInv' /\ FirstInv' /\ ExitInv'
    BY <1>t, <2>1, <2>3 DEF TurnInv, PipeInv, FirstInv, ExitInv, CodeInv, Compared,
       Dead, RowLine, FrameLine,
         wvars, pipes
  <2> QED BY <2>4, <2>5 DEF TInv
<1>10. CASE MKill
  <2> USE <1>10 DEF MKill, pipes, wvars
  <2>1. TwoTypes' /\ CodeInv' /\ GotInv' /\ WaitInv'
    BY <1>t DEF TwoTypes, CodeInv, GotInv, WaitInv, TurnInv, Compared, Dead
  <2>2. TurnInv' /\ PipeInv' /\ FirstInv' /\ ExitInv'
    BY <1>t DEF TurnInv, PipeInv, FirstInv, ExitInv, CodeInv, Compared, Dead, RowLine,
       FrameLine
  <2> QED BY <2>1, <2>2 DEF TInv
<1> QED BY <1>1, <1>2, <1>3, <1>4, <1>5, <1>6, <1>7, <1>8, <1>9, <1>10 DEF Main

(* The exit code then means what it says. *)
LEMMA TwoVerdict == TInv => ExitMeansVerdict
<1> SUFFICES ASSUME TInv PROVE ExitMeansVerdict
  OBVIOUS
<1>1. ASSUME exit = 0, ~verify_only PROVE diff = {} /\ wrc = 0 /\ \A f \in Frames : Len(got[f]) = Last + 1
  <2>1. first = <<>> /\ Compared = Frames /\ wrc = 0
    BY <1>1 DEF TInv, ExitInv
  <2>2. \A f \in Frames : Len(got[f]) = Last + 1
    BY <2>1, Counts, LastAssumption DEF TInv, GotInv
  <2>3. ASSUME NEW d \in diff PROVE FALSE
    <3>1. PICK f \in Frames, l \in 0 .. Last + 1 : d = <<f, l>>
      BY DEF TInv, TwoTypes
    <3>2. l # Last + 1
      BY <2>1, <3>1 DEF TInv, FirstInv
    <3>3. l \in Launches /\ l < Len(got[f])
      BY <2>2, <3>2, LastAssumption DEF Launches
    <3> QED BY <2>1, <3>1, <3>3 DEF TInv, FirstInv
  <2> QED BY <2>1, <2>2, <2>3
<1> QED BY <1>1 DEF ExitMeansVerdict, TInv, ExitInv, FirstInv

(* "Exit code 0 = both frames match ... 2 = a launch or final image        *)
(* differs; 1 = blocked before a comparison"                               *)
(* (run_1080_two_frames.py:13-14): of every session, whoever raises or is  *)
(* killed, exit 0 without --verify-only is given only after everything was *)
(* compared and matches, and the failure reported is the first difference. *)
THEOREM VerdictOfTwo == DSpec => []ExitMeansVerdict
<1>1. DInit => TInv
  BY TwoStarts DEF DInit
<1>2. TInv /\ [DNext]_dvars => TInv'
  <2> SUFFICES ASSUME TInv, [DNext]_dvars PROVE TInv'
    OBVIOUS
  <2>1. CASE UNCHANGED vars
    <3>1. Compared' = Compared /\ RowLine' = RowLine /\ FrameLine' = FrameLine
      BY <2>1 DEF vars, wvars, mvars, Compared, RowLine, FrameLine
    <3> QED BY <2>1, <3>1 DEF vars, wvars, mvars, pipes, TInv, TwoTypes, CodeInv,
       GotInv, WaitInv, TurnInv,
                 PipeInv, FirstInv, ExitInv, Dead
  <2>2. CASE Next
    BY <2>2, WorkerHolds, MainHolds DEF Next
  <2>3. CASE KillTwo
    <3>1. /\ main = "prepare" /\ main' = "killed" /\ UNCHANGED <<diff, wf, wl, worker, wrc, toMain, toWorker>>
          /\ UNCHANGED <<verify_only, closed, reply, got, results, first, exit>>
      BY <2>3 DEF KillTwo, wvars, pipes
    <3>2. Compared' = Compared /\ RowLine' = RowLine /\ FrameLine' = FrameLine
      BY <3>1 DEF Compared, RowLine, FrameLine
    <3>3. TwoTypes' /\ CodeInv' /\ GotInv' /\ WaitInv'
      BY <3>1, <3>2 DEF TInv, TwoTypes, CodeInv, GotInv, WaitInv, Dead
    <3>4. TurnInv' /\ PipeInv' /\ FirstInv' /\ ExitInv'
      BY <3>1, <3>2 DEF TInv, TurnInv, CodeInv, PipeInv, FirstInv, ExitInv, Dead
    <3> QED BY <3>3, <3>4 DEF TInv
  <2>4. \/ UNCHANGED vars \/ Next \/ KillTwo
    BY DEF DNext, dvars, ZeroStep, EditInput, StartTwo, TwoStep, Relocating, vars
  <2> QED BY <2>1, <2>2, <2>3, <2>4
<1>3. TInv => ExitMeansVerdict
  BY TwoVerdict
<1> QED BY <1>1, <1>2, <1>3, PTL DEF DSpec

-----------------------------------------------------------------------------
(* The driver of frame 0 and its worker. *)

(* Why it is so: out keeps the receipt of an earlier run until the worker  *)
(* of this one writes its own, perlaunch.json before result.json, and exit *)
(* code 0 of the worker stands behind both.                                *)
ZTypes == /\ stop \in Launches /\ zrc \in {0, 1, 8}
          /\ zmain \in {"none", "relocate", "call", "ended", "killed"}
          /\ zworker \in {"none", "load", "compute", "result", "exited"}
          /\ zrows \in Seq(BOOLEAN)
ZStage == /\ zmain # "call" => zworker \in {"none", "exited"}
          /\ zmain = "relocate" => zworker = "none"
          /\ zmain = "call" => ~verify /\ zworker # "none"
ThisRuns == perlaunch = zrows /\ Len(zrows) = stop + 1
ZLeft == /\ zworker = "result" => ThisRuns
         /\ zworker = "exited" /\ zrc = 0 => ThisRuns /\ result = <<Len(zrows), zfinal>>
ZCode == zmain = "ended" /\ ~verify => zexit = 1 \/ (zworker = "exited" /\ zexit = ZJudge)
ZInv == ZTypes /\ ZStage /\ ZLeft /\ ZCode

(* The invariant holds over a new root. *)
LEMMA ZeroStarts == ZInit => ZInv
  BY LastAssumption DEF ZInit, ZInv, ZTypes, ZStage, ZLeft, ZCode, Launches

(* Every step of the driver, the worker or a kill keeps it. *)
LEMMA ZeroHolds == ZInv /\ ZStep => ZInv'
<1> SUFFICES ASSUME ZInv, ZStep PROVE ZInv'
  OBVIOUS
<1> USE DEF ZInv
<1>1. ASSUME UNCHANGED zvars PROVE ZInv'
  BY <1>1 DEF zvars, out, ZTypes, ZStage, ZLeft, ZCode, ThisRuns, ZJudge, Verdict
<1>2. CASE ZStart
  BY <1>2 DEF ZStart, out, ZTypes, ZStage, ZLeft, ZCode
<1>3. CASE ZRefused
  BY <1>3 DEF ZRefused, out, ZTypes, ZStage, ZLeft, ZCode
<1>4. CASE ZPrepare
  BY <1>4 DEF ZPrepare, out, ZTypes, ZStage, ZLeft, ZCode
<1>5. CASE ZOpen \/ ZLoad
  BY <1>1, <1>5 DEF ZOpen, ZLoad
<1>6. CASE ZLoaded
  BY <1>6 DEF ZLoaded, out, ZTypes, ZStage, ZLeft, ZCode
<1>7. CASE ZRaise
  BY <1>7 DEF ZRaise, ZExit, ZTypes, ZStage, ZLeft, ZCode
<1>8. CASE ZLaunch
  BY <1>8 DEF ZLaunch, out, ZTypes, ZStage, ZLeft, ZCode
<1>9. CASE WriteRows
  BY <1>9 DEF WriteRows, ZTypes, ZStage, ZLeft, ZCode, ThisRuns
<1>10. CASE WriteResult
  BY <1>10 DEF WriteResult, ZExit, ZTypes, ZStage, ZLeft, ZCode, ThisRuns
<1>11. CASE ZFinish
  <2>1. ZTypes' /\ ZStage' /\ ZLeft'
    BY <1>11 DEF ZFinish, out, ZTypes, ZStage, ZLeft, ThisRuns
  <2>2. ZJudge' = ZJudge
    BY <1>11 DEF ZFinish, ZJudge, Verdict, out
  <2> QED BY <1>11, <2>1, <2>2 DEF ZFinish, ZCode
<1>12. CASE KillWorker
  BY <1>12 DEF KillWorker, ZExit, out, ZTypes, ZStage, ZLeft, ZCode
<1>13. CASE KillAll
  BY <1>13 DEF KillAll, out, ZTypes, ZStage, ZLeft, ZCode
<1> QED BY <1>2, <1>3, <1>4, <1>5, <1>6, <1>7, <1>8, <1>9, <1>10, <1>11, <1>12, <1>13
   DEF ZStep

(* compare over the receipt of this run says what this run did. *)
LEMMA Judged == ZInv => CodeMeansThisRun
<1> SUFFICES ASSUME ZInv, zmain = "ended", ~verify, zexit # 1
             PROVE  /\ zexit = 0 => /\ Len(zrows) = stop + 1 /\ ~ThisRunDiffers
                                    /\ stop = Last => ~zfinal
                    /\ zexit = 2 => ThisRunDiffers
                    /\ zexit = 3 => ~ThisRunDiffers /\ stop = Last /\ zfinal
                    /\ zexit # 4
  BY DEF CodeMeansThisRun
<1>1. zexit = ZJudge /\ zworker = "exited"
  BY DEF ZInv, ZCode
<1>2. CASE zrc # 0
  BY <1>1, <1>2 DEF ZJudge, ZInv, ZTypes
<1>3. CASE zrc = 0
  <2> DEFINE bad == {n - 1 : n \in {m \in DOMAIN perlaunch : perlaunch[m]}}
                      \cup (IF result # <<>> /\ result[2] THEN {Last + 1} ELSE {})
             seen == [n \in DOMAIN perlaunch |-> n - 1]
  <2>1. perlaunch = zrows /\ Len(zrows) = stop + 1 /\ result = <<Len(zrows), zfinal>>
    BY <1>1, <1>3 DEF ZInv, ZLeft, ThisRuns
  <2>2. DOMAIN zrows = 1 .. stop + 1 /\ stop \in 0 .. Last /\ Last \in Nat
    BY <2>1, LastAssumption DEF ZInv, ZTypes, Launches
  <2>3. result # <<>> /\ result[1] = stop + 1 /\ result[2] = zfinal
    BY <2>1
  <2>4. zexit = CompareReceipt(seen, bad, stop + 1, stop)
    <3>1. zexit = Verdict
      BY <1>1, <1>3 DEF ZJudge
    <3>2. (IF result = <<>> THEN 0 ELSE result[1]) = stop + 1
      BY <2>3
    <3> QED BY <3>1, <3>2 DEF Verdict
  <2>5. seen = [i \in 1 .. stop + 1 |-> i - 1]
    BY <2>1, <2>2
  <2>6. (\E l \in 0 .. stop : l \in bad) <=> ThisRunDiffers
    <3>1. ASSUME NEW l \in 0 .. stop, l \in bad PROVE ThisRunDiffers
      <4>1. l # Last + 1
        BY <2>2
      <4>2. PICK n \in DOMAIN perlaunch : perlaunch[n] /\ l = n - 1
        BY <3>1, <4>1
      <4> QED BY <4>2, <2>1 DEF ThisRunDiffers
    <3>2. ASSUME NEW n \in DOMAIN zrows, zrows[n] PROVE \E l \in 0 .. stop : l \in bad
      <4>1. n - 1 \in bad
        BY <3>2, <2>1
      <4>2. n - 1 \in 0 .. stop
        BY <2>2
      <4> QED BY <4>1, <4>2
    <3> QED BY <3>1, <3>2 DEF ThisRunDiffers
  <2>7. stop >= Last /\ Last + 1 \in bad <=> stop = Last /\ zfinal
    <3>1. stop >= Last <=> stop = Last
      BY <2>2
    <3>2. \A n \in DOMAIN perlaunch : n - 1 # Last + 1
      BY <2>1, <2>2
    <3>3. Last + 1 \in bad <=> zfinal
      BY <2>3, <3>2
    <3> QED BY <3>1, <3>3
  <2>8. zexit = IF ThisRunDiffers THEN 2 ELSE IF stop = Last /\ zfinal THEN 3 ELSE 0
    <3> HIDE DEF bad, seen
    <3>1. stop + 1 = stop + 1 /\ ~(seen # [i \in 1 .. stop + 1 |-> i - 1])
      BY <2>5
    <3> QED BY <2>4, <2>6, <2>7, <3>1, Zenon DEF CompareReceipt
  <2> QED BY <2>1, <2>8
<1> QED BY <1>2, <1>3

(* "Exit code 0 = every launch and the final image match; 2 = a launch     *)
(* differs; 3 = the final image differs" (run_1080_f0.py:13-14): of the    *)
(* run that ends, whatever earlier runs over the same root left in out and *)
(* wherever they were killed.                                              *)
THEOREM VerdictOfThisRun == DSpec => []CodeMeansThisRun
<1>1. DInit => ZInv
  BY ZeroStarts DEF DInit
<1>2. ZInv /\ [DNext]_dvars => ZInv'
  <2> SUFFICES ASSUME ZInv, [DNext]_dvars PROVE ZInv'
    OBVIOUS
  <2>1. CASE UNCHANGED zvars
    BY <2>1 DEF ZInv, zvars, out, ZTypes, ZStage, ZLeft, ZCode, ThisRuns, ZJudge, Verdict
  <2>2. CASE ZStep
    BY <2>2, ZeroHolds
  <2>3. UNCHANGED zvars \/ ZStep
    BY DEF DNext, dvars, ZeroStep, EditInput, StartTwo, KillTwo, TwoStep, Relocating, zero
  <2> QED BY <2>1, <2>2, <2>3
<1> QED BY <1>1, <1>2, Judged, PTL DEF DSpec

-----------------------------------------------------------------------------
(* Paths. *)

(* What is above a path are the paths it begins with. *)
LEMMA AboveIs == ASSUME NEW p \in Paths, NEW q \in Above(p)
                 PROVE  q \in Paths /\ Len(q) \in 1 .. Len(p) - 1 /\ SubSeq(p, 1, Len(q)) = q /\ q # p
<1>1. PICK n \in 1 .. Len(p) - 1 : q = SubSeq(p, 1, n)
  BY DEF Above
<1>2. p \in Seq(STRING) /\ Len(p) \in Nat /\ n \in 1 .. Len(p)
  BY DEF Paths
<1>3. q \in Seq(STRING) /\ Len(q) = n
  BY <1>1, <1>2
<1> QED BY <1>1, <1>2, <1>3 DEF Paths

(* To be under a path is to have it above oneself. *)
LEMMA UnderIsAbove == ASSUME NEW p \in Paths, NEW q \in Paths
                      PROVE  Under(p, q) <=> q \in Above(p)
<1>1. ASSUME Under(p, q) PROVE q \in Above(p)
  <2>1. Len(q) \in 1 .. Len(p) - 1
    BY <1>1 DEF Under, Paths
  <2> QED BY <1>1, <2>1 DEF Under, Above
<1>2. ASSUME q \in Above(p) PROVE Under(p, q)
  BY <1>2, AboveIs DEF Under, Paths
<1> QED BY <1>1, <1>2

(* The letters of a path that begins as another one does. *)
LEMMA Begins == ASSUME NEW p \in Paths, NEW n \in 1 .. Len(p)
                PROVE  SubSeq(p, 1, n) \in Paths /\ Len(SubSeq(p, 1, n)) = n
                       /\ \A i \in 1 .. n : SubSeq(p, 1, n)[i] = p[i]
<1>1. p \in Seq(STRING) /\ Len(p) \in Nat
  BY DEF Paths
<1> QED BY <1>1 DEF Paths

(* Two paths of the same names are the same. *)
LEMMA SamePath == ASSUME NEW p \in Paths, NEW q \in Paths, Len(p) = Len(q), \A i \in 1 .. Len(p) : p[i] = q[i]
                  PROVE  p = q
  BY DEF Paths

(* The beginning of a beginning is a beginning. *)
LEMMA Prefixes == ASSUME NEW p \in Paths, NEW n \in 1 .. Len(p), NEW m \in 1 .. n
                  PROVE  SubSeq(SubSeq(p, 1, n), 1, m) = SubSeq(p, 1, m)
<1>1. SubSeq(p, 1, n) \in Paths /\ Len(SubSeq(p, 1, n)) = n /\ m \in 1 .. Len(SubSeq(p, 1, n)) /\ m \in 1 .. Len(p)
  BY Begins DEF Paths
<1>2. /\ SubSeq(SubSeq(p, 1, n), 1, m) \in Paths /\ Len(SubSeq(SubSeq(p, 1, n), 1, m)) = m
      /\ \A i \in 1 .. m : SubSeq(SubSeq(p, 1, n), 1, m)[i] = SubSeq(p, 1, n)[i]
  BY <1>1, Begins
<1>3. SubSeq(p, 1, m) \in Paths /\ Len(SubSeq(p, 1, m)) = m /\ \A i \in 1 .. m : SubSeq(p, 1, m)[i] = p[i]
  BY <1>1, Begins
<1>4. \A i \in 1 .. n : SubSeq(p, 1, n)[i] = p[i]
  BY Begins
<1> QED BY <1>2, <1>3, <1>4, SamePath

(* What is above something above a path is above the path. *)
LEMMA AboveTrans == ASSUME NEW p \in Paths, NEW q \in Above(p), NEW r \in Above(q)
                    PROVE  r \in Above(p)
<1>1. q \in Paths /\ Len(q) \in 1 .. Len(p) - 1 /\ SubSeq(p, 1, Len(q)) = q
  BY AboveIs
<1>2. r \in Paths /\ Len(r) \in 1 .. Len(q) - 1 /\ SubSeq(q, 1, Len(r)) = r
  BY <1>1, AboveIs
<1>3. SubSeq(SubSeq(p, 1, Len(q)), 1, Len(r)) = SubSeq(p, 1, Len(r))
  BY <1>1, <1>2, Prefixes DEF Paths
<1>4. r = SubSeq(p, 1, Len(r)) /\ Len(r) \in 1 .. Len(p) - 1
  BY <1>1, <1>2, <1>3 DEF Paths
<1> QED BY <1>4 DEF Above

(* Of two paths above a third one the shorter is above the longer.         *)
LEMMA AboveLine == ASSUME NEW p \in Paths, NEW q \in Above(p) \cup {p}, NEW r \in Above(p) \cup {p}, Len(r) < Len(q)
                   PROVE  r \in Above(q)
<1>1. /\ q \in Paths /\ Len(q) \in 1 .. Len(p) /\ SubSeq(p, 1, Len(q)) = q
      /\ r \in Paths /\ Len(r) \in 1 .. Len(p) /\ SubSeq(p, 1, Len(r)) = r
  <2>1. p \in Paths /\ Len(p) \in 1 .. Len(p) /\ SubSeq(p, 1, Len(p)) = p
    BY DEF Paths
  <2>2. Len(p) \in Nat
    BY DEF Paths
  <2>3. \A x \in Above(p) : x \in Paths /\ Len(x) \in 1 .. Len(p) - 1 /\ SubSeq(p, 1, Len(x)) = x
    BY AboveIs
  <2> QED BY <2>1, <2>2, <2>3
<1>2. SubSeq(SubSeq(p, 1, Len(q)), 1, Len(r)) = SubSeq(p, 1, Len(r))
  BY <1>1, Prefixes DEF Paths
<1>3. r = SubSeq(q, 1, Len(r)) /\ Len(r) \in 1 .. Len(q) - 1
  BY <1>1, <1>2 DEF Paths
<1> QED BY <1>3 DEF Above

(* A path is what is above it and the rest. *)
LEMMA Whole == ASSUME NEW p \in Paths, NEW q \in Above(p) \cup {p}
               PROVE  q \o Rest(p, q) = p
<1>1. p \in Seq(STRING) /\ Len(p) \in Nat /\ Len(p) > 0
  BY DEF Paths
<1>2. q \in Seq(STRING) /\ Len(q) \in 1 .. Len(p) /\ q = SubSeq(p, 1, Len(q))
  <2>1. CASE q \in Above(p)
    BY <2>1, <1>1, AboveIs DEF Paths
  <2>2. CASE q = p
    BY <2>2, <1>1
  <2> QED BY <2>1, <2>2
<1>3. \A n \in 1 .. Len(p) : SubSeq(p, 1, n) \o SubSeq(p, n + 1, Len(p)) = p
  BY <1>1
<1> QED BY <1>1, <1>2, <1>3 DEF Rest

-----------------------------------------------------------------------------
(* The inputs the driver of the session gives, and what becomes a file     *)
(* below work.                                                             *)
Needed == Range(Given(kit, driver = "two"))
Sol    == Range(kit.rewrite) \cup Range(kit.copy) \cup Needed
Leaves == Sol \cup DOMAIN kit.aliases
Dirs   == Range(kit.mirrors) \cup UNION {Above(x) : x \in Leaves \cup Range(kit.mirrors)}
(* A link of a mirror, and one of an alias. *)
Mirror(q) == [is |-> "link", to |-> <<"payload", q>>]
Alias(q)   == [is |-> "link", to |-> NewPath(kit.aliases[q])]

RelTypes ==
  /\ kit \in Kits /\ payload = Shipped(kit)
  /\ rphase \in {"idle", "running", "refused", "done"}
  /\ given \in {{}, Needed} /\ (work # <<>> \/ rphase # "idle" => given = Needed)
  /\ DOMAIN user = Range(kit.external)
  /\ \A p \in DOMAIN user : user[p].stamp \in Nat /\ (user[p].stamp = 0 => user[p].data = Bytes(p, "supplied"))
(* What may be at q. *)
Fits(q, node) ==
  \/ node = [is |-> "dir"] /\ (q \in Dirs \/ (InPayload(q) /\ q \notin Files(kit)))
  \/ node.is = "file" /\ q \in Sol \cup {MapPath}
  \/ node = [is |-> "hard", of |-> q] /\ q \in Needed
  \/ node = Mirror(q) /\ InPayload(q) /\ \E d \in Range(kit.mirrors) : Under(q, d)
  \/ q \in DOMAIN kit.aliases /\ node = Alias(q)
KindInv == \A q \in DOMAIN work : Fits(q, work[q])
TreeInv ==
  /\ DOMAIN work \subseteq Paths
  /\ \A q \in DOMAIN work : \A a \in Above(q) : a \in DOMAIN work /\ ~IsLink(a)
  /\ \A s \in Leaves : \A a \in Above(s) : ~IsLink(a)
  /\ \A s \in Sol : ~IsLink(s)

Stage(kind) == CASE kind = "check" -> 0 [] kind = "alias" -> 1 [] kind \in {"produce", "rebind"} -> 2
                 [] kind = "install" -> 3 [] kind = "copy" -> 4 [] kind = "mirror" -> 5
                 [] kind = "map" -> 6 [] kind = "pins" -> 7 [] kind = "seal" -> 8
Jobs == ({"check", "install"} \X Needed) \cup ({"alias"} \X DOMAIN kit.aliases)
          \cup ({"produce", "rebind"} \X Range(kit.rewrite)) \cup ({"copy"} \X Range(kit.copy))
          \cup ({"mirror"} \X Range(kit.mirrors))
          \cup {<<"map", MapPath>>, <<"pins", PinsPath>>, <<"seal", SealPath>>}
Staged(s)  == \A i, j \in DOMAIN s : i < j => Stage(s[i][1]) <= Stage(s[j][1])
SealLast(s) == \A i \in DOMAIN s : s[i][1] = "seal" => i = Len(s)
Left == Range(todo)
JobInv ==
  /\ todo \in Seq(Jobs) /\ Staged(todo) /\ SealLast(todo)
  /\ rphase # "running" => todo = <<>>
  /\ rphase = "running" => <<"seal", SealPath>> \in Left
Ran == rphase \in {"running", "done"}
FileAt(p, data) == p \in DOMAIN work /\ work[p] = [is |-> "file", data |-> data]
(* A file that the generating steps put in the place of another one. *)
Relocated(p) == /\ p \in DOMAIN work /\ work[p].is = "file"
                /\ work[p].data.state = "relocated" /\ work[p].data.file = p
Over(s) == Ran /\ \A j \in Left : Stage(j[1]) > s
(* What a job leaves, once it is done. *)
AliasDone == \A p \in DOMAIN kit.aliases :
  <<"alias", p>> \in Left \/ (p \in DOMAIN work /\ work[p] = Alias(p))
MadeDone  == /\ DOMAIN made \subseteq Range(kit.rewrite)
             /\ \A p \in DOMAIN made :
                  made[p].now \in {Bytes(p, "shipped"), [file |-> p, state |-> "relocated", pins |-> made[p].now.pins]}
             /\ \A p \in Range(kit.rewrite) :
                  \/ p \notin DOMAIN made /\ {<<"produce", p>>, <<"rebind", p>>} \cap Left # {}
                  \/ p \in DOMAIN made /\ FileAt(p, made[p].now)
                  \/ p \in DOMAIN made /\ p = SealPath /\ rphase = "done" /\ Relocated(p)
InputDone == \A p \in Needed : <<"install", p>> \in Left \/ p \in DOMAIN work
CopyDone  == \A p \in Range(kit.copy) :
  <<"copy", p>> \in Left \/ FileAt(p, Bytes(p, "shipped")) \/ (p = PinsPath /\ Relocated(p))
Shown(d)   == \A f \in DOMAIN payload \ Needed :
  Under(f, d) => f \in DOMAIN work \/ \E a \in Above(f) : IsLink(a)
MirrorDone == \A d \in Range(kit.mirrors) : <<"mirror", d>> \in Left \/ Shown(d)
Supplied   == \A p \in Needed :
  p \in DOMAIN work /\ work[p].is = "file" /\ user[p].stamp = 0 => work[p].data = Bytes(p, "supplied")
DoneInv ==
  /\ Supplied
  /\ Ran => AliasDone /\ MadeDone /\ InputDone /\ CopyDone /\ MirrorDone
  /\ Over(6) => Relocated(MapPath)
  /\ Over(7) => Relocated(PinsPath)
LastInv ==
  /\ (\E j \in Left : Stage(j[1]) < 6) => <<"map", MapPath>> \in Left
  /\ (\E j \in Left : Stage(j[1]) < 7) => <<"pins", PinsPath>> \in Left
RelInv == RelTypes /\ KindInv /\ TreeInv /\ JobInv /\ DoneInv /\ LastInv

(* What the manifest of the session's kit is like. *)
LEMMA KitIs ==
  ASSUME kit \in Kits
  PROVE  /\ {kit.rewrite, kit.copy, kit.external, kit.required, kit.mirrors, kit.names} \subseteq Seq(Paths)
         /\ Named(kit) \subseteq Paths
         /\ Range(kit.required) \subseteq Range(kit.external) /\ Range(kit.names) = DOMAIN kit.aliases
         /\ PinsPath \in Range(kit.copy) /\ Above(PinsPath) = Above(MapPath)
         /\ SealPath \in Range(kit.rewrite)
         /\ Range(kit.rewrite) \cap Range(kit.copy) = {}
         /\ (Range(kit.rewrite) \cup Range(kit.copy)) \cap Range(kit.external) = {}
         /\ MapPath \notin Range(kit.rewrite) \cup Range(kit.copy) \cup Range(kit.external)
         /\ \A f \in Files(kit) \cup DOMAIN kit.aliases : \A p \in Named(kit) : f \notin Above(p)
         /\ Files(kit) \cap (Range(kit.mirrors) \cup DOMAIN kit.aliases) = {}
         /\ Range(kit.mirrors) \cap DOMAIN kit.aliases = {}
         /\ \A a \in DOMAIN kit.aliases :
              kit.aliases[a] \in Files(kit) \ (Range(kit.external) \ Range(kit.required))
         /\ \A d, e \in Range(kit.mirrors) : Under(d, e) =>
              \E f \in Range(kit.rewrite) \cup Range(kit.copy) \cup kit.plain \cup Range(kit.required) : Under(f, d)
<1>1. \A s : s \in Seq(Paths) => Range(s) \subseteq Paths
  BY DEF Range
<1>2. Named(kit) \subseteq Paths
  <2>1. /\ {kit.rewrite, kit.copy, kit.external, kit.mirrors, kit.names} \subseteq Seq(Paths)
        /\ kit.plain \subseteq Paths /\ MapPath \in Paths /\ Range(kit.names) = DOMAIN kit.aliases
    BY KitsAssumption
  <2>2. /\ Range(kit.rewrite) \subseteq Paths /\ Range(kit.copy) \subseteq Paths /\ Range(kit.names) \subseteq Paths
        /\ Range(kit.external) \subseteq Paths /\ Range(kit.mirrors) \subseteq Paths
    BY <2>1, <1>1
  <2> QED BY <2>1, <2>2 DEF Named, Files
<1> QED BY <1>2, KitsAssumption

(* A file has no other name in front of it; an alias is one hop long.      *)
LEMMA RealFile == ASSUME kit \in Kits, NEW p \in Files(kit) \cup Range(kit.mirrors) PROVE RealOf(p) = p
<1>1. Via(p) = {}
  <2> SUFFICES ASSUME NEW a \in DOMAIN kit.aliases, a = p \/ Under(p, a) PROVE FALSE
    BY DEF Via
  <2>1. p \in Named(kit) /\ a \in Named(kit) /\ p \in Paths /\ a \in Paths /\ a # p
    BY KitIs DEF Named
  <2>2. a \in Above(p)
    BY <2>1, UnderIsAbove
  <2> QED BY <2>1, <2>2, KitIs
<1>2. RealHop(p) = p
  BY <1>1 DEF RealHop
<1> QED BY <1>2 DEF RealOf
(* The other name of a file leads to the file, and is another one. *)
LEMMA RealAlias == ASSUME kit \in Kits, NEW p \in DOMAIN kit.aliases
                   PROVE  RealOf(p) = kit.aliases[p] /\ kit.aliases[p] \in Files(kit) /\ kit.aliases[p] # p
<1>1. p \in Named(kit) /\ p \in Paths
  BY KitIs DEF Named
<1>2. Via(p) = {p}
  <2>1. ASSUME NEW a \in DOMAIN kit.aliases, Under(p, a) PROVE FALSE
    <3>1. a \in Paths
      BY KitIs DEF Named
    <3>2. a \in Above(p)
      BY <1>1, <2>1, <3>1, UnderIsAbove
    <3> QED BY <1>1, <3>2, KitIs
  <2> QED BY <2>1 DEF Via
<1>3. RealHop(p) = kit.aliases[p] \o Rest(p, p)
  <2>1. (CHOOSE x \in Via(p) : TRUE) = p /\ Via(p) # {}
    BY <1>2
  <2> QED BY <2>1 DEF RealHop
<1>4. kit.aliases[p] \in Files(kit) /\ kit.aliases[p] \in Paths /\ kit.aliases[p] # p
  BY KitIs DEF Named
<1>5. RealHop(p) = kit.aliases[p]
  <2>1. Rest(p, p) = <<>>
    BY <1>1 DEF Rest, Paths
  <2>2. kit.aliases[p] \o <<>> = kit.aliases[p]
    BY <1>4 DEF Paths
  <2> QED BY <1>3, <2>1, <2>2
<1>6. Via(kit.aliases[p]) = {}
  <2> DEFINE t == kit.aliases[p]
  <2> SUFFICES ASSUME NEW a \in DOMAIN kit.aliases, a = t \/ Under(t, a) PROVE FALSE
    BY DEF Via
  <2>1. t \in Named(kit) /\ a \in Named(kit) /\ a \in Paths /\ a # t
    BY <1>4, KitIs DEF Named
  <2>2. a \in Above(t)
    BY <1>4, <2>1, UnderIsAbove
  <2> QED BY <2>1, <2>2, KitIs
<1>7. RealHop(kit.aliases[p]) = kit.aliases[p]
  BY <1>6 DEF RealHop
<1> QED BY <1>4, <1>5, <1>7 DEF RealOf

-----------------------------------------------------------------------------
(* Where a name below work leads. *)

(* One hop, of both kinds. *)
LandLinks(p) == {q \in Above(p) : IsLink(q)}
FindLinks(p) == {q \in Above(p) \cup {p} : IsLink(q)}
Top(S)       == CHOOSE a \in S : \A b \in S : Len(a) <= Len(b)
Through(p, q) == <<work[q].to[1], work[q].to[2] \o Rest(p, q)>>
(* One hop of the two kinds, from a place below work and from the payload. *)
LEMMA Hops == ASSUME NEW p
              PROVE  /\ LandHop(<<"work", p>>) = IF LandLinks(p) = {} THEN <<"work", p>> ELSE Through(p, Top(LandLinks(p)))
                     /\ FindHop(<<"work", p>>) = IF FindLinks(p) = {} THEN <<"work", p>> ELSE Through(p, Top(FindLinks(p)))
                     /\ LandHop(<<"payload", p>>) = <<"payload", p>>
                     /\ FindHop(<<"payload", p>>) = <<"payload", p>>
  BY DEF LandHop, FindHop, Follow, LandLinks, FindLinks, Top, Through

(* The link that is followed first is one of those on the way. *)
LEMMA TopIs == ASSUME NEW p \in Paths, NEW S \in SUBSET (Above(p) \cup {p}), S # {} PROVE Top(S) \in S
<1> DEFINE T == {Len(a) : a \in S}
<1>1. \A a \in S : Len(a) \in Nat
  BY AboveIs DEF Paths
<1>2. T \subseteq Nat /\ T # {}
  BY <1>1
<1>3. PICK n \in T : \A m \in T : n <= m
  <2> HIDE DEF T
  <2> QED BY <1>2, Least
<1>4. \E a \in S : \A b \in S : Len(a) <= Len(b)
  BY <1>3
<1> QED BY <1>4 DEF Top

(* A name is where it says if no link is on the way. *)
LEMMA LandAt == ASSUME NEW p, \A a \in Above(p) : ~IsLink(a) PROVE Land(p) = <<"work", p>>
<1>1. LandHop(<<"work", p>>) = <<"work", p>>
  BY Hops DEF LandLinks
<1> QED BY <1>1 DEF Land
(* The same for a name that is opened, of which no link is the last part. *)
LEMMA FindAt == ASSUME NEW p, \A a \in Above(p) \cup {p} : ~IsLink(a) PROVE Find(p) = <<"work", p>>
<1>1. FindHop(<<"work", p>>) = <<"work", p>>
  BY Hops DEF FindLinks
<1> QED BY <1>1 DEF Find

(* Behind a link of a mirror is the payload. *)
LEMMA LinkIs == ASSUME KindInv, NEW q, IsLink(q)
                PROVE  q \in DOMAIN work /\ \/ work[q] = Mirror(q) /\ InPayload(q)
                                            \/ q \in DOMAIN kit.aliases /\ work[q] = Alias(q)
<1>1. q \in DOMAIN work /\ work[q].is = "link"
  BY DEF IsLink, Node
<1> QED BY <1>1 DEF KindInv, Fits, Mirror
(* A name with a link of a mirror above it lands in the payload, at        *)
(* itself.                                                                 *)
LEMMA LandThrough == ASSUME KindInv, NEW p \in Paths, DOMAIN kit.aliases \cap Above(p) = {},
                            NEW a \in Above(p), IsLink(a)
                     PROVE  Land(p) = <<"payload", p>>
<1>1. PICK q : q = Top(LandLinks(p)) /\ q \in LandLinks(p)
  <2>1. LandLinks(p) \in SUBSET (Above(p) \cup {p}) /\ LandLinks(p) # {}
    BY DEF LandLinks
  <2> QED BY <2>1, TopIs
<1>2. work[q] = Mirror(q) /\ q \in Above(p)
  BY <1>1, LinkIs DEF LandLinks
<1>3. Through(p, q) = <<"payload", p>>
  <2>1. work[q].to = <<"payload", q>>
    BY <1>2 DEF Mirror
  <2>2. q \o Rest(p, q) = p
    BY <1>2, Whole
  <2> QED BY <2>1, <2>2 DEF Through
<1>4. LandHop(<<"work", p>>) = <<"payload", p>>
  BY <1>1, <1>3, Hops DEF LandLinks
<1>5. LandHop(<<"payload", p>>) = <<"payload", p>>
  BY Hops
<1> QED BY <1>4, <1>5 DEF Land
(* The same for a name that is opened. *)
LEMMA FindThrough == ASSUME KindInv, NEW p \in Paths, DOMAIN kit.aliases \cap (Above(p) \cup {p}) = {},
                            NEW a \in Above(p) \cup {p}, IsLink(a)
                     PROVE  Find(p) = <<"payload", p>>
<1>1. PICK q : q = Top(FindLinks(p)) /\ q \in FindLinks(p)
  <2>1. FindLinks(p) \in SUBSET (Above(p) \cup {p}) /\ FindLinks(p) # {}
    BY DEF FindLinks
  <2> QED BY <2>1, TopIs
<1>2. work[q] = Mirror(q) /\ q \in Above(p) \cup {p}
  BY <1>1, LinkIs DEF FindLinks
<1>3. Through(p, q) = <<"payload", p>>
  <2>1. work[q].to = <<"payload", q>>
    BY <1>2 DEF Mirror
  <2>2. q \o Rest(p, q) = p
    BY <1>2, Whole
  <2> QED BY <2>1, <2>2 DEF Through
<1>4. FindHop(<<"work", p>>) = <<"payload", p>>
  BY <1>1, <1>3, Hops DEF FindLinks
<1>5. FindHop(<<"payload", p>>) = <<"payload", p>>
  BY Hops
<1> QED BY <1>4, <1>5 DEF Find

(* An alias leads to its file. *)
LEMMA FindAlias == ASSUME KindInv, kit \in Kits, NEW p \in DOMAIN kit.aliases, p \in DOMAIN work, work[p] = Alias(p),
                          \A a \in Above(p) : ~IsLink(a),
                          NEW t, t = kit.aliases[p],
                          NewPath(t)[1] = "work" => \A a \in Above(t) \cup {t} : ~IsLink(a)
                   PROVE  Find(p) = NewPath(t)
<1>0. p \in Paths /\ t \in Paths /\ RealOf(t) = t
  BY KitIs, RealFile DEF Named
<1>1. FindLinks(p) = {p}
  BY DEF FindLinks, IsLink, Node, Alias
<1>2. Top(FindLinks(p)) = p
  <2>1. FindLinks(p) \in SUBSET (Above(p) \cup {p}) /\ FindLinks(p) # {}
    BY <1>1
  <2> QED BY <1>0, <1>1, <2>1, TopIs
<1>3. NewPath(t) = <<"work", t>> \/ NewPath(t) = <<"payload", t>>
  BY <1>0 DEF NewPath
<1>4. Through(p, p) = NewPath(t)
  <2>1. work[p].to = NewPath(t)
    BY DEF Alias
  <2>2. Rest(p, p) = <<>>
    BY <1>0 DEF Rest, Paths
  <2>3. t \o <<>> = t
    BY <1>0 DEF Paths
  <2> QED BY <1>3, <2>1, <2>2, <2>3 DEF Through
<1>5. FindHop(<<"work", p>>) = NewPath(t)
  BY <1>1, <1>2, <1>4, Hops
<1>6. FindHop(NewPath(t)) = NewPath(t)
  <2>1. CASE NewPath(t) = <<"payload", t>>
    BY <2>1, Hops
  <2>2. CASE NewPath(t) = <<"work", t>>
    <3>1. FindLinks(t) = {}
      BY <2>2 DEF FindLinks
    <3> QED BY <2>2, <3>1, Hops
  <2> QED BY <1>3, <2>1, <2>2
<1> QED BY <1>5, <1>6 DEF Find

(* What exists below work. *)
LEMMA ExistsIs == ASSUME KindInv, NEW p \in Paths, DOMAIN kit.aliases \cap Above(p) = {}, InPayload(p)
                  PROVE  Exists(p) <=> p \in DOMAIN work \/ \E a \in Above(p) : IsLink(a)
<1>1. CASE \E a \in Above(p) : IsLink(a)
  <2>1. Land(p) = <<"payload", p>>
    BY <1>1, LandThrough
  <2> QED BY <1>1, <2>1 DEF Exists
<1>2. CASE \A a \in Above(p) : ~IsLink(a)
  <2>1. Land(p) = <<"work", p>>
    BY <1>2, LandAt
  <2> QED BY <1>2, <2>1 DEF Exists
<1> QED BY <1>1, <1>2

-----------------------------------------------------------------------------
(* What run has to do, and in which order. *)

(* The place of each kind of job in the order of run. *)
LEMMA StageIs == /\ Stage("check") = 0 /\ Stage("alias") = 1 /\ Stage("produce") = 2 /\ Stage("rebind") = 2
                 /\ Stage("install") = 3 /\ Stage("copy") = 4 /\ Stage("mirror") = 5 /\ Stage("map") = 6
                 /\ Stage("pins") = 7 /\ Stage("seal") = 8
  BY DEF Stage

(* The jobs of one kind are in order, and one for each item. *)
LEMMA EachIs == ASSUME NEW kind, NEW S, NEW seq \in Seq(S), Stage(kind) \in Nat
                PROVE  /\ Each(kind, seq) \in Seq({kind} \X Range(seq)) /\ Staged(Each(kind, seq))
                       /\ Range(Each(kind, seq)) = {kind} \X Range(seq)
<1>1. Each(kind, seq) = [n \in 1 .. Len(seq) |-> <<kind, seq[n]>>] /\ \A n \in 1 .. Len(seq) : seq[n] \in Range(seq)
  BY DEF Each, Range
<1>2. Each(kind, seq) \in Seq({kind} \X Range(seq))
  BY <1>1
<1>3. Staged(Each(kind, seq))
  BY <1>1 DEF Staged
<1>4. Range(Each(kind, seq)) = {kind} \X Range(seq)
  BY <1>1 DEF Range
<1> QED BY <1>2, <1>3, <1>4

(* The items of two sequences joined. *)
LEMMA Appended == ASSUME NEW S, NEW s \in Seq(S), NEW t \in Seq(S), NEW st, st = s \o t
                  PROVE  /\ st \in Seq(S) /\ Len(st) = Len(s) + Len(t) /\ Len(s) \in Nat /\ Len(t) \in Nat
                         /\ \A i \in 1 .. Len(s) : st[i] = s[i]
                         /\ \A i \in Len(s) + 1 .. Len(s) + Len(t) : st[i] = t[i - Len(s)]
                         /\ DOMAIN st = 1 .. Len(st) /\ DOMAIN s = 1 .. Len(s) /\ DOMAIN t = 1 .. Len(t)
  OBVIOUS
(* Two programs in order, the first before the second, are one in order. *)
LEMMA Joined == ASSUME NEW S, NEW s \in Seq(S), NEW t \in Seq(S), Staged(s), Staged(t),
                       \A x \in Range(s), y \in Range(t) : Stage(x[1]) <= Stage(y[1])
                PROVE  s \o t \in Seq(S) /\ Staged(s \o t) /\ Range(s \o t) = Range(s) \cup Range(t)
<1> DEFINE st == s \o t
<1>1. /\ st \in Seq(S) /\ Len(st) = Len(s) + Len(t) /\ Len(s) \in Nat /\ Len(t) \in Nat
      /\ \A i \in 1 .. Len(s) : st[i] = s[i]
      /\ \A i \in Len(s) + 1 .. Len(s) + Len(t) : st[i] = t[i - Len(s)]
      /\ DOMAIN st = 1 .. Len(st) /\ DOMAIN s = 1 .. Len(s) /\ DOMAIN t = 1 .. Len(t)
  BY Appended
<1> HIDE DEF st
<1>2. Staged(st)
  <2> SUFFICES ASSUME NEW i \in 1 .. Len(st), NEW j \in 1 .. Len(st), i < j
               PROVE  Stage(st[i][1]) <= Stage(st[j][1])
    BY <1>1 DEF Staged
  <2>1. CASE j \in 1 .. Len(s)
    <3>1. i \in 1 .. Len(s)
      BY <2>1, <1>1
    <3> QED BY <2>1, <3>1, <1>1 DEF Staged
  <2>2. CASE i \notin 1 .. Len(s)
    <3>1. i - Len(s) \in 1 .. Len(t) /\ j - Len(s) \in 1 .. Len(t) /\ i - Len(s) < j - Len(s)
      BY <2>2, <1>1
    <3>2. st[i] = t[i - Len(s)] /\ st[j] = t[j - Len(s)]
      BY <2>2, <1>1
    <3> QED BY <3>1, <3>2, <1>1 DEF Staged
  <2>3. CASE i \in 1 .. Len(s) /\ j \notin 1 .. Len(s)
    <3>1. j - Len(s) \in 1 .. Len(t) /\ st[j] = t[j - Len(s)] /\ st[i] = s[i]
      BY <2>3, <1>1
    <3>2. st[i] \in Range(s) /\ st[j] \in Range(t)
      BY <2>3, <3>1, <1>1 DEF Range
    <3> QED BY <3>2
  <2> QED BY <2>1, <2>2, <2>3
<1>3. Range(st) = Range(s) \cup Range(t)
  <2>1. ASSUME NEW x \in Range(st) PROVE x \in Range(s) \cup Range(t)
    <3>1. PICK i \in 1 .. Len(st) : x = st[i]
      BY <1>1 DEF Range
    <3>2. CASE i \in 1 .. Len(s)
      BY <3>1, <3>2, <1>1 DEF Range
    <3>3. CASE i \notin 1 .. Len(s)
      <4>1. i - Len(s) \in 1 .. Len(t) /\ x = t[i - Len(s)]
        BY <3>1, <3>3, <1>1
      <4> QED BY <4>1, <1>1 DEF Range
    <3> QED BY <3>2, <3>3
  <2>2. ASSUME NEW x \in Range(s) PROVE x \in Range(st)
    <3>1. PICK i \in 1 .. Len(s) : x = s[i]
      BY <2>2, <1>1 DEF Range
    <3>2. i \in 1 .. Len(st) /\ x = st[i]
      BY <3>1, <1>1
    <3> QED BY <3>2, <1>1 DEF Range
  <2>3. ASSUME NEW x \in Range(t) PROVE x \in Range(st)
    <3>1. PICK i \in 1 .. Len(t) : x = t[i]
      BY <2>3, <1>1 DEF Range
    <3>2. Len(s) + i \in 1 .. Len(st) /\ x = st[Len(s) + i]
      BY <3>1, <1>1
    <3> QED BY <3>2, <1>1 DEF Range
  <2> QED BY <2>1, <2>2, <2>3
<1> QED BY <1>1, <1>2, <1>3 DEF st

(* The first part of the program, in order, with everything in it.         *)
Final == <<<<"map", MapPath>>, <<"pins", PinsPath>>, <<"seal", SealPath>>>>
Body(k, g) == {"check", "install"} \X Range(g) \cup ({"alias"} \X Range(k.names))
                \cup ({"produce"} \X Range(k.rewrite)) \cup ({"copy"} \X Range(k.copy))
                \cup ({"mirror"} \X Range(k.mirrors))
Listed(k, opt) ==
  Each("check", Given(k, opt)) \o Each("alias", k.names)
    \o Each("produce", k.rewrite) \o Each("install", Given(k, opt)) \o Each("copy", k.copy)
    \o Each("mirror", k.mirrors)
(* The jobs before the generated files are in order, and all there. *)
LEMMA ListedIs == ASSUME NEW k \in Kits, NEW opt \in BOOLEAN
                  PROVE  /\ Listed(k, opt) \in Seq(Body(k, Given(k, opt))) /\ Staged(Listed(k, opt))
                         /\ Range(Listed(k, opt)) = Body(k, Given(k, opt))
<1> DEFINE g == Given(k, opt)
           B == Body(k, g)
<1>1. /\ {k.names, k.rewrite, g, k.copy, k.mirrors} \subseteq Seq(Paths)
  BY KitsAssumption DEF Given
<1>2. \A kind \in {"check", "alias", "produce", "install", "copy", "mirror"} : \A s \in Seq(Paths) :
        /\ Each(kind, s) \in Seq({kind} \X Range(s)) /\ Staged(Each(kind, s))
        /\ Range(Each(kind, s)) = {kind} \X Range(s)
  <2> SUFFICES ASSUME NEW kind \in {"check", "alias", "produce", "install", "copy", "mirror"}, NEW s \in Seq(Paths)
               PROVE  /\ Each(kind, s) \in Seq({kind} \X Range(s)) /\ Staged(Each(kind, s))
                      /\ Range(Each(kind, s)) = {kind} \X Range(s)
    OBVIOUS
  <2>1. Stage(kind) \in Nat
    BY StageIs
  <2> QED BY <2>1, EachIs
<1> HIDE DEF g
<1>3. /\ Each("check", g) \in Seq({"check"} \X Range(g)) /\ Staged(Each("check", g))
      /\ Range(Each("check", g)) = {"check"} \X Range(g)
  BY <1>1, <1>2
<1>4. /\ Each("alias", k.names) \in Seq({"alias"} \X Range(k.names)) /\ Staged(Each("alias", k.names))
      /\ Range(Each("alias", k.names)) = {"alias"} \X Range(k.names)
  BY <1>1, <1>2
<1>5. /\ Each("produce", k.rewrite) \in Seq({"produce"} \X Range(k.rewrite)) /\ Staged(Each("produce", k.rewrite))
      /\ Range(Each("produce", k.rewrite)) = {"produce"} \X Range(k.rewrite)
  BY <1>1, <1>2
<1>6. /\ Each("install", g) \in Seq({"install"} \X Range(g)) /\ Staged(Each("install", g))
      /\ Range(Each("install", g)) = {"install"} \X Range(g)
  BY <1>1, <1>2
<1>7. /\ Each("copy", k.copy) \in Seq({"copy"} \X Range(k.copy)) /\ Staged(Each("copy", k.copy))
      /\ Range(Each("copy", k.copy)) = {"copy"} \X Range(k.copy)
  BY <1>1, <1>2
<1>8. /\ Each("mirror", k.mirrors) \in Seq({"mirror"} \X Range(k.mirrors)) /\ Staged(Each("mirror", k.mirrors))
      /\ Range(Each("mirror", k.mirrors)) = {"mirror"} \X Range(k.mirrors)
  BY <1>1, <1>2
<1>9. \A T : T \subseteq B => Seq(T) \subseteq Seq(B)
  OBVIOUS
<1>10. /\ Each("check", g) \in Seq(B) /\ Each("alias", k.names) \in Seq(B) /\ Each("produce", k.rewrite) \in Seq(B)
       /\ Each("install", g) \in Seq(B) /\ Each("copy", k.copy) \in Seq(B) /\ Each("mirror", k.mirrors) \in Seq(B)
  <2>1. /\ {"check"} \X Range(g) \subseteq B /\ {"alias"} \X Range(k.names) \subseteq B
        /\ {"produce"} \X Range(k.rewrite) \subseteq B /\ {"install"} \X Range(g) \subseteq B
        /\ {"copy"} \X Range(k.copy) \subseteq B /\ {"mirror"} \X Range(k.mirrors) \subseteq B
    BY DEF Body
  <2> HIDE DEF B
  <2> QED BY <2>1, <1>3, <1>4, <1>5, <1>6, <1>7, <1>8, <1>9
<1> DEFINE s1 == Each("check", g) \o Each("alias", k.names)
           s2 == s1 \o Each("produce", k.rewrite)
           s3 == s2 \o Each("install", g)
           s4 == s3 \o Each("copy", k.copy)
           s5 == s4 \o Each("mirror", k.mirrors)
<1> HIDE DEF B
<1>11. s1 \in Seq(B) /\ Staged(s1) /\ Range(s1) = {"check"} \X Range(g) \cup ({"alias"} \X Range(k.names))
  <2>1. \A x \in Range(Each("check", g)), y \in Range(Each("alias", k.names)) : Stage(x[1]) <= Stage(y[1])
    BY <1>3, <1>4, StageIs
  <2> QED BY <1>3, <1>4, <1>10, <2>1, Joined
<1> HIDE DEF s1
<1>12. /\ s2 \in Seq(B) /\ Staged(s2)
       /\ Range(s2) = {"check"} \X Range(g) \cup ({"alias"} \X Range(k.names)) \cup ({"produce"} \X Range(k.rewrite))
  <2>1. \A x \in Range(s1), y \in Range(Each("produce", k.rewrite)) : Stage(x[1]) <= Stage(y[1])
    BY <1>11, <1>5, StageIs
  <2> QED BY <1>11, <1>5, <1>10, <2>1, Joined
<1> HIDE DEF s2
<1>13. /\ s3 \in Seq(B) /\ Staged(s3)
       /\ Range(s3) = {"check"} \X Range(g) \cup ({"alias"} \X Range(k.names)) \cup ({"produce"} \X Range(k.rewrite))
                        \cup ({"install"} \X Range(g))
  <2>1. \A x \in Range(s2), y \in Range(Each("install", g)) : Stage(x[1]) <= Stage(y[1])
    BY <1>12, <1>6, StageIs
  <2> QED BY <1>12, <1>6, <1>10, <2>1, Joined
<1> HIDE DEF s3
<1>14. /\ s4 \in Seq(B) /\ Staged(s4)
       /\ Range(s4) = {"check"} \X Range(g) \cup ({"alias"} \X Range(k.names)) \cup ({"produce"} \X Range(k.rewrite))
                        \cup ({"install"} \X Range(g)) \cup ({"copy"} \X Range(k.copy))
  <2>1. \A x \in Range(s3), y \in Range(Each("copy", k.copy)) : Stage(x[1]) <= Stage(y[1])
    BY <1>13, <1>7, StageIs
  <2> QED BY <1>13, <1>7, <1>10, <2>1, Joined
<1> HIDE DEF s4
<1>15. /\ s5 \in Seq(B) /\ Staged(s5)
       /\ Range(s5) = {"check"} \X Range(g) \cup ({"alias"} \X Range(k.names)) \cup ({"produce"} \X Range(k.rewrite))
                        \cup ({"install"} \X Range(g)) \cup ({"copy"} \X Range(k.copy)) \cup ({"mirror"} \X Range(k.mirrors))
  <2>1. \A x \in Range(s4), y \in Range(Each("mirror", k.mirrors)) : Stage(x[1]) <= Stage(y[1])
    BY <1>14, <1>8, StageIs
  <2> QED BY <1>14, <1>8, <1>10, <2>1, Joined
<1>16. s5 = Listed(k, opt)
  BY DEF Listed, s1, s2, s3, s4, g
<1>17. Range(s5) = B
  BY <1>15 DEF B, Body
<1> QED BY <1>15, <1>16, <1>17 DEF B, g

(* The program of run is in order, with everything in it, the seal last. *)
LEMMA ProgramIs ==
  ASSUME NEW k \in Kits, NEW opt \in BOOLEAN, NEW p, p = Program(k, opt)
  PROVE  /\ p \in Seq(Body(k, Given(k, opt)) \cup Range(Final)) /\ Staged(p)
         /\ Range(p) = Body(k, Given(k, opt)) \cup Range(Final)
         /\ \A i \in DOMAIN p : p[i][1] = "seal" => i = Len(p)
<1> DEFINE l == Listed(k, opt)
           S == Body(k, Given(k, opt)) \cup Range(Final)
<1>1. p = l \o Final
  BY DEF Program, Listed, Final
<1>2. l \in Seq(Body(k, Given(k, opt))) /\ Staged(l) /\ Range(l) = Body(k, Given(k, opt))
  BY ListedIs
<1>3. /\ Final \in Seq(S) /\ Len(Final) = 3 /\ Range(Final) = {<<"map", MapPath>>, <<"pins", PinsPath>>, <<"seal", SealPath>>}
      /\ Staged(Final) /\ Final[1][1] = "map" /\ Final[2][1] = "pins" /\ DOMAIN Final = 1 .. 3
  <2>1. /\ DOMAIN Final = 1 .. 3 /\ Len(Final) = 3 /\ Final[1] = <<"map", MapPath>> /\ Final[2] = <<"pins", PinsPath>>
        /\ Final[3] = <<"seal", SealPath>>
    BY DEF Final
  <2>2. Range(Final) = {<<"map", MapPath>>, <<"pins", PinsPath>>, <<"seal", SealPath>>}
    BY <2>1 DEF Range
  <2>3. Staged(Final)
    <3> SUFFICES ASSUME NEW i \in 1 .. 3, NEW j \in 1 .. 3, i < j PROVE Stage(Final[i][1]) <= Stage(Final[j][1])
      BY <2>1 DEF Staged
    <3>1. Stage(Final[1][1]) = 6 /\ Stage(Final[2][1]) = 7 /\ Stage(Final[3][1]) = 8
      BY <2>1, StageIs
    <3>2. (i = 1 /\ j = 2) \/ (i = 1 /\ j = 3) \/ (i = 2 /\ j = 3)
      OBVIOUS
    <3> QED BY <3>1, <3>2
  <2>4. Final \in Seq(Range(Final))
    BY <2>1, <2>2 DEF Final
  <2> QED BY <2>1, <2>2, <2>3, <2>4
<1>4. /\ p \in Seq(S) /\ Staged(p) /\ Range(p) = S
  <2>1. \A x \in Range(l), y \in Range(Final) : Stage(x[1]) <= Stage(y[1])
    <3> SUFFICES ASSUME NEW x \in Body(k, Given(k, opt)), NEW y \in Range(Final) PROVE Stage(x[1]) <= Stage(y[1])
      BY <1>2
    <3>1. x[1] \in {"check", "install", "alias", "produce", "copy", "mirror"}
      BY DEF Body
    <3>2. y[1] \in {"map", "pins", "seal"}
      BY <1>3
    <3> QED BY <3>1, <3>2, StageIs
  <2>2. l \in Seq(S)
    BY <1>2
  <2> HIDE DEF l, S
  <2>3. p \in Seq(S) /\ Staged(p) /\ Range(p) = Range(l) \cup Range(Final)
    BY <1>1, <1>2, <1>3, <2>1, <2>2, Joined
  <2> QED BY <2>3, <1>2 DEF l, S
<1>5. ASSUME NEW i \in DOMAIN p, p[i][1] = "seal" PROVE i = Len(p)
  <2>1. /\ Len(p) = Len(l) + 3 /\ Len(l) \in Nat /\ DOMAIN p = 1 .. Len(p) /\ DOMAIN l = 1 .. Len(l)
        /\ \A n \in 1 .. Len(l) : p[n] = l[n]
        /\ \A n \in Len(l) + 1 .. Len(l) + 3 : p[n] = Final[n - Len(l)]
    <3>1. l \in Seq(S) /\ Final \in Seq(S)
      BY <1>2, <1>3
    <3> HIDE DEF l, S
    <3>2. /\ Len(p) = Len(l) + Len(Final) /\ Len(l) \in Nat /\ DOMAIN p = 1 .. Len(p) /\ DOMAIN l = 1 .. Len(l)
          /\ \A n \in 1 .. Len(l) : p[n] = l[n]
          /\ \A n \in Len(l) + 1 .. Len(l) + Len(Final) : p[n] = Final[n - Len(l)]
      BY <3>1, <1>1, Appended
    <3> QED BY <3>2, <1>3
  <2>2. i \notin 1 .. Len(l)
    <3> SUFFICES ASSUME i \in 1 .. Len(l) PROVE FALSE
      OBVIOUS
    <3>1. l[i] \in Body(k, Given(k, opt)) /\ l[i] = p[i]
      BY <1>2, <2>1 DEF Range
    <3>2. l[i][1] \in {"check", "install", "alias", "produce", "copy", "mirror"}
      BY <3>1 DEF Body
    <3> QED BY <3>1, <3>2, <1>5
  <2>3. i # Len(l) + 1 /\ i # Len(l) + 2
    BY <2>1, <1>3, <1>5
  <2> QED BY <2>1, <2>2, <2>3
<1> QED BY <1>4, <1>5

-----------------------------------------------------------------------------
(* A job that is done, and one that comes before. *)

(* A job has a place in the order. *)
LEMMA JobStage == \A x \in Jobs : Stage(x[1]) \in 0 .. 8
<1> SUFFICES ASSUME NEW x \in Jobs PROVE Stage(x[1]) \in 0 .. 8
  OBVIOUS
<1>1. x[1] \in {"check", "install", "alias", "produce", "rebind", "copy", "mirror", "map", "pins", "seal"}
  BY DEF Jobs
<1> QED BY <1>1, StageIs
(* What a program in order is when its first job is done. *)
LEMMA Popped == ASSUME NEW s \in Seq(Jobs), s # <<>>, Staged(s), SealLast(s)
                PROVE  /\ Tail(s) \in Seq(Jobs) /\ Staged(Tail(s)) /\ SealLast(Tail(s))
                       /\ Head(s) \in Jobs /\ Range(s) = {Head(s)} \cup Range(Tail(s))
                       /\ \A x \in Range(s) : Stage(Head(s)[1]) <= Stage(x[1])
                       /\ Head(s)[1] = "seal" => Tail(s) = <<>>
<1>1. /\ Len(s) \in Nat /\ Len(s) > 0 /\ DOMAIN s = 1 .. Len(s) /\ Head(s) = s[1] /\ s[1] \in Jobs
      /\ Tail(s) \in Seq(Jobs) /\ Len(Tail(s)) = Len(s) - 1 /\ DOMAIN Tail(s) = 1 .. Len(s) - 1
      /\ \A i \in 1 .. Len(s) - 1 : Tail(s)[i] = s[i + 1]
  OBVIOUS
<1>2. Staged(Tail(s))
  <2> SUFFICES ASSUME NEW i \in 1 .. Len(s) - 1, NEW j \in 1 .. Len(s) - 1, i < j
               PROVE  Stage(Tail(s)[i][1]) <= Stage(Tail(s)[j][1])
    BY <1>1 DEF Staged
  <2>1. i + 1 \in DOMAIN s /\ j + 1 \in DOMAIN s /\ i + 1 < j + 1
    BY <1>1
  <2>2. Tail(s)[i] = s[i + 1] /\ Tail(s)[j] = s[j + 1]
    BY <1>1
  <2> QED BY <2>1, <2>2 DEF Staged
<1>3. SealLast(Tail(s))
  <2> SUFFICES ASSUME NEW i \in 1 .. Len(s) - 1, Tail(s)[i][1] = "seal" PROVE i = Len(s) - 1
    BY <1>1 DEF SealLast
  <2>1. i + 1 \in DOMAIN s /\ s[i + 1][1] = "seal"
    BY <1>1
  <2>2. i + 1 = Len(s)
    BY <2>1 DEF SealLast
  <2> QED BY <2>2, <1>1
<1>4. Range(s) = {Head(s)} \cup Range(Tail(s))
  <2>1. ASSUME NEW x \in Range(s), x # s[1] PROVE x \in Range(Tail(s))
    <3>1. PICK i \in 1 .. Len(s) : x = s[i]
      BY <1>1 DEF Range
    <3>2. i - 1 \in 1 .. Len(s) - 1 /\ Tail(s)[i - 1] = s[(i - 1) + 1] /\ (i - 1) + 1 = i
      BY <3>1, <2>1, <1>1
    <3> QED BY <3>1, <3>2, <1>1 DEF Range
  <2>2. ASSUME NEW x \in Range(Tail(s)) PROVE x \in Range(s)
    <3>1. PICK i \in 1 .. Len(s) - 1 : x = s[i + 1]
      BY <1>1 DEF Range
    <3> QED BY <3>1, <1>1 DEF Range
  <2>3. s[1] \in Range(s)
    BY <1>1 DEF Range
  <2> QED BY <2>1, <2>2, <2>3, <1>1
<1>5. ASSUME NEW x \in Range(s) PROVE Stage(Head(s)[1]) <= Stage(x[1])
  <2>1. PICK i \in 1 .. Len(s) : x = s[i]
    BY <1>1 DEF Range
  <2>2. CASE i = 1
    BY <2>1, <2>2, <1>1, JobStage
  <2>3. CASE i # 1
    BY <2>1, <2>3, <1>1 DEF Staged
  <2> QED BY <2>2, <2>3
<1>6. Head(s)[1] = "seal" => Tail(s) = <<>>
  <2>1. Head(s)[1] = "seal" => Len(s) = 1
    BY <1>1 DEF SealLast
  <2> QED BY <2>1, <1>1
<1> QED BY <1>1, <1>2, <1>3, <1>4, <1>5, <1>6
(* A job that is to be done first, put before the others. *)
LEMMA Pushed == ASSUME NEW s \in Seq(Jobs), Staged(s), SealLast(s), NEW x \in Jobs, x[1] # "seal",
                       \A y \in Range(s) : Stage(x[1]) <= Stage(y[1])
                PROVE  /\ <<x>> \o s \in Seq(Jobs) /\ Staged(<<x>> \o s) /\ SealLast(<<x>> \o s)
                       /\ Range(<<x>> \o s) = {x} \cup Range(s)
<1>0. PICK u : u = <<x>>
  OBVIOUS
<1>1. u \in Seq(Jobs) /\ DOMAIN u = {1} /\ u[1] = x /\ Len(u) = 1
  BY <1>0
<1>2. Staged(u) /\ Range(u) = {x}
  BY <1>1 DEF Staged, Range
<1>3. \A y \in Range(u), z \in Range(s) : Stage(y[1]) <= Stage(z[1])
  BY <1>2
<1> DEFINE t == u \o s
<1>4. t \in Seq(Jobs) /\ Staged(t) /\ Range(t) = {x} \cup Range(s)
  BY <1>1, <1>2, <1>3, Joined
<1>4a. t = u \o s
  OBVIOUS
<1> HIDE DEF t
<1>5. /\ Len(t) = Len(u) + Len(s) /\ Len(s) \in Nat /\ DOMAIN t = 1 .. Len(t) /\ DOMAIN s = 1 .. Len(s)
      /\ \A i \in 1 .. Len(u) : t[i] = u[i]
      /\ \A i \in Len(u) + 1 .. Len(u) + Len(s) : t[i] = s[i - Len(u)]
  <2>1. u \in Seq(Jobs)
    BY <1>1
  <2> QED BY <2>1, <1>4a, Appended
<1>6. SealLast(t)
  <2> SUFFICES ASSUME NEW i \in 1 .. Len(s) + 1, t[i][1] = "seal" PROVE i = Len(s) + 1
    BY <1>1, <1>5 DEF SealLast
  <2>1. i # 1
    BY <1>1, <1>5
  <2>2. i - 1 \in DOMAIN s /\ s[i - 1][1] = "seal"
    BY <2>1, <1>1, <1>5
  <2>3. i - 1 = Len(s)
    BY <2>2 DEF SealLast
  <2> QED BY <2>3, <1>5
<1> QED BY <1>0, <1>4, <1>6 DEF t

-----------------------------------------------------------------------------
(* A node that is put. *)

Placed(p, node) ==
  /\ DOMAIN work' = DOMAIN work \cup Above(p) \cup {p}
  /\ work'[p] = node
  /\ \A q \in DOMAIN work : q # p => work'[q] = work[q]
  /\ \A q \in Above(p) \ DOMAIN work : work'[q] = [is |-> "dir"]
(* Put places the node at its name when no link is on the way. *)
LEMMA PutIs == ASSUME NEW p \in Paths, NEW node, Put(p, node), \A a \in Above(p) : ~IsLink(a)
               PROVE  Placed(p, node)
<1>1. Land(p) = <<"work", p>>
  BY LandAt
<1>2. <<"work", p>>[2] = p
  OBVIOUS
<1>3. p \notin Above(p)
  BY AboveIs
<1> DEFINE dirs == {q \in Above(p) : q \notin DOMAIN work}
<1>4. work' = [q \in DOMAIN work \cup dirs \cup {p} |->
                IF q = p THEN node ELSE IF q \in dirs THEN [is |-> "dir"] ELSE work[q]]
  BY <1>1, <1>2 DEF Put
<1>5. \A q \in Above(p) : q # p
  BY <1>3
<1> QED BY <1>4, <1>5 DEF Placed

(* What the operators of the manifest stand for does not change in a run.  *)
Still == UNCHANGED <<session, kit, payload, given>>
(* None of the names that are derived from the manifest changes either. *)
LEMMA StillIs == ASSUME Still
                 PROVE  /\ Needed' = Needed /\ Sol' = Sol /\ Leaves' = Leaves /\ Dirs' = Dirs /\ Files(kit)' = Files(kit)
                        /\ Jobs' = Jobs
                        /\ \A q : InPayload(q)' <=> InPayload(q)
                        /\ \A q : Alias(q)' = Alias(q)
<1>1. Needed' = Needed
  BY DEF Still, Needed, driver, Given
<1>2. Sol' = Sol /\ Leaves' = Leaves /\ Files(kit)' = Files(kit)
  BY <1>1 DEF Still, Sol, Leaves, Files
<1>3. Dirs' = Dirs
  BY <1>2 DEF Still, Dirs
<1>4. \A q : InPayload(q)' <=> InPayload(q)
  BY DEF Still, InPayload
<1>5. \A p : Via(p)' = Via(p)
  BY DEF Still, Via
<1>6. \A p : RealHop(p)' = RealHop(p)
  <2> SUFFICES ASSUME NEW p PROVE RealHop(p)' = RealHop(p)
    OBVIOUS
  <2>1. Via(p)' = Via(p) /\ kit' = kit
    BY <1>5 DEF Still
  <2>2. (CHOOSE x \in Via(p) : TRUE)' = CHOOSE x \in Via(p) : TRUE
    BY <2>1
  <2> QED BY <2>1, <2>2 DEF RealHop
<1>7. \A p : RealOf(p)' = RealOf(p)
  BY <1>6 DEF RealOf
<1>8. Moved' = Moved
  BY DEF Still, Moved
<1>9. \A p : NewPath(p)' = NewPath(p)
  BY <1>4, <1>7, <1>8 DEF NewPath
<1>10. \A q : Alias(q)' = Alias(q)
  BY <1>9 DEF Alias, Still
<1>11. Jobs' = Jobs
  BY <1>1 DEF Still, Jobs
<1> QED BY <1>1, <1>2, <1>3, <1>4, <1>10, <1>11

-----------------------------------------------------------------------------
(* A node that is put or removed leaves a tree. *)

(* A node that is put leaves a tree, every node of which fits its name. *)
LEMMA PutHolds ==
  ASSUME RelTypes, KindInv, TreeInv, Still, NEW p \in Paths, NEW node, Placed(p, node),
         \A a \in Above(p) : ~IsLink(a), Fits(p, node),
         \A a \in Above(p) : a \in Dirs \/ (InPayload(a) /\ a \notin Files(kit)),
         node.is = "link" => p \notin DOMAIN work /\ p \notin Sol /\ \A s \in Leaves : p \notin Above(s)
  PROVE  KindInv' /\ TreeInv'
<1>1. /\ DOMAIN work' = DOMAIN work \cup Above(p) \cup {p} /\ work'[p] = node
      /\ \A q \in DOMAIN work : q # p => work'[q] = work[q]
      /\ \A q \in Above(p) \ DOMAIN work : work'[q] = [is |-> "dir"]
  BY DEF Placed
<1>2. /\ Needed' = Needed /\ Sol' = Sol /\ Leaves' = Leaves /\ Dirs' = Dirs /\ Files(kit)' = Files(kit)
      /\ \A q : InPayload(q)' <=> InPayload(q)
      /\ \A q : Alias(q)' = Alias(q)
      /\ kit' = kit
  BY StillIs DEF Still
<1>3. \A q, n : Fits(q, n) => Fits(q, n)'
  BY <1>2 DEF Fits, Mirror
<1>4. KindInv'
  <2> SUFFICES ASSUME NEW q \in DOMAIN work' PROVE Fits(q, work[q])'
    BY DEF KindInv
  <2>1. CASE q = p
    BY <2>1, <1>1, <1>3
  <2>2. CASE q # p /\ q \in DOMAIN work
    <3>1. Fits(q, work[q]) /\ work'[q] = work[q]
      BY <2>2, <1>1 DEF KindInv
    <3>2. Fits(q, work[q])'
      BY <3>1, <1>3
    <3> QED BY <3>2
  <2>3. CASE q \in Above(p) \ DOMAIN work
    <3>1. Fits(q, [is |-> "dir"]) /\ work'[q] = [is |-> "dir"]
      BY <2>3, <1>1 DEF Fits
    <3> QED BY <3>1, <1>3
  <2> QED BY <1>1, <2>1, <2>2, <2>3
<1>5. \A q \in Above(p) : q \in Paths /\ q # p
  BY AboveIs
<1>6. DOMAIN work' \subseteq Paths
  BY <1>1, <1>5 DEF TreeInv
<1>7. \A q : IsLink(q)' <=> q \in DOMAIN work' /\ work'[q].is = "link"
  BY DEF IsLink, Node
<1>8. \A q : IsLink(q) <=> q \in DOMAIN work /\ work[q].is = "link"
  BY DEF IsLink, Node
<1>9. \A q : q # p => (IsLink(q)' <=> IsLink(q))
  <2> SUFFICES ASSUME NEW q, q # p PROVE IsLink(q)' <=> IsLink(q)
    OBVIOUS
  <2>1. CASE q \in DOMAIN work
    BY <2>1, <1>1, <1>7, <1>8
  <2>2. CASE q \in Above(p) \ DOMAIN work
    BY <2>2, <1>1, <1>7, <1>8
  <2>3. CASE q \notin DOMAIN work \cup Above(p)
    BY <2>3, <1>1, <1>7, <1>8
  <2> QED BY <2>1, <2>2, <2>3
<1>10. IsLink(p)' => p \notin DOMAIN work /\ p \notin Sol /\ \A s \in Leaves : p \notin Above(s)
  BY <1>1, <1>7
<1>11. ASSUME NEW q \in DOMAIN work', NEW a \in Above(q) PROVE a \in DOMAIN work' /\ ~IsLink(a)'
  <2>1. CASE q \in DOMAIN work
    <3>1. a \in DOMAIN work /\ ~IsLink(a)
      BY <2>1, <1>11 DEF TreeInv
    <3> QED BY <3>1, <1>1, <1>9, <1>10
  <2>2. CASE q \in Above(p) \cup {p}
    <3>1. a \in Above(p)
      BY <2>2, <1>11, AboveTrans
    <3> QED BY <3>1, <1>1, <1>5, <1>9
  <2> QED BY <1>1, <2>1, <2>2
<1>12. \A s \in Leaves' : \A a \in Above(s) : ~IsLink(a)'
  BY <1>2, <1>9, <1>10 DEF TreeInv
<1>13. \A s \in Sol' : ~IsLink(s)'
  BY <1>2, <1>9, <1>10 DEF TreeInv
<1> QED BY <1>4, <1>6, <1>11, <1>12, <1>13 DEF TreeInv

(* So does removing a node above nothing. *)
LEMMA UnlinkHolds ==
  ASSUME RelTypes, KindInv, TreeInv, Still, NEW p, Unlink(p),
         \A q \in DOMAIN work : p \notin Above(q)
  PROVE  KindInv' /\ TreeInv'
<1>1. DOMAIN work' = DOMAIN work \ {p} /\ \A q \in DOMAIN work' : work'[q] = work[q]
  BY DEF Unlink
<1>2. /\ Needed' = Needed /\ Sol' = Sol /\ Leaves' = Leaves /\ Dirs' = Dirs /\ Files(kit)' = Files(kit)
      /\ \A q : InPayload(q)' <=> InPayload(q)
      /\ \A q : Alias(q)' = Alias(q)
      /\ kit' = kit
  BY StillIs DEF Still
<1>3. \A q, n : Fits(q, n) => Fits(q, n)'
  BY <1>2 DEF Fits, Mirror
<1>4. KindInv'
  <2> SUFFICES ASSUME NEW q \in DOMAIN work' PROVE Fits(q, work[q])'
    BY DEF KindInv
  <2>1. Fits(q, work[q]) /\ work'[q] = work[q]
    BY <1>1 DEF KindInv
  <2>2. Fits(q, work[q])'
    BY <2>1, <1>3
  <2> QED BY <2>2
<1>5. \A q : IsLink(q)' => IsLink(q)
  BY <1>1 DEF IsLink, Node
<1>6. DOMAIN work' \subseteq Paths
  BY <1>1 DEF TreeInv
<1>7. \A q \in DOMAIN work' : \A a \in Above(q) : a \in DOMAIN work' /\ ~IsLink(a)'
  BY <1>1, <1>5 DEF TreeInv
<1>8. \A s \in Leaves' : \A a \in Above(s) : ~IsLink(a)'
  BY <1>2, <1>5 DEF TreeInv
<1>9. \A s \in Sol' : ~IsLink(s)'
  BY <1>2, <1>5 DEF TreeInv
<1> QED BY <1>4, <1>6, <1>7, <1>8, <1>9 DEF TreeInv

(* A file, or an alias, is above nothing that is below work.               *)
LEMMA NothingUnder == ASSUME RelTypes, KindInv, TreeInv, NEW f \in Files(kit) \cup DOMAIN kit.aliases,
                             NEW q \in DOMAIN work
                      PROVE  f \notin Above(q)
<1>1. /\ \A p \in Named(kit) : f \notin Above(p)
      /\ \A p \in Named(kit) : p \in Paths
      /\ Range(kit.required) \subseteq Range(kit.external)
  BY KitIs DEF RelTypes
<1>2. Sol \cup {MapPath} \cup Range(kit.mirrors) \cup DOMAIN kit.aliases \subseteq Named(kit) /\ DOMAIN payload \subseteq Named(kit)
  <2>1. Needed \subseteq Range(kit.external)
    BY <1>1 DEF Needed, Given
  <2>2. Sol \subseteq Files(kit)
    BY <2>1 DEF Sol, Files
  <2>3. DOMAIN payload \subseteq Files(kit)
    BY DEF RelTypes, Shipped, Files
  <2> QED BY <2>2, <2>3 DEF Named, Files
<1>3. \A x \in Named(kit) : f \notin Above(x) /\ \A a \in Above(x) : f \notin Above(a)
  BY <1>1, AboveTrans
<1>4. InPayload(q) => f \notin Above(q)
  <2> SUFFICES ASSUME NEW x \in DOMAIN payload, x = q \/ Under(x, q) PROVE f \notin Above(q)
    BY DEF InPayload
  <2>1. x \in Named(kit) /\ x \in Paths /\ q \in Paths
    BY <1>1, <1>2 DEF TreeInv
  <2>2. q = x \/ q \in Above(x)
    BY <2>1, UnderIsAbove
  <2> QED BY <2>1, <2>2, <1>3
<1>5. q \in Dirs => f \notin Above(q)
  <2> SUFFICES ASSUME q \in Dirs PROVE f \notin Above(q)
    OBVIOUS
  <2>1. q \in Range(kit.mirrors) \/ \E x \in Leaves \cup Range(kit.mirrors) : q \in Above(x)
    BY DEF Dirs
  <2> QED BY <2>1, <1>2, <1>3 DEF Leaves
<1>6. Fits(q, work[q])
  BY DEF KindInv
<1>7. q \in Dirs \/ InPayload(q) \/ q \in Sol \cup {MapPath} \cup DOMAIN kit.aliases
  BY <1>6 DEF Fits, Sol
<1> QED BY <1>2, <1>3, <1>4, <1>5, <1>7

(* What is above a leaf becomes a directory. *)
LEMMA AboveLeaf == ASSUME RelTypes, NEW p \in Leaves \cup {MapPath} \cup Range(kit.mirrors), NEW a \in Above(p) PROVE a \in Dirs
<1>1. Above(PinsPath) = Above(MapPath) /\ PinsPath \in Leaves
  BY KitIs DEF RelTypes, Leaves, Sol
<1> QED BY <1>1 DEF Dirs

-----------------------------------------------------------------------------
(* What a step keeps of what was done. *)

(* Nothing but P is written, but for new directories and links.            *)
Only(P) == /\ \A q \in DOMAIN work : q \in DOMAIN work' /\ (q \notin P => work'[q] = work[q])
           /\ \A q \in DOMAIN work' : \/ q \in P
                                      \/ q \in DOMAIN work /\ work'[q] = work[q]
                                      \/ work'[q].is \in {"dir", "link"}
           /\ P \subseteq DOMAIN work'
(* Putting a node overwrites nothing but what was at its name. *)
LEMMA PutsOnly == ASSUME NEW p, NEW node, Placed(p, node) PROVE Only({p})
<1>1. \A q \in DOMAIN work' : q = p \/ q \in DOMAIN work \/ work'[q] = [is |-> "dir"]
  BY DEF Placed
<1> QED BY <1>1 DEF Placed, Only

(* A directory that is mirrored stays so when files are written. *)
LEMMA ShownKept == ASSUME RelTypes, NEW P, Only(P), Still, P \subseteq Files(kit) \cup DOMAIN kit.aliases, NEW d, Shown(d)
                   PROVE  Shown(d)'
<1> SUFFICES ASSUME NEW f \in DOMAIN payload \ Needed, Under(f, d)
             PROVE  f \in DOMAIN work' \/ \E a \in Above(f) : IsLink(a)'
  BY StillIs DEF Shown, Still
<1>1. CASE f \in DOMAIN work
  BY <1>1 DEF Only
<1>2. CASE \E a \in Above(f) : IsLink(a)
  <2>1. PICK a \in Above(f) : IsLink(a)
    BY <1>2
  <2>2. f \in Named(kit)
    BY DEF RelTypes, Shipped, Named, Files
  <2>3. a \notin P
    BY <2>1, <2>2, KitIs DEF RelTypes
  <2>4. a \in DOMAIN work /\ work[a].is = "link"
    BY <2>1 DEF IsLink, Node
  <2>5. a \in DOMAIN work' /\ work'[a].is = "link"
    BY <2>3, <2>4 DEF Only
  <2> QED BY <2>5 DEF IsLink, Node
<1> QED BY <1>1, <1>2 DEF Shown

(* A step that writes P and does the job j keeps what the other jobs left. *)
LEMMA DoneKept ==
  ASSUME RelTypes, DoneInv, Still, UNCHANGED user, Ran, NEW P, Only(P), P \subseteq Files(kit) \cup DOMAIN kit.aliases,
         NEW j, Left \subseteq {j} \cup Left',
         \A p \in P \cap DOMAIN kit.aliases : work'[p] = Alias(p),
         \A p \in P \cap Needed : work'[p].is = "file" /\ user[p].stamp = 0 => work'[p].data = Bytes(p, "supplied"),
         \A p \in P \cap Range(kit.copy) :
           work'[p] = [is |-> "file", data |-> Bytes(p, "shipped")] \/ (p = PinsPath /\ Relocated(p)'),
         j[1] \in {"alias", "install", "copy"} => j[2] \in P,
         j[1] = "mirror" => Shown(j[2])'
  PROVE  Supplied' /\ AliasDone' /\ InputDone' /\ CopyDone' /\ MirrorDone'
<1>1. /\ Needed' = Needed /\ kit' = kit /\ \A q : Alias(q)' = Alias(q)
  BY StillIs DEF Still
<1>2. AliasDone /\ InputDone /\ CopyDone /\ MirrorDone /\ Supplied
  BY DEF DoneInv
<1>3. Supplied'
  <2> SUFFICES ASSUME NEW p \in Needed, p \in DOMAIN work', work'[p].is = "file", user[p].stamp = 0
               PROVE  work'[p].data = Bytes(p, "supplied")
    BY <1>1 DEF Supplied
  <2>1. p \in P \/ (p \in DOMAIN work /\ work'[p] = work[p])
    BY DEF Only
  <2> QED BY <2>1, <1>2 DEF Supplied
<1>4. AliasDone'
  <2> SUFFICES ASSUME NEW p \in DOMAIN kit.aliases, <<"alias", p>> \notin Left' PROVE p \in DOMAIN work' /\ work'[p] = Alias(p)
    BY <1>1 DEF AliasDone
  <2>1. p \in P \/ <<"alias", p>> \notin Left
    OBVIOUS
  <2> QED BY <2>1, <1>2 DEF AliasDone, Only
<1>5. InputDone'
  <2> SUFFICES ASSUME NEW p \in Needed, <<"install", p>> \notin Left' PROVE p \in DOMAIN work'
    BY <1>1 DEF InputDone
  <2>1. p \in P \/ <<"install", p>> \notin Left
    OBVIOUS
  <2> QED BY <2>1, <1>2 DEF InputDone, Only
<1>6. CopyDone'
  <2> SUFFICES ASSUME NEW p \in Range(kit.copy), <<"copy", p>> \notin Left'
               PROVE  FileAt(p, Bytes(p, "shipped"))' \/ (p = PinsPath /\ Relocated(p)')
    BY <1>1 DEF CopyDone
  <2>1. p \in P \/ <<"copy", p>> \notin Left
    OBVIOUS
  <2>2. CASE p \in P
    <3>1. p \in DOMAIN work'
      BY <2>2 DEF Only
    <3> QED BY <2>2, <3>1 DEF FileAt
  <2>3. CASE p \notin P
    <3>1. FileAt(p, Bytes(p, "shipped")) \/ (p = PinsPath /\ Relocated(p))
      BY <2>1, <2>3, <1>2 DEF CopyDone
    <3>2. p \in DOMAIN work /\ p \in DOMAIN work' /\ work'[p] = work[p]
      BY <3>1, <2>3 DEF FileAt, Relocated, Only
    <3> QED BY <3>1, <3>2 DEF FileAt, Relocated
  <2> QED BY <2>2, <2>3
<1>7. MirrorDone'
  <2> SUFFICES ASSUME NEW d \in Range(kit.mirrors), <<"mirror", d>> \notin Left' PROVE Shown(d)'
    BY <1>1 DEF MirrorDone
  <2>1. j = <<"mirror", d>> \/ <<"mirror", d>> \notin Left
    OBVIOUS
  <2>2. Shown(d)' \/ Shown(d)
    BY <2>1, <1>2 DEF MirrorDone
  <2> QED BY <2>2, ShownKept
<1> QED BY <1>3, <1>4, <1>5, <1>6, <1>7

(* made does not change, nor what it lists. *)
LEMMA MadeKept ==
  ASSUME MadeDone, Still, UNCHANGED made, rphase = "running", NEW P, Only(P), P \cap Range(kit.rewrite) = {},
         NEW j, Left \subseteq {j} \cup Left',
         j[1] = "produce" => j[2] \in DOMAIN made \/ <<"rebind", j[2]>> \in Left', j[1] # "rebind"
  PROVE  MadeDone'
<1> SUFFICES ASSUME NEW p \in Range(kit.rewrite)
             PROVE  \/ p \notin DOMAIN made /\ {<<"produce", p>>, <<"rebind", p>>} \cap Left' # {}
                    \/ p \in DOMAIN made /\ FileAt(p, made[p].now)'
  BY DEF MadeDone, Still
<1>1. CASE p \notin DOMAIN made
  BY <1>1 DEF MadeDone
<1>2. CASE p \in DOMAIN made
  <2>1. FileAt(p, made[p].now)
    BY <1>2 DEF MadeDone
  <2>2. p \in DOMAIN work /\ p \notin P /\ p \in DOMAIN work' /\ work'[p] = work[p]
    BY <2>1 DEF FileAt, Only
  <2> QED BY <1>2, <2>1, <2>2 DEF FileAt
<1> QED BY <1>1, <1>2

(* A job that is done: the rest is still in order, and the generated files *)
(* are last.                                                               *)
LEMMA PopHolds ==
  ASSUME JobInv, Still, rphase = "running", todo # <<>>, Pop,
         (Job[1] # "seal" /\ rphase' = rphase) \/ (Job[1] = "seal" /\ rphase' = "done")
  PROVE  /\ JobInv' /\ Left = {Job} \cup Left' /\ Job \in Jobs
         /\ \A x \in Left : Stage(Job[1]) <= Stage(x[1])
<1>1. todo \in Seq(Jobs) /\ Staged(todo) /\ SealLast(todo) /\ <<"seal", SealPath>> \in Left
  BY DEF JobInv
<1>2. /\ Tail(todo) \in Seq(Jobs) /\ Staged(Tail(todo)) /\ SealLast(Tail(todo))
      /\ Head(todo) \in Jobs /\ Range(todo) = {Head(todo)} \cup Range(Tail(todo))
      /\ \A x \in Range(todo) : Stage(Head(todo)[1]) <= Stage(x[1])
      /\ Head(todo)[1] = "seal" => Tail(todo) = <<>>
  BY <1>1, Popped
<1>3. todo' = Tail(todo) /\ Job = Head(todo) /\ Left = Range(todo) /\ Left' = Range(Tail(todo))
  BY DEF Pop, Job, Left
<1>4. Jobs' = Jobs
  BY StillIs
<1>5. JobInv'
  <2>1. todo' \in Seq(Jobs') /\ Staged(todo)' /\ SealLast(todo)'
    BY <1>2, <1>3, <1>4 DEF Staged, SealLast
  <2>2. CASE Job[1] # "seal" /\ rphase' = rphase
    <3>1. <<"seal", SealPath>> \in Left'
      BY <1>1, <1>2, <1>3, <2>2
    <3> QED BY <2>1, <2>2, <3>1 DEF JobInv
  <2>3. CASE Job[1] = "seal" /\ rphase' = "done"
    <3>1. todo' = <<>>
      BY <1>2, <1>3, <2>3
    <3> QED BY <2>1, <2>3, <3>1 DEF JobInv
  <2> QED BY <2>2, <2>3
<1> QED BY <1>2, <1>3, <1>5

(* The generated files are last: nobody writes them again but the seal. *)
LEMMA LastHolds ==
  ASSUME JobInv, LastInv, DoneInv, Still, Ran, NEW P, Only(P), NEW j \in Jobs, Left = {j} \cup Left',
         \A x \in Left : Stage(j[1]) <= Stage(x[1]),
         MapPath \in P \/ j[1] = "map" => j[1] = "map" /\ Relocated(MapPath)',
         PinsPath \in P \/ j[1] = "pins" => Stage(j[1]) < 7 \/ (j[1] = "pins" /\ Relocated(PinsPath)')
  PROVE  LastInv' /\ (Over(6)' => Relocated(MapPath)') /\ (Over(7)' => Relocated(PinsPath)')
<1>1. /\ j[1] = "map" => j = <<"map", MapPath>>
      /\ j[1] = "pins" => j = <<"pins", PinsPath>>
      /\ \A x \in Left : x \in Jobs
  BY DEF Jobs, JobInv, Left, Range
<1>2. Stage(j[1]) \in 0 .. 8 /\ \A x \in Left : Stage(x[1]) \in 0 .. 8
  BY <1>1, JobStage
<1>3. Stage(j[1]) = 6 <=> j[1] = "map"
  <2>1. j[1] \in {"check", "install", "alias", "produce", "rebind", "copy", "mirror", "map", "pins", "seal"}
    BY DEF Jobs
  <2> QED BY <2>1, StageIs
<1>4. Stage(j[1]) = 7 <=> j[1] = "pins"
  <2>1. j[1] \in {"check", "install", "alias", "produce", "rebind", "copy", "mirror", "map", "pins", "seal"}
    BY DEF Jobs
  <2> QED BY <2>1, StageIs
<1>5. \A p : p \notin P /\ Relocated(p) => Relocated(p)'
  BY DEF Relocated, Only
<1>6. LastInv'
  <2>1. ASSUME NEW x \in Left', Stage(x[1]) < 6 PROVE <<"map", MapPath>> \in Left'
    <3>1. x \in Left /\ Stage(j[1]) < 6
      BY <2>1, <1>2
    <3>2. <<"map", MapPath>> \in Left /\ j # <<"map", MapPath>>
      BY <2>1, <3>1, <1>3 DEF LastInv
    <3> QED BY <3>2
  <2>2. ASSUME NEW x \in Left', Stage(x[1]) < 7 PROVE <<"pins", PinsPath>> \in Left'
    <3>1. x \in Left /\ Stage(j[1]) < 7
      BY <2>2, <1>2
    <3>2. <<"pins", PinsPath>> \in Left /\ j # <<"pins", PinsPath>>
      BY <2>2, <3>1, <1>4 DEF LastInv
    <3> QED BY <3>2
  <2> QED BY <2>1, <2>2 DEF LastInv
<1>7. ASSUME Over(6)' PROVE Relocated(MapPath)'
  <2>1. \A x \in Left' : Stage(x[1]) > 6
    BY <1>7 DEF Over
  <2>2. CASE Stage(j[1]) < 6
    <3>1. <<"map", MapPath>> \in Left'
      BY <2>2, <1>3 DEF LastInv
    <3>2. Stage(<<"map", MapPath>>[1]) = 6
      BY StageIs
    <3> QED BY <2>1, <3>1, <3>2
  <2>3. CASE Stage(j[1]) = 6
    BY <2>3, <1>3
  <2>4. CASE Stage(j[1]) > 6
    <3>1. Over(6)
      BY <2>1, <2>4 DEF Over
    <3>2. MapPath \notin P
      BY <2>4, <1>3
    <3> QED BY <3>1, <3>2, <1>5 DEF DoneInv
  <2> QED BY <1>2, <2>2, <2>3, <2>4
<1>8. ASSUME Over(7)' PROVE Relocated(PinsPath)'
  <2>1. \A x \in Left' : Stage(x[1]) > 7
    BY <1>8 DEF Over
  <2>2. CASE Stage(j[1]) < 7
    <3>1. <<"pins", PinsPath>> \in Left'
      BY <2>2, <1>4 DEF LastInv
    <3>2. Stage(<<"pins", PinsPath>>[1]) = 7
      BY StageIs
    <3> QED BY <2>1, <3>1, <3>2
  <2>3. CASE Stage(j[1]) = 7
    BY <2>3, <1>4
  <2>4. CASE Stage(j[1]) > 7
    <3>1. Over(7)
      BY <2>1, <2>4 DEF Over
    <3>2. PinsPath \notin P
      BY <1>2, <2>4, <1>4
    <3> QED BY <3>1, <3>2, <1>5 DEF DoneInv
  <2> QED BY <1>2, <2>2, <2>3, <2>4
<1> QED BY <1>6, <1>7, <1>8

-----------------------------------------------------------------------------
(* Every step of run. *)

(* Who writes which file: the sets of the manifest, and that they are      *)
(* apart.                                                                  *)
LEMMA LeafIs == ASSUME RelTypes
                PROVE  /\ Sol \subseteq Files(kit) /\ Needed \subseteq Sol /\ Needed \subseteq Range(kit.external)
                       /\ Files(kit) \cap DOMAIN kit.aliases = {} /\ Leaves \cup {MapPath} \subseteq Paths
                       /\ Range(kit.rewrite) \cap Needed = {} /\ Range(kit.copy) \cap Needed = {}
                       /\ Range(kit.rewrite) \cap Range(kit.copy) = {}
                       /\ MapPath \notin Sol /\ PinsPath \in Range(kit.copy) /\ SealPath \in Range(kit.rewrite)
                       /\ Range(kit.rewrite) \subseteq Sol /\ Range(kit.copy) \subseteq Sol
                       /\ MapPath \in Files(kit) /\ DOMAIN payload = Range(kit.rewrite) \cup Range(kit.copy) \cup kit.plain \cup {MapPath}
                       /\ Range(kit.mirrors) \subseteq Paths
<1>1. /\ Named(kit) \subseteq Paths
      /\ Range(kit.required) \subseteq Range(kit.external)
      /\ PinsPath \in Range(kit.copy) /\ SealPath \in Range(kit.rewrite)
      /\ Range(kit.rewrite) \cap Range(kit.copy) = {}
      /\ (Range(kit.rewrite) \cup Range(kit.copy)) \cap Range(kit.external) = {}
      /\ MapPath \notin Range(kit.rewrite) \cup Range(kit.copy) \cup Range(kit.external)
      /\ Files(kit) \cap (Range(kit.mirrors) \cup DOMAIN kit.aliases) = {}
  BY KitIs DEF RelTypes
<1>2. Needed \subseteq Range(kit.external)
  BY <1>1 DEF Needed, Given
<1>3. DOMAIN payload = Range(kit.rewrite) \cup Range(kit.copy) \cup kit.plain \cup {MapPath}
  BY DEF RelTypes, Shipped
<1>4. Sol \subseteq Files(kit)
  BY <1>2 DEF Sol, Files
<1>5. Leaves \cup {MapPath} \subseteq Paths /\ Range(kit.mirrors) \subseteq Paths
  BY <1>1, <1>4 DEF Leaves, Named, Files
<1> QED BY <1>1, <1>2, <1>3, <1>4, <1>5 DEF Sol, Files

(* Above a leaf, and above the map, is no link. *)
LEMMA Rooted == ASSUME RelTypes, TreeInv, NEW p \in Leaves \cup {MapPath} PROVE \A a \in Above(p) : ~IsLink(a)
<1>1. Above(PinsPath) = Above(MapPath) /\ PinsPath \in Leaves
  BY KitIs DEF RelTypes, Leaves, Sol
<1> QED BY <1>1 DEF TreeInv

(* What the item of the next job is. *)
LEMMA JobIs == ASSUME JobInv, NEW kind, At(kind)
               PROVE  /\ rphase = "running" /\ todo # <<>> /\ Job \in Jobs /\ Job = <<kind, Item>> /\ Ran /\ Job \in Left
                      /\ kind \in {"check", "install"} => Item \in Needed
                      /\ kind = "alias" => Item \in DOMAIN kit.aliases
                      /\ kind \in {"produce", "rebind"} => Item \in Range(kit.rewrite)
                      /\ kind = "copy" => Item \in Range(kit.copy)
                      /\ kind = "mirror" => Item \in Range(kit.mirrors)
                      /\ kind = "map" => Item = MapPath
                      /\ kind = "pins" => Item = PinsPath
                      /\ kind = "seal" => Item = SealPath
<1>1. rphase = "running" /\ todo # <<>> /\ Job[1] = kind /\ todo \in Seq(Jobs)
  BY DEF At, JobInv
<1>2. Job \in Jobs /\ Job \in Left
  <2>1. Head(todo) \in Jobs /\ Head(todo) \in Range(todo)
    BY <1>1 DEF Range
  <2> QED BY <2>1 DEF Job, Left
<1> QED BY <1>1, <1>2 DEF Item, Jobs, Ran

(* A job that writes the file or the link p. *)
LEMMA WriteHolds ==
  ASSUME RelInv, Still, UNCHANGED user, NEW kind, At(kind), Pop, NEW p, p = Item,
         (kind # "seal" /\ rphase' = rphase) \/ (kind = "seal" /\ rphase' = "done"),
         kind \notin {"mirror", "check"}, NEW node, Put(p, node),
         kind \in {"alias", "install"} => p \notin DOMAIN work,
         kind = "alias" => node = Alias(p),
         kind = "install" => node = [is |-> "hard", of |-> p] \/ node = [is |-> "file", data |-> user[p].data],
         kind \notin {"alias", "install"} => node.is = "file",
         kind = "copy" => node = [is |-> "file", data |-> Bytes(p, "shipped")],
         kind \in {"map", "pins"} => node.data.state = "relocated" /\ node.data.file = p
  PROVE  /\ RelTypes' /\ KindInv' /\ TreeInv' /\ JobInv' /\ LastInv'
         /\ Supplied' /\ AliasDone' /\ InputDone' /\ CopyDone' /\ MirrorDone'
         /\ (Over(6)' => Relocated(MapPath)') /\ (Over(7)' => Relocated(PinsPath)')
         /\ Only({p}) /\ work'[p] = node /\ Left = {Job} \cup Left' /\ Job = <<kind, p>>
<1>r. RelTypes /\ KindInv /\ TreeInv /\ JobInv /\ DoneInv /\ LastInv
  BY DEF RelInv
<1>j. /\ rphase = "running" /\ todo # <<>> /\ Job \in Jobs /\ Job = <<kind, p>> /\ Ran /\ Job \in Left
      /\ kind \in {"check", "install"} => p \in Needed
      /\ kind = "alias" => p \in DOMAIN kit.aliases
      /\ kind \in {"produce", "rebind"} => p \in Range(kit.rewrite)
      /\ kind = "copy" => p \in Range(kit.copy)
      /\ kind = "mirror" => p \in Range(kit.mirrors)
      /\ kind = "map" => p = MapPath
      /\ kind = "pins" => p = PinsPath
      /\ kind = "seal" => p = SealPath
  BY <1>r, JobIs
<1>k. kind \in {"alias", "produce", "rebind", "install", "copy", "map", "pins", "seal"}
  BY <1>j DEF Jobs
<1>l. /\ Sol \subseteq Files(kit) /\ Needed \subseteq Sol
      /\ Files(kit) \cap DOMAIN kit.aliases = {} /\ Leaves \cup {MapPath} \subseteq Paths
      /\ Range(kit.rewrite) \cap Needed = {} /\ Range(kit.copy) \cap Needed = {}
      /\ Range(kit.rewrite) \cap Range(kit.copy) = {}
      /\ MapPath \notin Sol /\ PinsPath \in Range(kit.copy) /\ SealPath \in Range(kit.rewrite)
      /\ Range(kit.rewrite) \subseteq Sol /\ Range(kit.copy) \subseteq Sol /\ MapPath \in Files(kit)
  BY <1>r, LeafIs
<1>1. p \in Leaves \cup {MapPath} /\ p \in Paths /\ p \in Files(kit) \cup DOMAIN kit.aliases
  BY <1>j, <1>k, <1>l DEF Leaves
<1>2. \A a \in Above(p) : ~IsLink(a)
  BY <1>r, <1>1, Rooted
<1>3. Placed(p, node)
  BY <1>1, <1>2, PutIs
<1>4. Fits(p, node)
  BY <1>j, <1>k, <1>l DEF Fits, Alias
<1>5. \A a \in Above(p) : a \in Dirs
  BY <1>r, <1>1, AboveLeaf
<1>6. node.is = "link" => p \notin DOMAIN work /\ p \notin Sol /\ \A s \in Leaves : p \notin Above(s)
  <2> SUFFICES ASSUME node.is = "link" PROVE kind = "alias" /\ p \notin Sol /\ \A s \in Leaves : p \notin Above(s)
    OBVIOUS
  <2>1. kind = "alias"
    BY <1>k
  <2>2. Leaves \subseteq Named(kit)
    BY <1>l DEF Leaves, Named
  <2> QED BY <2>1, <2>2, <1>j, <1>l, <1>r, KitIs DEF RelTypes
<1>7. KindInv' /\ TreeInv'
  BY <1>r, <1>1, <1>2, <1>3, <1>4, <1>5, <1>6, PutHolds
<1>8. Only({p}) /\ work'[p] = node
  BY <1>3, PutsOnly DEF Placed
<1>9. /\ JobInv' /\ Left = {Job} \cup Left' /\ \A x \in Left : Stage(Job[1]) <= Stage(x[1])
  BY <1>r, <1>j, PopHolds
<1>10. Supplied' /\ AliasDone' /\ InputDone' /\ CopyDone' /\ MirrorDone'
  <2>1. p \in DOMAIN kit.aliases => work'[p] = Alias(p)
    BY <1>j, <1>k, <1>l, <1>8
  <2>2. p \in Needed => (work'[p].is = "file" /\ user[p].stamp = 0 => work'[p].data = Bytes(p, "supplied"))
    <3> SUFFICES ASSUME p \in Needed, work'[p].is = "file", user[p].stamp = 0 PROVE work'[p].data = Bytes(p, "supplied")
      OBVIOUS
    <3>1. kind = "install"
      BY <1>j, <1>k, <1>l
    <3>2. node = [is |-> "file", data |-> user[p].data]
      BY <3>1, <1>8
    <3>3. user[p].data = Bytes(p, "supplied")
      BY <1>r, LeafIs DEF RelTypes
    <3> QED BY <3>2, <3>3, <1>8
  <2>3. p \in Range(kit.copy) =>
          work'[p] = [is |-> "file", data |-> Bytes(p, "shipped")] \/ (p = PinsPath /\ Relocated(p)')
    <3> SUFFICES ASSUME p \in Range(kit.copy)
                 PROVE  work'[p] = [is |-> "file", data |-> Bytes(p, "shipped")] \/ (p = PinsPath /\ Relocated(p)')
      OBVIOUS
    <3>1. kind = "copy" \/ kind = "pins"
      BY <1>j, <1>k, <1>l
    <3>2. kind = "pins" => p = PinsPath /\ Relocated(p)'
      BY <1>j, <1>8 DEF Relocated, Only
    <3> QED BY <3>1, <3>2, <1>8
  <2>4. Job[1] # "mirror" /\ (Job[1] \in {"alias", "install", "copy"} => Job[2] = p) /\ Left \subseteq {Job} \cup Left'
    BY <1>j, <1>9
  <2>5. DoneInv /\ RelTypes /\ {p} \subseteq Files(kit) \cup DOMAIN kit.aliases
    BY <1>r, <1>1
  <2> QED BY <1>j, <1>8, <2>1, <2>2, <2>3, <2>4, <2>5, DoneKept
<1>11. LastInv' /\ (Over(6)' => Relocated(MapPath)') /\ (Over(7)' => Relocated(PinsPath)')
  <2>1. MapPath = p \/ Job[1] = "map" => Job[1] = "map" /\ Relocated(MapPath)'
    <3> SUFFICES ASSUME MapPath = p \/ Job[1] = "map" PROVE Job[1] = "map" /\ Relocated(MapPath)'
      OBVIOUS
    <3>1. kind = "map" /\ p = MapPath
      BY <1>j, <1>k, <1>l
    <3> QED BY <3>1, <1>j, <1>8 DEF Relocated, Only
  <2>2. PinsPath = p \/ Job[1] = "pins" => Stage(Job[1]) < 7 \/ (Job[1] = "pins" /\ Relocated(PinsPath)')
    <3> SUFFICES ASSUME PinsPath = p \/ Job[1] = "pins" PROVE Stage(Job[1]) < 7 \/ (Job[1] = "pins" /\ Relocated(PinsPath)')
      OBVIOUS
    <3>1. kind = "copy" \/ (kind = "pins" /\ p = PinsPath)
      BY <1>j, <1>k, <1>l
    <3>2. kind = "copy" => Stage(Job[1]) < 7
      BY <1>j, StageIs
    <3> QED BY <3>1, <3>2, <1>j, <1>8 DEF Relocated, Only
  <2> QED BY <1>r, <1>j, <1>8, <1>9, <2>1, <2>2, LastHolds
<1>12. RelTypes'
  <2>1. given = Needed /\ Needed' = Needed
    BY <1>r, <1>j, StillIs DEF RelTypes
  <2> QED BY <2>1, <1>r DEF RelTypes, Still
<1> QED BY <1>7, <1>8, <1>9, <1>10, <1>11, <1>12, <1>j


(* A write below work goes to work, never through a link into the payload. *)
LEMMA WriteIs == ASSUME RelTypes, TreeInv, NEW p \in Leaves \cup {MapPath}, NEW data, Write(p, data)
                 PROVE  Put(p, [is |-> "file", data |-> data]) /\ UNCHANGED payload
<1>1. Land(p) = <<"work", p>>
  BY Rooted, LandAt
<1>2. Land(p)[1] # "payload"
  BY <1>1
<1> QED BY <1>2 DEF Write

(* Linking an alias. *)
LEMMA LinkAliasHolds == RelInv /\ UNCHANGED session /\ LinkAlias => RelInv'
<1> SUFFICES ASSUME RelInv, UNCHANGED session, LinkAlias PROVE RelInv'
  OBVIOUS
<1>1. PICK p : p = Item
  OBVIOUS
<1>2. /\ At("alias") /\ Put(p, Alias(p)) /\ Pop /\ p \notin DOMAIN work /\ Still
      /\ UNCHANGED <<user, made, rphase>>
  BY <1>1 DEF LinkAlias, Still, Alias
<1>3. /\ RelTypes' /\ KindInv' /\ TreeInv' /\ JobInv' /\ LastInv'
      /\ Supplied' /\ AliasDone' /\ InputDone' /\ CopyDone' /\ MirrorDone'
      /\ (Over(6)' => Relocated(MapPath)') /\ (Over(7)' => Relocated(PinsPath)')
      /\ Only({p}) /\ Left = {Job} \cup Left' /\ Job = <<"alias", p>>
  BY <1>1, <1>2, WriteHolds
<1>4. MadeDone'
  <2>1. MadeDone /\ p \notin Range(kit.rewrite) /\ rphase = "running" /\ RelTypes
    <3>1. JobInv /\ RelTypes /\ rphase = "running" /\ DoneInv
      BY <1>2 DEF RelInv, At
    <3>2. p \in DOMAIN kit.aliases
      BY <3>1, <1>1, <1>2, JobIs
    <3> QED BY <3>1, <3>2, LeafIs DEF DoneInv, Ran
  <2>2. {p} \cap Range(kit.rewrite) = {} /\ Job[1] = "alias" /\ Left \subseteq {Job} \cup Left'
    BY <2>1, <1>3
  <2> QED BY <1>2, <1>3, <2>1, <2>2, MadeKept
<1> QED BY <1>3, <1>4 DEF RelInv, DoneInv

(* Installing an input, by a hard link or a copy. *)
LEMMA InstallHolds == RelInv /\ UNCHANGED session /\ Install => RelInv'
<1> SUFFICES ASSUME RelInv, UNCHANGED session, Install PROVE RelInv'
  OBVIOUS
<1>1. PICK p : p = Item
  OBVIOUS
<1>2. PICK node : /\ node = [is |-> "hard", of |-> p] \/ node = [is |-> "file", data |-> user[p].data]
                  /\ Put(p, node)
  BY <1>1 DEF Install
<1>3. At("install") /\ Pop /\ p \notin DOMAIN work /\ Still /\ UNCHANGED <<user, made, rphase>>
  BY <1>1 DEF Install, Still
<1>4. /\ RelTypes' /\ KindInv' /\ TreeInv' /\ JobInv' /\ LastInv'
      /\ Supplied' /\ AliasDone' /\ InputDone' /\ CopyDone' /\ MirrorDone'
      /\ (Over(6)' => Relocated(MapPath)') /\ (Over(7)' => Relocated(PinsPath)')
      /\ Only({p}) /\ Left = {Job} \cup Left' /\ Job = <<"install", p>>
  BY <1>1, <1>2, <1>3, WriteHolds
<1>5. MadeDone'
  <2>1. MadeDone /\ p \notin Range(kit.rewrite) /\ rphase = "running"
    <3>1. JobInv /\ RelTypes /\ rphase = "running" /\ DoneInv
      BY <1>3 DEF RelInv, At
    <3>2. p \in Needed
      BY <3>1, <1>1, <1>3, JobIs
    <3> QED BY <3>1, <3>2, LeafIs DEF DoneInv, Ran
  <2>2. {p} \cap Range(kit.rewrite) = {} /\ Job[1] = "install" /\ Left \subseteq {Job} \cup Left'
    BY <2>1, <1>4
  <2> QED BY <1>3, <1>4, <2>1, <2>2, MadeKept
<1> QED BY <1>4, <1>5 DEF RelInv, DoneInv

(* Copying a file as it is. *)
LEMMA CopyHolds == RelInv /\ UNCHANGED session /\ CopyModule => RelInv'
<1> SUFFICES ASSUME RelInv, UNCHANGED session, CopyModule PROVE RelInv'
  OBVIOUS
<1>1. PICK p : p = Item
  OBVIOUS
<1>2. At("copy") /\ Pop /\ Write(p, payload[p]) /\ UNCHANGED <<kit, user, given, made, rphase>>
  BY <1>1 DEF CopyModule
<1>3. JobInv /\ RelTypes /\ TreeInv /\ rphase = "running" /\ DoneInv /\ p \in Range(kit.copy) /\ p \in Leaves
  <2>1. JobInv /\ RelTypes /\ TreeInv /\ rphase = "running" /\ DoneInv
    BY <1>2 DEF RelInv, At
  <2>2. p \in Range(kit.copy)
    BY <2>1, <1>1, <1>2, JobIs
  <2> QED BY <2>1, <2>2 DEF Leaves, Sol
<1>4. payload[p] = Bytes(p, "shipped")
  BY <1>3 DEF RelTypes, Shipped
<1>5. Put(p, [is |-> "file", data |-> Bytes(p, "shipped")]) /\ Still
  BY <1>2, <1>3, <1>4, WriteIs DEF Still
<1>6. /\ RelTypes' /\ KindInv' /\ TreeInv' /\ JobInv' /\ LastInv'
      /\ Supplied' /\ AliasDone' /\ InputDone' /\ CopyDone' /\ MirrorDone'
      /\ (Over(6)' => Relocated(MapPath)') /\ (Over(7)' => Relocated(PinsPath)')
      /\ Only({p}) /\ Left = {Job} \cup Left' /\ Job = <<"copy", p>>
  BY <1>1, <1>2, <1>5, WriteHolds
<1>7. MadeDone'
  <2>1. MadeDone /\ {p} \cap Range(kit.rewrite) = {}
    BY <1>3, LeafIs DEF DoneInv, Ran
  <2>2. Job[1] = "copy" /\ Left \subseteq {Job} \cup Left'
    BY <1>6
  <2> QED BY <1>2, <1>3, <1>5, <1>6, <2>1, <2>2, MadeKept
<1> QED BY <1>6, <1>7 DEF RelInv, DoneInv

(* The process ends, or is killed, in between. *)
LEMMA StopHolds == ASSUME RelInv, Still, UNCHANGED <<user, work>>, todo' = <<>>, rphase = "running", rphase' \in {"refused", "idle"}
                   PROVE  RelInv'
<1>1. /\ Needed' = Needed /\ Sol' = Sol /\ Leaves' = Leaves /\ Dirs' = Dirs /\ Files(kit)' = Files(kit)
      /\ Jobs' = Jobs
      /\ \A q : InPayload(q)' <=> InPayload(q)
      /\ \A q : Alias(q)' = Alias(q)
  BY StillIs
<1>2. KindInv' /\ TreeInv'
  <2>1. \A q, n : Fits(q, n) => Fits(q, n)'
    BY <1>1 DEF Fits, Mirror, Still
  <2>2. KindInv'
    BY <2>1 DEF KindInv, RelInv
  <2> QED BY <2>2, <1>1 DEF RelInv, TreeInv, IsLink, Node
<1>3. Left' = {} /\ JobInv'
  BY DEF JobInv, Left, Range, Staged, SealLast
<1>4. Supplied' /\ ~Ran' /\ RelTypes'
  BY <1>1 DEF RelInv, DoneInv, Supplied, Ran, RelTypes, Still
<1> QED BY <1>2, <1>3, <1>4 DEF RelInv, DoneInv, Over, LastInv

(* Writing the derived map, or refusing to. *)
LEMMA MapHolds == RelInv /\ UNCHANGED session /\ WriteMap => RelInv'
<1> SUFFICES ASSUME RelInv, UNCHANGED session, WriteMap PROVE RelInv'
  OBVIOUS
<1>0. PICK p : p = Item
  OBVIOUS
<1>1. JobInv /\ RelTypes /\ TreeInv /\ rphase = "running" /\ DoneInv /\ p = MapPath /\ At("map")
  <2>1. At("map") /\ JobInv /\ RelTypes /\ TreeInv /\ DoneInv
    BY DEF WriteMap, RelInv
  <2> QED BY <1>0, <2>1, JobIs
<1>2. CASE rphase' = "refused"
  <2>1. /\ todo' = <<>> /\ Still /\ UNCHANGED <<user, work>>
    BY <1>1, <1>2 DEF WriteMap, Still
  <2> QED BY <1>1, <1>2, <2>1, StopHolds
<1>3. CASE rphase' # "refused"
  <2>1. PICK data : /\ data.state = "relocated" /\ data.file = MapPath /\ Write(MapPath, data) /\ Pop
                    /\ UNCHANGED <<kit, user, given, made, rphase>>
    <3> DEFINE d == [file |-> MapPath, state |-> "relocated", pins |-> Remap(Entries(payload[MapPath]))]
    <3>1. Write(MapPath, d) /\ Pop /\ UNCHANGED <<kit, user, given, made, rphase>>
      BY <1>3 DEF WriteMap
    <3>2. d.state = "relocated" /\ d.file = MapPath
      OBVIOUS
    <3> HIDE DEF d
    <3> QED BY <3>1, <3>2
  <2>2. Put(p, [is |-> "file", data |-> data]) /\ Still
    BY <1>1, <2>1, WriteIs DEF Still
  <2>3. /\ RelTypes' /\ KindInv' /\ TreeInv' /\ JobInv' /\ LastInv'
        /\ Supplied' /\ AliasDone' /\ InputDone' /\ CopyDone' /\ MirrorDone'
        /\ (Over(6)' => Relocated(MapPath)') /\ (Over(7)' => Relocated(PinsPath)')
        /\ Only({p}) /\ Left = {Job} \cup Left' /\ Job = <<"map", p>>
    BY <1>0, <1>1, <2>1, <2>2, WriteHolds
  <2>4. MadeDone'
    <3>1. MadeDone /\ {p} \cap Range(kit.rewrite) = {}
      BY <1>1, LeafIs DEF DoneInv, Ran
    <3>2. Job[1] = "map" /\ Left \subseteq {Job} \cup Left'
      BY <2>3
    <3> QED BY <1>1, <2>1, <2>2, <2>3, <3>1, <3>2, MadeKept
  <2> QED BY <2>3, <2>4 DEF RelInv, DoneInv
<1> QED BY <1>2, <1>3

(* Writing derived_pins.py. *)
LEMMA PinsHolds == RelInv /\ UNCHANGED session /\ WritePins => RelInv'
<1> SUFFICES ASSUME RelInv, UNCHANGED session, WritePins PROVE RelInv'
  OBVIOUS
<1>0. PICK p : p = Item
  OBVIOUS
<1>1. JobInv /\ RelTypes /\ TreeInv /\ rphase = "running" /\ DoneInv /\ p = PinsPath /\ At("pins")
  <2>1. At("pins") /\ JobInv /\ RelTypes /\ TreeInv /\ DoneInv
    BY DEF WritePins, RelInv
  <2> QED BY <1>0, <2>1, JobIs
<1>2. PICK data : /\ data.state = "relocated" /\ data.file = PinsPath /\ Write(PinsPath, data) /\ Pop
                  /\ UNCHANGED <<kit, user, given, made, rphase>>
  <2> DEFINE d == [file |-> PinsPath, state |-> "relocated", pins |-> {<<MapPath, Content("work", MapPath)>>}]
  <2>1. Write(PinsPath, d) /\ Pop /\ UNCHANGED <<kit, user, given, made, rphase>>
    BY DEF WritePins
  <2>2. d.state = "relocated" /\ d.file = PinsPath
    OBVIOUS
  <2> HIDE DEF d
  <2> QED BY <2>1, <2>2
<1>3. PinsPath \in Leaves /\ {p} \cap Range(kit.rewrite) = {}
  BY <1>1, LeafIs DEF Leaves
<1>4. Put(p, [is |-> "file", data |-> data]) /\ Still
  BY <1>1, <1>2, <1>3, WriteIs DEF Still
<1>5. /\ RelTypes' /\ KindInv' /\ TreeInv' /\ JobInv' /\ LastInv'
      /\ Supplied' /\ AliasDone' /\ InputDone' /\ CopyDone' /\ MirrorDone'
      /\ (Over(6)' => Relocated(MapPath)') /\ (Over(7)' => Relocated(PinsPath)')
      /\ Only({p}) /\ Left = {Job} \cup Left' /\ Job = <<"pins", p>>
  BY <1>0, <1>1, <1>2, <1>4, WriteHolds
<1>6. MadeDone'
  <2>1. MadeDone
    BY <1>1 DEF DoneInv, Ran
  <2>2. Job[1] = "pins" /\ Left \subseteq {Job} \cup Left'
    BY <1>5
  <2> QED BY <1>1, <1>2, <1>3, <1>4, <1>5, <2>1, <2>2, MadeKept
<1> QED BY <1>5, <1>6 DEF RelInv, DoneInv


(* The seal is written twice: by produce, and in the end. *)
LEMMA SealHolds == RelInv /\ UNCHANGED session /\ RefreshSeal => RelInv'
<1> SUFFICES ASSUME RelInv, UNCHANGED session, RefreshSeal PROVE RelInv'
  OBVIOUS
<1>0. PICK p : p = Item
  OBVIOUS
<1>1. JobInv /\ RelTypes /\ TreeInv /\ rphase = "running" /\ todo # <<>> /\ DoneInv /\ MadeDone /\ p = SealPath /\ At("seal")
  <2>1. At("seal") /\ JobInv /\ RelTypes /\ TreeInv /\ DoneInv
    BY DEF RefreshSeal, RelInv
  <2>2. p = SealPath /\ Ran /\ rphase = "running" /\ todo # <<>>
    BY <1>0, <2>1, JobIs
  <2> QED BY <2>1, <2>2 DEF DoneInv
<1>2. p \in Leaves /\ p \in Sol /\ p \in Range(kit.rewrite)
  BY <1>1, LeafIs DEF Leaves
<1>3. Pop /\ rphase' = "done" /\ UNCHANGED <<kit, user, given, made>> /\ Job[1] = "seal"
  BY <1>1 DEF RefreshSeal, At
<1>4. \A x \in Left : x[1] \notin {"produce", "rebind"}
  <2>1. Head(todo)[1] = "seal" /\ \A x \in Range(todo) : Stage(Head(todo)[1]) <= Stage(x[1])
    BY <1>1, <1>3, Popped DEF JobInv, Job
  <2> QED BY <2>1, StageIs DEF Left
<1>5. \A q \in Range(kit.rewrite) : q \in DOMAIN made /\ FileAt(q, made[q].now)
  BY <1>1, <1>4 DEF MadeDone
<1>6. Content("work", SealPath) = made[p].now
  <2>1. \A a \in Above(p) \cup {p} : ~IsLink(a)
    BY <1>1, <1>2 DEF TreeInv
  <2>2. Find(p) = <<"work", p>>
    BY <2>1, FindAt
  <2>3. p \in DOMAIN work /\ work[p] = [is |-> "file", data |-> made[p].now]
    BY <1>2, <1>5 DEF FileAt
  <2>4. Node(p) = work[p]
    BY <2>3 DEF Node
  <2>5. Node(p).is = "file" /\ work[p].data = made[p].now
    BY <2>3, <2>4
  <2>6. <<"work", p>>[2] = p /\ <<"work", p>>[1] = "work"
    OBVIOUS
  <2> QED BY <1>1, <2>2, <2>5, <2>6 DEF Content
<1> DEFINE now  == made[p].now
           pins == {IF rec[1] \in {MapPath, PinsPath} THEN <<rec[1], Content("work", rec[1])>> ELSE rec : rec \in now.pins}
           data == [now EXCEPT !.pins = pins]
<1>7. Write(p, data)
  BY <1>1, <1>6 DEF RefreshSeal
<1>8. data = now \/ (data.state = "relocated" /\ data.file = p)
  <2>1. now \in {Bytes(p, "shipped"), [file |-> p, state |-> "relocated", pins |-> now.pins]}
    BY <1>1, <1>2, <1>5 DEF MadeDone
  <2>2. CASE now = Bytes(p, "shipped")
    <3>1. now = [file |-> p, state |-> "shipped", pins |-> {}]
      BY <2>2 DEF Bytes
    <3>2. pins = {}
      BY <3>1
    <3> HIDE DEF now, pins
    <3> QED BY <3>1, <3>2
  <2>3. CASE now = [file |-> p, state |-> "relocated", pins |-> now.pins]
    <3> HIDE DEF now, pins
    <3> QED BY <2>3
  <2> QED BY <2>1, <2>2, <2>3
<1> HIDE DEF now, pins, data
<1>9. Put(p, [is |-> "file", data |-> data]) /\ Still
  BY <1>1, <1>2, <1>3, <1>7, WriteIs DEF Still
<1>10. /\ RelTypes' /\ KindInv' /\ TreeInv' /\ JobInv' /\ LastInv'
       /\ Supplied' /\ AliasDone' /\ InputDone' /\ CopyDone' /\ MirrorDone'
       /\ (Over(6)' => Relocated(MapPath)') /\ (Over(7)' => Relocated(PinsPath)')
       /\ Only({p}) /\ work'[p] = [is |-> "file", data |-> data]
  BY <1>0, <1>1, <1>3, <1>9, WriteHolds
<1>11. MadeDone'
  <2> SUFFICES ASSUME NEW q \in Range(kit.rewrite)
               PROVE  \/ FileAt(q, made[q].now)'
                      \/ q = SealPath /\ Relocated(q)'
    BY <1>1, <1>3, <1>5, <1>9 DEF MadeDone, Still
  <2>1. CASE q # p
    <3>1. q \in DOMAIN work /\ work[q] = [is |-> "file", data |-> made[q].now]
      BY <1>5 DEF FileAt
    <3>2. q \in DOMAIN work' /\ work'[q] = work[q]
      BY <2>1, <3>1, <1>10 DEF Only
    <3> QED BY <3>1, <3>2, <1>3 DEF FileAt
  <2>2. CASE q = p
    <3>1. p \in DOMAIN work' /\ work'[p] = [is |-> "file", data |-> data]
      BY <1>10 DEF Only
    <3>2. data = made[p].now => FileAt(p, made[p].now)'
      BY <3>1, <1>3 DEF FileAt
    <3>3. data.state = "relocated" /\ data.file = p => Relocated(p)'
      BY <3>1 DEF Relocated
    <3> QED BY <2>2, <3>2, <3>3, <1>1, <1>8 DEF now
  <2> QED BY <2>1, <2>2
<1> QED BY <1>10, <1>11 DEF RelInv, DoneInv

(* A step that writes nothing keeps what is there. *)
LEMMA QuietHolds == ASSUME RelInv, Still, UNCHANGED <<user, work>>, rphase = "running", rphase' = rphase
                    PROVE  RelTypes' /\ KindInv' /\ TreeInv' /\ Only({})
<1>1. /\ Needed' = Needed /\ Sol' = Sol /\ Leaves' = Leaves /\ Dirs' = Dirs /\ Files(kit)' = Files(kit)
      /\ \A q : InPayload(q)' <=> InPayload(q)
      /\ \A q : Alias(q)' = Alias(q)
  BY StillIs
<1>2. KindInv' /\ TreeInv'
  <2>1. \A q, n : Fits(q, n) => Fits(q, n)'
    BY <1>1 DEF Fits, Mirror, Still
  <2>2. KindInv'
    BY <2>1 DEF KindInv, RelInv
  <2> QED BY <2>2, <1>1 DEF RelInv, TreeInv, IsLink, Node
<1>3. RelTypes'
  BY <1>1 DEF RelInv, RelTypes, Still
<1> QED BY <1>2, <1>3 DEF Only

(* A file whose records are followed comes before everything left.         *)
LEMMA PushHolds ==
  ASSUME JobInv, LastInv, Still, rphase = "running", rphase' = rphase, NEW t \in Range(kit.rewrite),
         NEW s \in Seq(Jobs), Staged(s), SealLast(s), todo' = <<<<"rebind", t>>>> \o s,
         \A y \in Range(s) : 2 <= Stage(y[1]),
         {<<"map", MapPath>>, <<"pins", PinsPath>>, <<"seal", SealPath>>} \subseteq Range(s)
  PROVE  JobInv' /\ LastInv' /\ ~Over(6)' /\ ~Over(7)' /\ Left' = {<<"rebind", t>>} \cup Range(s)
<1>1. PICK x : x = <<"rebind", t>>
  OBVIOUS
<1>2. x \in Jobs /\ x[1] = "rebind" /\ Stage(x[1]) = 2
  BY <1>1, StageIs DEF Jobs
<1>3. /\ <<x>> \o s \in Seq(Jobs) /\ Staged(<<x>> \o s) /\ SealLast(<<x>> \o s)
      /\ Range(<<x>> \o s) = {x} \cup Range(s)
  BY <1>2, Pushed
<1>4. todo' = <<x>> \o s
  BY <1>1
<1>5. todo' \in Seq(Jobs) /\ Staged(todo') /\ SealLast(todo') /\ Left' = {x} \cup Range(s) /\ Jobs' = Jobs
  BY <1>3, <1>4, StillIs DEF Left
<1>6. JobInv'
  BY <1>5 DEF JobInv, Staged, SealLast
<1>7. LastInv'
  BY <1>5 DEF LastInv
<1>8. ~Over(6)' /\ ~Over(7)'
  <2>1. x \in Left' /\ ~(Stage(x[1]) > 6) /\ ~(Stage(x[1]) > 7)
    BY <1>2, <1>5
  <2> QED BY <2>1 DEF Over
<1> QED BY <1>1, <1>5, <1>6, <1>7, <1>8


(* A file whose rewritten targets have all been tried is written. *)
LEMMA RebindWrites ==
  ASSUME RelInv, UNCHANGED session, Rebind, NEW p, p = Item, Untried(p) = {}
  PROVE  RelInv'
<1>1. JobInv /\ RelTypes /\ TreeInv /\ rphase = "running" /\ DoneInv /\ MadeDone /\ p \in Range(kit.rewrite) /\ At("rebind")
  <2>1. At("rebind") /\ JobInv /\ RelTypes /\ TreeInv /\ DoneInv
    BY DEF Rebind, RelInv
  <2>2. p \in Range(kit.rewrite) /\ Ran /\ rphase = "running"
    BY <2>1, JobIs
  <2> QED BY <2>1, <2>2 DEF DoneInv
<1>2. p \in Leaves
  BY <1>1, LeafIs DEF Leaves
<1>3. PICK data : data = Rebound(p)
  OBVIOUS
<1>4. /\ Write(p, data) /\ Pop /\ UNCHANGED <<kit, user, given, rphase>>
      /\ DOMAIN made' = DOMAIN made \cup {p} /\ made'[p].now = data
      /\ \A q \in DOMAIN made : q # p => made'[q] = made[q]
  BY <1>3 DEF Rebind
<1>5. data \in {Bytes(p, "shipped"), [file |-> p, state |-> "relocated", pins |-> data.pins]}
  <2>1. payload[p] = Bytes(p, "shipped")
    BY <1>1, LeafIs DEF RelTypes, Shipped
  <2>2. data = payload[p] \/ \E s : data = [file |-> p, state |-> "relocated", pins |-> s]
    BY <1>3 DEF Rebound
  <2> QED BY <2>1, <2>2
<1>6. Put(p, [is |-> "file", data |-> data]) /\ Still
  BY <1>1, <1>2, <1>4, WriteIs DEF Still
<1>7. /\ RelTypes' /\ KindInv' /\ TreeInv' /\ JobInv' /\ LastInv'
      /\ Supplied' /\ AliasDone' /\ InputDone' /\ CopyDone' /\ MirrorDone'
      /\ (Over(6)' => Relocated(MapPath)') /\ (Over(7)' => Relocated(PinsPath)')
      /\ Only({p}) /\ work'[p] = [is |-> "file", data |-> data] /\ Left = {Job} \cup Left' /\ Job = <<"rebind", p>>
  BY <1>1, <1>4, <1>6, WriteHolds
<1>8. DOMAIN made' \subseteq Range(kit.rewrite) /\ kit' = kit
  BY <1>1, <1>4 DEF MadeDone
<1>9. \A q \in DOMAIN made' :
        made'[q].now \in {Bytes(q, "shipped"), [file |-> q, state |-> "relocated", pins |-> made'[q].now.pins]}
  <2> SUFFICES ASSUME NEW q \in DOMAIN made'
               PROVE  made'[q].now \in {Bytes(q, "shipped"), [file |-> q, state |-> "relocated", pins |-> made'[q].now.pins]}
    OBVIOUS
  <2>1. CASE q = p
    BY <2>1, <1>4, <1>5
  <2>2. CASE q # p
    <3>1. q \in DOMAIN made /\ made'[q] = made[q]
      BY <2>2, <1>4
    <3> QED BY <3>1, <1>1 DEF MadeDone
  <2> QED BY <2>1, <2>2
<1>10. \A q \in Range(kit.rewrite) :
          \/ q \notin DOMAIN made' /\ {<<"produce", q>>, <<"rebind", q>>} \cap Left' # {}
          \/ q \in DOMAIN made' /\ FileAt(q, made[q].now)'
  <2> SUFFICES ASSUME NEW q \in Range(kit.rewrite)
               PROVE  \/ q \notin DOMAIN made' /\ {<<"produce", q>>, <<"rebind", q>>} \cap Left' # {}
                      \/ q \in DOMAIN made' /\ FileAt(q, made[q].now)'
    OBVIOUS
  <2>1. CASE q = p
    <3>1. p \in DOMAIN work'
      BY <1>7 DEF Only
    <3> QED BY <2>1, <3>1, <1>4, <1>7 DEF FileAt
  <2>2. CASE q # p /\ q \notin DOMAIN made
    <3>1. {<<"produce", q>>, <<"rebind", q>>} \cap Left # {}
      BY <2>2, <1>1 DEF MadeDone
    <3>2. Job # <<"produce", q>> /\ Job # <<"rebind", q>>
      BY <2>2, <1>7
    <3> QED BY <2>2, <3>1, <3>2, <1>4, <1>7
  <2>3. CASE q # p /\ q \in DOMAIN made
    <3>1. FileAt(q, made[q].now) /\ made'[q] = made[q]
      BY <2>3, <1>1, <1>4 DEF MadeDone
    <3>2. q \in DOMAIN work' /\ work'[q] = work[q]
      BY <2>3, <3>1, <1>7 DEF FileAt, Only
    <3> QED BY <2>3, <3>1, <3>2, <1>4 DEF FileAt
  <2> QED BY <2>1, <2>2, <2>3
<1>11. MadeDone'
  <2>1. \A q : Bytes(q, "shipped")' = Bytes(q, "shipped")
    BY DEF Bytes
  <2> QED BY <1>8, <1>9, <1>10, <2>1 DEF MadeDone
<1> QED BY <1>7, <1>11 DEF RelInv, DoneInv

(* A rewritten target that nobody has tried is tried first. *)
LEMMA DescentHolds ==
  ASSUME RelInv, Still, UNCHANGED <<user, work, made, rphase>>, rphase = "running", NEW t \in Range(kit.rewrite),
         NEW s \in Seq(Jobs), Staged(s), SealLast(s), todo' = <<<<"rebind", t>>>> \o s,
         \A y \in Range(s) : 2 <= Stage(y[1]),
         {<<"map", MapPath>>, <<"pins", PinsPath>>, <<"seal", SealPath>>} \subseteq Range(s),
         NEW j, Left \subseteq {j} \cup Range(s), j[1] \in {"none", "produce"}, j[1] = "produce" => j[2] = t
  PROVE  RelInv'
<1>1. RelTypes /\ DoneInv /\ MadeDone /\ Ran /\ JobInv /\ LastInv
  BY DEF RelInv, DoneInv, Ran
<1>2. RelTypes' /\ KindInv' /\ TreeInv' /\ Only({})
  BY QuietHolds
<1>3. JobInv' /\ LastInv' /\ ~Over(6)' /\ ~Over(7)' /\ Left' = {<<"rebind", t>>} \cup Range(s)
  BY <1>1, PushHolds
<1>4. Left \subseteq {j} \cup Left' /\ j[1] \notin {"alias", "install", "copy", "mirror", "rebind"}
      /\ (j[1] = "produce" => <<"rebind", j[2]>> \in Left')
  BY <1>3
<1>5. Supplied' /\ AliasDone' /\ InputDone' /\ CopyDone' /\ MirrorDone'
  <2> PICK P : P = {}
    OBVIOUS
  <2>1. Only(P) /\ P \subseteq Files(kit) \cup DOMAIN kit.aliases /\ \A x : x \notin P
    BY <1>2
  <2> QED BY <1>1, <1>4, <2>1, DoneKept
<1>6. MadeDone'
  <2> PICK P : P = {}
    OBVIOUS
  <2>1. Only(P) /\ P \cap Range(kit.rewrite) = {}
    BY <1>2
  <2> QED BY <1>1, <1>4, <2>1, MadeKept
<1> QED BY <1>2, <1>3, <1>5, <1>6 DEF RelInv, DoneInv

(* A file under way: its targets are tried first, then it is written. *)
LEMMA RebindHolds == RelInv /\ UNCHANGED session /\ Rebind => RelInv'
<1> SUFFICES ASSUME RelInv, UNCHANGED session, Rebind PROVE RelInv'
  OBVIOUS
<1>0. PICK p : p = Item
  OBVIOUS
<1>1. CASE Untried(p) = {}
  BY <1>0, <1>1, RebindWrites
<1>2. CASE Untried(p) # {}
  <2>1. PICK t \in Untried(p) : todo' = <<<<"rebind", t>>>> \o todo
    BY <1>0, <1>2 DEF Rebind
  <2>2. /\ Still /\ UNCHANGED <<user, work, made, rphase>> /\ t \in Range(kit.rewrite) /\ At("rebind")
    BY <1>0, <1>2, <2>1 DEF Rebind, Still, Untried
  <2>3. todo \in Seq(Jobs) /\ Staged(todo) /\ SealLast(todo) /\ rphase = "running" /\ todo # <<>> /\ Job[1] = "rebind"
        /\ <<"seal", SealPath>> \in Left
    BY <2>2 DEF RelInv, JobInv, At
  <2>4. Head(todo)[1] = "rebind" /\ Head(todo) \in Range(todo) /\ \A y \in Range(todo) : 2 <= Stage(y[1])
    <3>1. Head(todo)[1] = "rebind" /\ \A y \in Range(todo) : Stage(Head(todo)[1]) <= Stage(y[1])
      BY <2>3, Popped DEF Job
    <3>2. Head(todo) \in Range(todo)
      BY <2>3 DEF Range
    <3> QED BY <3>1, <3>2, StageIs
  <2>5. {<<"map", MapPath>>, <<"pins", PinsPath>>, <<"seal", SealPath>>} \subseteq Range(todo)
    <3>1. \E j \in Left : Stage(j[1]) < 6 /\ Stage(j[1]) < 7
      BY <2>4, StageIs DEF Left
    <3> QED BY <2>3, <3>1 DEF RelInv, LastInv, Left
  <2>6. PICK j : j = <<"none", p>>
    OBVIOUS
  <2>7. Left \subseteq {j} \cup Range(todo) /\ j[1] = "none"
    BY <2>6 DEF Left
  <2> QED BY <2>1, <2>2, <2>3, <2>4, <2>5, <2>7, DescentHolds
<1> QED BY <1>1, <1>2

(* A job that is done and wrote nothing. *)
LEMMA SkipHolds ==
  ASSUME RelInv, Still, UNCHANGED <<user, work, made, rphase>>, rphase = "running", todo # <<>>, Pop,
         Job[1] \in {"check", "produce", "mirror"}, Job[1] = "produce" => Job[2] \in DOMAIN made,
         Job[1] = "mirror" => Shown(Job[2])
  PROVE  RelInv'
<1>1. RelTypes /\ DoneInv /\ MadeDone /\ Ran /\ JobInv /\ LastInv
  BY DEF RelInv, DoneInv, Ran
<1>2. RelTypes' /\ KindInv' /\ TreeInv' /\ Only({})
  BY QuietHolds
<1>3. PICK j : j = Job
  OBVIOUS
<1>4. JobInv' /\ Left = {j} \cup Left' /\ j \in Jobs /\ \A x \in Left : Stage(j[1]) <= Stage(x[1])
  BY <1>1, <1>3, PopHolds
<1> PICK P : P = {}
  OBVIOUS
<1>5. /\ Only(P) /\ P \subseteq Files(kit) \cup DOMAIN kit.aliases /\ P \cap Range(kit.rewrite) = {} /\ \A x : x \notin P
      /\ Left \subseteq {j} \cup Left'
  BY <1>2, <1>4
<1>6. Shown(j[2]) => Shown(j[2])'
  BY <1>1, <1>5, ShownKept
<1>7. Supplied' /\ AliasDone' /\ InputDone' /\ CopyDone' /\ MirrorDone'
  BY <1>1, <1>3, <1>5, <1>6, DoneKept
<1>8. MadeDone'
  BY <1>1, <1>3, <1>5, MadeKept
<1>9. LastInv' /\ (Over(6)' => Relocated(MapPath)') /\ (Over(7)' => Relocated(PinsPath)')
  BY <1>1, <1>3, <1>4, <1>5, LastHolds
<1> QED BY <1>2, <1>4, <1>7, <1>8, <1>9 DEF RelInv, DoneInv

(* A file that is to be rewritten, unless it has been already. *)
LEMMA ProduceHolds == RelInv /\ UNCHANGED session /\ Produce => RelInv'
<1> SUFFICES ASSUME RelInv, UNCHANGED session, Produce PROVE RelInv'
  OBVIOUS
<1>0. PICK p : p = Item
  OBVIOUS
<1>1. /\ Still /\ UNCHANGED <<user, work, made, rphase>> /\ At("produce")
      /\ todo' = IF p \in DOMAIN made THEN Tail(todo) ELSE <<<<"rebind", p>>>> \o Tail(todo)
  BY <1>0 DEF Produce, Still
<1>2. /\ JobInv /\ rphase = "running" /\ todo # <<>> /\ Job = <<"produce", p>> /\ p \in Range(kit.rewrite)
      /\ todo \in Seq(Jobs) /\ Staged(todo) /\ SealLast(todo) /\ <<"seal", SealPath>> \in Left
  <2>1. JobInv
    BY DEF RelInv
  <2> QED BY <1>0, <1>1, <2>1, JobIs DEF JobInv
<1>3. CASE p \in DOMAIN made
  BY <1>1, <1>2, <1>3, SkipHolds DEF Pop
<1>4. CASE p \notin DOMAIN made
  <2>1. PICK s : s = Tail(todo)
    OBVIOUS
  <2>2. /\ s \in Seq(Jobs) /\ Staged(s) /\ SealLast(s) /\ Range(todo) = {Head(todo)} \cup Range(s)
        /\ \A x \in Range(todo) : Stage(Head(todo)[1]) <= Stage(x[1])
    BY <1>2, <2>1, Popped
  <2>3. Head(todo) = <<"produce", p>> /\ Left = Range(todo) /\ todo' = <<<<"rebind", p>>>> \o s
    BY <1>1, <1>2, <1>4, <2>1 DEF Job, Left
  <2>4. \A y \in Range(s) : 2 <= Stage(y[1])
    BY <2>2, <2>3, StageIs
  <2>5. {<<"map", MapPath>>, <<"pins", PinsPath>>, <<"seal", SealPath>>} \subseteq Range(s)
    <3>1. \E x \in Left : Stage(x[1]) < 6 /\ Stage(x[1]) < 7
      BY <2>2, <2>3, StageIs
    <3>2. {<<"map", MapPath>>, <<"pins", PinsPath>>, <<"seal", SealPath>>} \subseteq Left
      BY <1>2, <3>1 DEF RelInv, LastInv
    <3>3. \A x, y : <<"produce", p>> # <<"map", x>> /\ <<"produce", p>> # <<"pins", x>> /\ <<"produce", p>> # <<"seal", x>>
      OBVIOUS
    <3> QED BY <2>2, <2>3, <3>2, <3>3
  <2>6. PICK j : j = <<"produce", p>>
    OBVIOUS
  <2>7. Left \subseteq {j} \cup Range(s) /\ j[1] = "produce" /\ j[2] = p
    BY <2>2, <2>3, <2>6
  <2> QED BY <1>1, <1>2, <2>2, <2>3, <2>4, <2>5, <2>7, DescentHolds
<1> QED BY <1>3, <1>4

(* An input that is not the expected one ends run. *)
LEMMA CheckHolds == RelInv /\ UNCHANGED session /\ CheckInput => RelInv'
<1> SUFFICES ASSUME RelInv, UNCHANGED session, CheckInput PROVE RelInv'
  OBVIOUS
<1>1. Still /\ UNCHANGED <<user, work, made>> /\ rphase = "running" /\ todo # <<>> /\ Job[1] = "check"
  BY DEF CheckInput, Still, At
<1>2. CASE rphase' = rphase
  <2>1. Pop
    BY <1>1, <1>2 DEF CheckInput
  <2> QED BY <1>1, <1>2, <2>1, SkipHolds
<1>3. CASE rphase' # rphase
  <2>1. todo' = <<>> /\ rphase' = "refused"
    BY <1>3 DEF CheckInput
  <2> QED BY <1>1, <2>1, StopHolds
<1> QED BY <1>2, <1>3


(* What is removed is linked again at once, or in the next run.            *)
LEMMA ClearHolds == RelInv /\ UNCHANGED session /\ Clear => RelInv'
<1> SUFFICES ASSUME RelInv, UNCHANGED session, Clear PROVE RelInv'
  OBVIOUS
<1>0. PICK p : p = Item
  OBVIOUS
<1>1. /\ Still /\ UNCHANGED <<user, todo, made, rphase>> /\ Unlink(p)
       /\ RelTypes /\ KindInv /\ TreeInv /\ JobInv /\ LastInv /\ DoneInv
  BY <1>0 DEF Clear, Still, RelInv
<1>2. PICK kind \in {"alias", "install"} : At(kind)
  BY DEF Clear
<1>3. /\ rphase = "running" /\ Ran /\ Job = <<kind, p>> /\ Job \in Left
      /\ (kind = "alias" => p \in DOMAIN kit.aliases) /\ (kind = "install" => p \in Needed)
  BY <1>0, <1>2, <1>1, JobIs
<1>4. /\ p \in Files(kit) \cup DOMAIN kit.aliases /\ p \notin Range(kit.rewrite) /\ p \notin Range(kit.copy)
      /\ p \notin DOMAIN payload \ Needed
      /\ (p \in Needed => kind = "install") /\ (p \in DOMAIN kit.aliases => kind = "alias")
      /\ DOMAIN payload \subseteq Files(kit)
  <2>1. /\ Sol \subseteq Files(kit) /\ Needed \subseteq Sol
        /\ Files(kit) \cap DOMAIN kit.aliases = {}
        /\ Range(kit.rewrite) \cap Needed = {} /\ Range(kit.copy) \cap Needed = {}
        /\ Range(kit.rewrite) \subseteq Sol /\ Range(kit.copy) \subseteq Sol
    BY <1>1, LeafIs
  <2>2. DOMAIN payload \subseteq Files(kit)
    BY <1>1 DEF RelTypes, Shipped, Files
  <2> QED BY <2>1, <2>2, <1>3
<1>5. \A q \in DOMAIN work : p \notin Above(q)
  BY <1>1, <1>4, NothingUnder
<1>6. KindInv' /\ TreeInv'
  BY <1>1, <1>5, UnlinkHolds
<1>7. DOMAIN work' = DOMAIN work \ {p} /\ \A q \in DOMAIN work' : work'[q] = work[q]
  BY <1>1 DEF Unlink
<1>8. /\ Needed' = Needed /\ kit' = kit /\ payload' = payload /\ Jobs' = Jobs /\ Left' = Left /\ \A q : Alias(q)' = Alias(q)
  BY <1>1, StillIs DEF Still, Left
<1>9. RelTypes' /\ JobInv' /\ LastInv'
  <2>1. RelTypes'
    BY <1>1, <1>3, <1>8 DEF RelTypes, Still
  <2>2. JobInv' /\ LastInv'
    BY <1>1, <1>8 DEF JobInv, LastInv, Staged, SealLast
  <2> QED BY <2>1, <2>2
<1>10. Supplied'
  BY <1>1, <1>7, <1>8 DEF DoneInv, Supplied
<1>11. AliasDone'
  <2> SUFFICES ASSUME NEW q \in DOMAIN kit.aliases, <<"alias", q>> \notin Left PROVE q \in DOMAIN work' /\ work'[q] = Alias(q)
    BY <1>8 DEF AliasDone
  <2>1. q # p
    BY <1>3, <1>4
  <2> QED BY <2>1, <1>1, <1>3, <1>7 DEF DoneInv, AliasDone
<1>12. InputDone'
  <2> SUFFICES ASSUME NEW q \in Needed, <<"install", q>> \notin Left PROVE q \in DOMAIN work'
    BY <1>8 DEF InputDone
  <2>1. q # p
    BY <1>3, <1>4
  <2> QED BY <2>1, <1>1, <1>3, <1>7 DEF DoneInv, InputDone
<1>13. \A q, data : q # p /\ FileAt(q, data) => FileAt(q, data)'
  BY <1>7 DEF FileAt
<1>14. \A q : q # p /\ Relocated(q) => Relocated(q)'
  BY <1>7 DEF Relocated
<1>15. MadeDone'
  <2> SUFFICES ASSUME NEW q \in Range(kit.rewrite)
               PROVE  \/ q \notin DOMAIN made /\ {<<"produce", q>>, <<"rebind", q>>} \cap Left # {}
                      \/ q \in DOMAIN made /\ FileAt(q, made[q].now)'
    BY <1>1, <1>3, <1>8 DEF MadeDone, DoneInv
  <2>1. CASE q \notin DOMAIN made
    BY <2>1, <1>1, <1>3 DEF MadeDone, DoneInv
  <2>2. CASE q \in DOMAIN made
    <3>1. FileAt(q, made[q].now)
      BY <2>2, <1>1, <1>3 DEF MadeDone, DoneInv
    <3>2. q # p /\ q \in DOMAIN work
      BY <1>4, <3>1 DEF FileAt
    <3> QED BY <2>2, <3>1, <3>2, <1>1, <1>7 DEF FileAt
  <2> QED BY <2>1, <2>2
<1>16. CopyDone'
  <2> SUFFICES ASSUME NEW q \in Range(kit.copy), <<"copy", q>> \notin Left
               PROVE  FileAt(q, Bytes(q, "shipped"))' \/ (q = PinsPath /\ Relocated(q)')
    BY <1>8 DEF CopyDone
  <2>1. q # p
    BY <1>4
  <2>2. FileAt(q, Bytes(q, "shipped")) \/ (q = PinsPath /\ Relocated(q))
    BY <1>1, <1>3 DEF DoneInv, CopyDone
  <2>3. q \in DOMAIN work' /\ work'[q] = work[q]
    BY <2>1, <2>2, <1>7 DEF FileAt, Relocated
  <2> QED BY <2>2, <2>3 DEF FileAt, Relocated
<1>17. MirrorDone'
  <2> SUFFICES ASSUME NEW d \in Range(kit.mirrors), <<"mirror", d>> \notin Left, NEW f \in DOMAIN payload \ Needed, Under(f, d)
               PROVE  f \in DOMAIN work' \/ \E a \in Above(f) : IsLink(a)'
    BY <1>8 DEF MirrorDone, Shown
  <2>1. f \in DOMAIN work \/ \E a \in Above(f) : IsLink(a)
    BY <1>1, <1>3 DEF DoneInv, MirrorDone, Shown
  <2>2. f # p /\ p \notin Above(f)
    <3>1. f \in Named(kit)
      BY <1>4 DEF Named
    <3> QED BY <3>1, <1>1, <1>4, KitIs DEF RelTypes
  <2>3. CASE f \in DOMAIN work
    BY <2>2, <2>3, <1>7
  <2>4. ASSUME NEW a \in Above(f), IsLink(a) PROVE IsLink(a)'
    <3>1. a \in DOMAIN work /\ work[a].is = "link" /\ a # p
      BY <2>2, <2>4 DEF IsLink, Node
    <3>2. a \in DOMAIN work' /\ work'[a].is = "link"
      BY <3>1, <1>7
    <3> QED BY <3>2 DEF IsLink, Node
  <2> QED BY <2>1, <2>3, <2>4
<1>18. ~Over(6)' /\ ~Over(7)'
  <2>1. Job \in Left' /\ Stage(Job[1]) \in 0 .. 3
    BY <1>3, <1>8, StageIs
  <2>2. PICK j : j = Job
    OBVIOUS
  <2>3. j \in Left' /\ ~(Stage(j[1]) > 6) /\ ~(Stage(j[1]) > 7)
    BY <2>1, <2>2
  <2> QED BY <2>3 DEF Over
<1> QED BY <1>6, <1>9, <1>10, <1>11, <1>12, <1>15, <1>16, <1>17, <1>18 DEF RelInv, DoneInv


(* What is below a payload file's names: paths, without an alias on the    *)
(* way, and no file.                                                       *)
LEMMA OnTheWay == ASSUME RelTypes, NEW f \in DOMAIN payload, NEW q \in Above(f) \cup {f}
                  PROVE  /\ f \in Paths /\ q \in Paths /\ InPayload(q) /\ Above(q) \subseteq Above(f)
                         /\ DOMAIN kit.aliases \cap Above(q) = {} /\ Files(kit) \cap Above(q) = {}
<1>1. f \in Named(kit) /\ f \in Paths
  <2>1. DOMAIN payload \subseteq Files(kit)
    BY DEF RelTypes, Shipped, Files
  <2> QED BY <2>1, KitIs DEF RelTypes, Named
<1>2. q \in Paths /\ Above(q) \subseteq Above(f)
  BY <1>1, AboveIs, AboveTrans
<1>3. InPayload(q)
  BY <1>1, <1>2, UnderIsAbove DEF InPayload
<1>4. \A a \in Files(kit) \cup DOMAIN kit.aliases : a \notin Above(f)
  BY <1>1, KitIs DEF RelTypes
<1> QED BY <1>1, <1>2, <1>3, <1>4

(* Before the mirrors, every file is below work. *)
LEMMA LeavesThere == ASSUME RelInv, At("mirror") PROVE Leaves \subseteq DOMAIN work
<1>1. RelTypes /\ JobInv /\ DoneInv
  BY DEF RelInv
<1>2. Ran /\ rphase = "running" /\ todo # <<>> /\ Job[1] = "mirror"
  BY DEF At, Ran
<1>3. \A x \in Left : x[1] \notin {"alias", "produce", "rebind", "install", "copy"}
  <2>1. Head(todo)[1] = "mirror" /\ \A x \in Range(todo) : Stage(Head(todo)[1]) <= Stage(x[1])
    BY <1>1, <1>2, Popped DEF JobInv, Job
  <2> QED BY <2>1, StageIs DEF Left
<1>4. AliasDone /\ MadeDone /\ InputDone /\ CopyDone
  BY <1>1, <1>2 DEF DoneInv
<1>5. DOMAIN kit.aliases \subseteq DOMAIN work
  BY <1>3, <1>4 DEF AliasDone
<1>6. Needed \subseteq DOMAIN work
  BY <1>3, <1>4 DEF InputDone
<1>7. Range(kit.rewrite) \subseteq DOMAIN work
  <2> SUFFICES ASSUME NEW p \in Range(kit.rewrite) PROVE p \in DOMAIN work
    OBVIOUS
  <2>1. <<"produce", p>> \notin Left /\ <<"rebind", p>> \notin Left
    BY <1>3
  <2>2. FileAt(p, made[p].now) \/ Relocated(p)
    BY <1>4, <2>1 DEF MadeDone
  <2> QED BY <2>2 DEF FileAt, Relocated
<1>8. Range(kit.copy) \subseteq DOMAIN work
  BY <1>3, <1>4 DEF CopyDone, FileAt, Relocated
<1> QED BY <1>5, <1>6, <1>7, <1>8 DEF Leaves, Sol

(* A mirrored directory that is not there is behind no link.               *)
LEMMA MirrorRooted == ASSUME RelInv, NEW d \in Range(kit.mirrors), ~Exists(d)
                      PROVE  d \in Paths /\ d \notin DOMAIN work /\ \A a \in Above(d) : ~IsLink(a)
<1>1. RelTypes /\ KindInv /\ TreeInv
  BY DEF RelInv
<1>2. d \in Paths /\ d \in Named(kit) /\ \A a \in DOMAIN kit.aliases : a \notin Above(d)
  BY <1>1, KitIs DEF RelTypes, Named
<1>3. ASSUME NEW a \in Above(d), IsLink(a) PROVE FALSE
  <2>1. a \in DOMAIN work /\ Fits(a, work[a]) /\ work[a].is = "link"
    BY <1>1, <1>3 DEF KindInv, IsLink, Node
  <2>2. PICK e \in Range(kit.mirrors) : Under(a, e)
    BY <1>2, <2>1 DEF Fits
  <2>3. a \in Paths /\ e \in Paths
    BY <1>2, AboveIs, <1>1, LeafIs
  <2>4. e \in Above(d)
    BY <1>2, <2>2, <2>3, UnderIsAbove, AboveTrans
  <2>5. Under(d, e)
    BY <1>2, <2>3, <2>4, UnderIsAbove
  <2>6. PICK f \in Range(kit.rewrite) \cup Range(kit.copy) \cup kit.plain \cup Range(kit.required) : Under(f, d)
    BY <1>1, <2>5, KitIs DEF RelTypes
  <2>7. f \in DOMAIN payload \/ f \in Leaves
    <3>1. Range(kit.required) \subseteq Needed
      BY <1>1, KitIs DEF RelTypes, Needed, Given
    <3> QED BY <1>1, <2>6, <3>1, LeafIs DEF Leaves, Sol
  <2>8. CASE f \in DOMAIN payload
    <3>1. InPayload(d)
      BY <2>6, <2>8 DEF InPayload
    <3>2. DOMAIN kit.aliases \cap Above(d) = {}
      BY <1>2
    <3> QED BY <1>1, <1>2, <1>3, <3>1, <3>2, ExistsIs
  <2>9. CASE f \in Leaves
    <3>1. f \in Paths
      BY <1>1, <2>9, LeafIs
    <3>2. a \in Above(f)
      BY <1>2, <1>3, <2>6, <3>1, UnderIsAbove, AboveTrans
    <3> QED BY <1>1, <1>3, <2>9, <3>2 DEF TreeInv
  <2> QED BY <2>7, <2>8, <2>9
<1>4. Land(d) = <<"work", d>>
  BY <1>3, LandAt
<1>5. d \notin DOMAIN work
  BY <1>4 DEF Exists
<1> QED BY <1>2, <1>3, <1>5

(* An entry that is linked is nowhere above a file.                        *)
LEMMA UnlinkedIs == ASSUME RelInv, At("mirror"), NEW d \in Range(kit.mirrors), NEW q \in Unlinked(d)
                    PROVE  /\ q \in Paths /\ q \notin DOMAIN work /\ \A a \in Above(q) : ~IsLink(a)
                           /\ Fits(q, Mirror(q)) /\ \A a \in Above(q) : InPayload(a) /\ a \notin Files(kit)
                           /\ q \notin Sol /\ \A s \in Leaves : q \notin Above(s)
<1>1. RelTypes /\ KindInv /\ TreeInv
  BY DEF RelInv
<1>2. q \in Within(d) /\ ~Exists(q) /\ Under(q, d)
  BY DEF Unlinked, Within
<1>3. PICK f \in DOMAIN payload : q \in Above(f) \cup {f}
  BY <1>2 DEF Within
<1>4. /\ q \in Paths /\ InPayload(q) /\ Above(q) \subseteq Above(f)
      /\ DOMAIN kit.aliases \cap Above(q) = {} /\ Files(kit) \cap Above(q) = {}
  BY <1>1, <1>3, OnTheWay
<1>5. q \notin DOMAIN work /\ \A a \in Above(q) : ~IsLink(a)
  BY <1>1, <1>2, <1>4, ExistsIs
<1>6. Fits(q, Mirror(q))
  BY <1>2, <1>4 DEF Fits
<1>7. \A a \in Above(q) : InPayload(a) /\ a \notin Files(kit)
  BY <1>1, <1>3, <1>4, OnTheWay
<1>8. Leaves \subseteq DOMAIN work
  BY LeavesThere
<1>9. q \notin Sol /\ \A s \in Leaves : q \notin Above(s)
  BY <1>1, <1>5, <1>8 DEF TreeInv, Leaves
<1> QED BY <1>4, <1>5, <1>6, <1>7, <1>9

(* When nothing is unlinked, every file of the directory is shown.         *)
LEMMA AllShown == ASSUME RelInv, NEW d \in Range(kit.mirrors), Unlinked(d) = {} PROVE Shown(d)
<1> SUFFICES ASSUME NEW f \in DOMAIN payload, Under(f, d), f \notin DOMAIN work, \A a \in Above(f) : ~IsLink(a) PROVE FALSE
  BY DEF Shown
<1>1. RelTypes /\ KindInv /\ TreeInv
  BY DEF RelInv
<1>2. f \in Paths /\ d \in Paths
  BY <1>1, OnTheWay, LeafIs
<1>3. \A a \in Above(f) \cup {f} : Under(a, d) => a \in Within(d)
  BY DEF Within
<1>4. \A a \in Above(f) \cup {f} : Exists(a) => a \in DOMAIN work
  <2> SUFFICES ASSUME NEW a \in Above(f) \cup {f}, Exists(a) PROVE a \in DOMAIN work
    OBVIOUS
  <2>1. a \in Paths /\ InPayload(a) /\ Above(a) \subseteq Above(f) /\ DOMAIN kit.aliases \cap Above(a) = {}
    BY <1>1, OnTheWay
  <2> QED BY <1>1, <2>1, ExistsIs
<1> DEFINE bad == {a \in Above(f) : Under(a, d) /\ ~IsDir(a)}
<1>5. bad # {}
  <2>1. ~Exists(f) /\ f \in Within(d)
    BY <1>3, <1>4
  <2>2. f \notin Unlinked(d)
    OBVIOUS
  <2> QED BY <2>1, <2>2 DEF Unlinked
<1>6. PICK a \in bad : \A b \in bad : Len(a) <= Len(b)
  <2> DEFINE T == {Len(b) : b \in bad}
  <2>1. \A b \in bad : Len(b) \in Nat
    BY <1>2, AboveIs
  <2>2. T \subseteq Nat /\ T # {}
    BY <1>5, <2>1
  <2> HIDE DEF T
  <2>3. PICK n \in T : \A m \in T : n <= m
    BY <2>2, Least
  <2> QED BY <2>3 DEF T
<1>7. a \in Above(f) /\ Under(a, d) /\ ~IsDir(a) /\ a \in Paths
  BY <1>2, <1>6, AboveIs
<1>8. \A b \in Above(a) : Under(b, d) => IsDir(b)
  <2> SUFFICES ASSUME NEW b \in Above(a), Under(b, d), ~IsDir(b) PROVE FALSE
    OBVIOUS
  <2>1. b \in bad
    BY <1>2, <1>7, AboveTrans
  <2>2. Len(b) < Len(a) /\ Len(a) \in Nat /\ Len(b) \in Nat
    BY <1>7, AboveIs DEF Paths
  <2> QED BY <1>6, <2>1, <2>2
<1>9. Exists(a)
  <2>1. a \in Within(d) /\ a \notin Unlinked(d)
    BY <1>3, <1>7
  <2> QED BY <2>1, <1>8 DEF Unlinked
<1>10. a \in DOMAIN work
  BY <1>4, <1>7, <1>9
<1>11. Fits(a, work[a]) /\ work[a].is \notin {"dir", "link"}
  BY <1>1, <1>7, <1>10 DEF KindInv, IsDir, IsLink, Node
<1>12. a \in Sol \cup {MapPath}
  BY <1>1, <1>11, LeafIs DEF Fits, Mirror, Alias
<1>13. a \in Files(kit)
  BY <1>1, <1>12, LeafIs
<1>14. Files(kit) \cap Above(f) = {}
  BY <1>1, OnTheWay
<1> QED BY <1>7, <1>13, <1>14


(* A directory or a link for a mirror. *)
LEMMA MirrorPut ==
  ASSUME RelInv, Still, UNCHANGED <<user, todo, made, rphase>>, At("mirror"), NEW p \in Paths, NEW node, Put(p, node),
         p \notin DOMAIN work, \A a \in Above(p) : ~IsLink(a), Fits(p, node), node.is \in {"dir", "link"},
         \A a \in Above(p) : a \in Dirs \/ (InPayload(a) /\ a \notin Files(kit)),
         node.is = "link" => p \notin Sol /\ \A s \in Leaves : p \notin Above(s)
  PROVE  RelInv'
<1>1. RelTypes /\ KindInv /\ TreeInv /\ JobInv /\ LastInv /\ DoneInv /\ MadeDone /\ Ran /\ rphase = "running"
  BY DEF RelInv, DoneInv, At, Ran
<1>2. Placed(p, node)
  BY PutIs
<1>3. KindInv' /\ TreeInv'
  BY <1>1, <1>2, PutHolds
<1> PICK P : P = {}
  OBVIOUS
<1>4. Only(P) /\ P \subseteq Files(kit) \cup DOMAIN kit.aliases /\ P \cap Range(kit.rewrite) = {} /\ \A x : x \notin P
  BY <1>2 DEF Placed, Only
<1> PICK j : j = <<"none", p>>
  OBVIOUS
<1>5. Left' = Left /\ Left \subseteq {j} \cup Left' /\ j[1] = "none"
  BY DEF Left
<1>6. Supplied' /\ AliasDone' /\ InputDone' /\ CopyDone' /\ MirrorDone'
  BY <1>1, <1>4, <1>5, DoneKept
<1>7. MadeDone'
  BY <1>1, <1>4, <1>5, MadeKept
<1>8. Job \in Left /\ Job[1] = "mirror"
  BY <1>1, JobIs DEF At
<1>9. ~Over(6)' /\ ~Over(7)'
  <2>1. PICK x : x = Job
    OBVIOUS
  <2>2. x \in Left' /\ ~(Stage(x[1]) > 6) /\ ~(Stage(x[1]) > 7)
    BY <1>5, <1>8, <2>1, StageIs
  <2> QED BY <2>2 DEF Over
<1>10. Needed' = Needed /\ Jobs' = Jobs
  BY StillIs
<1>11. RelTypes' /\ JobInv' /\ LastInv'
  <2>1. RelTypes'
    BY <1>1, <1>10 DEF RelTypes, Still
  <2>2. JobInv' /\ LastInv'
    BY <1>1, <1>5, <1>10 DEF JobInv, LastInv, Staged, SealLast
  <2> QED BY <2>1, <2>2
<1> QED BY <1>3, <1>6, <1>7, <1>9, <1>11 DEF RelInv, DoneInv

(* A directory is mirrored, entry by entry. *)
LEMMA MirrorHolds == RelInv /\ UNCHANGED session /\ MirrorDir => RelInv'
<1> SUFFICES ASSUME RelInv, UNCHANGED session, MirrorDir PROVE RelInv'
  OBVIOUS
<1>0. PICK d : d = Item
  OBVIOUS
<1>1. /\ Still /\ UNCHANGED <<user, made, rphase>> /\ At("mirror")
      /\ IF ~Exists(d) THEN Put(d, [is |-> "dir"]) /\ UNCHANGED todo
         ELSE IF Unlinked(d) = {} THEN Pop /\ UNCHANGED work
         ELSE LET q == CHOOSE e \in Unlinked(d) : TRUE IN
              Put(q, [is |-> "link", to |-> <<"payload", q>>]) /\ UNCHANGED todo
  BY <1>0 DEF MirrorDir, Still
<1>2. RelTypes /\ JobInv /\ d \in Range(kit.mirrors) /\ rphase = "running" /\ todo # <<>> /\ Job = <<"mirror", d>>
  <2>1. RelTypes /\ JobInv
    BY DEF RelInv
  <2> QED BY <1>0, <1>1, <2>1, JobIs
<1>3. CASE ~Exists(d)
  <2>1. d \in Paths /\ d \notin DOMAIN work /\ \A a \in Above(d) : ~IsLink(a)
    BY <1>2, <1>3, MirrorRooted
  <2>2. \A a \in Above(d) : a \in Dirs
    BY <1>2, AboveLeaf
  <2>3. PICK node : node = [is |-> "dir"]
    OBVIOUS
  <2>4. Fits(d, node)
    BY <1>2, <2>3 DEF Fits, Dirs
  <2>5. Put(d, node) /\ UNCHANGED todo
    BY <1>1, <1>3, <2>3
  <2> QED BY <1>1, <2>1, <2>2, <2>3, <2>4, <2>5, MirrorPut
<1>4. CASE Exists(d) /\ Unlinked(d) = {}
  <2>1. Shown(d)
    BY <1>2, <1>4, AllShown
  <2>2. Pop /\ UNCHANGED work
    BY <1>1, <1>4
  <2> QED BY <1>1, <1>2, <2>1, <2>2, SkipHolds
<1>5. CASE Exists(d) /\ Unlinked(d) # {}
  <2>1. PICK q : q = CHOOSE e \in Unlinked(d) : TRUE
    OBVIOUS
  <2>2. q \in Unlinked(d)
    BY <1>5, <2>1
  <2>3. /\ q \in Paths /\ q \notin DOMAIN work /\ \A a \in Above(q) : ~IsLink(a)
        /\ Fits(q, Mirror(q)) /\ \A a \in Above(q) : InPayload(a) /\ a \notin Files(kit)
        /\ q \notin Sol /\ \A s \in Leaves : q \notin Above(s)
    BY <1>1, <1>2, <2>2, UnlinkedIs
  <2>4. PICK node : node = Mirror(q)
    OBVIOUS
  <2>5. Put(q, node) /\ UNCHANGED todo
    BY <1>1, <1>5, <2>1, <2>4 DEF Mirror
  <2>6. node.is = "link"
    BY <2>4 DEF Mirror
  <2> QED BY <1>1, <2>3, <2>4, <2>5, <2>6, MirrorPut
<1> QED BY <1>3, <1>4, <1>5

-----------------------------------------------------------------------------
(* What comes before and after a run. *)

(* Every step of run. *)
LEMMA RelocateStepHolds == RelInv /\ UNCHANGED session /\ RelocateStep => RelInv'
  BY CheckHolds, ClearHolds, LinkAliasHolds, ProduceHolds, RebindHolds, InstallHolds, CopyHolds, MirrorHolds,
     MapHolds, PinsHolds, SealHolds DEF RelocateStep

(* A run that is killed leaves the tree as it is. *)
LEMMA KillHolds == RelInv /\ UNCHANGED session /\ KillRelocate => RelInv'
  BY StopHolds DEF KillRelocate, Still

(* A run over whatever an earlier one left. *)
LEMMA StartHolds == RelInv /\ UNCHANGED session /\ StartRelocate(driver = "two") => RelInv'
<1> SUFFICES ASSUME RelInv, UNCHANGED session, StartRelocate(driver = "two") PROVE RelInv'
  OBVIOUS
<1>0. PICK opt \in BOOLEAN : opt = (driver = "two")
  OBVIOUS
<1>1. /\ UNCHANGED <<session, kit, payload, user, work>> /\ given' = Needed
      /\ todo' = Program(kit, opt) /\ made' = <<>> /\ rphase' = "running"
  BY <1>0 DEF StartRelocate, Needed
<1>2. RelTypes /\ KindInv /\ TreeInv /\ JobInv /\ DoneInv /\ LastInv
  BY DEF RelInv
<1>3. Needed' = Needed
  BY <1>1 DEF Needed, driver, Given
<1>4. Sol' = Sol /\ Leaves' = Leaves /\ Dirs' = Dirs /\ Jobs' = Jobs
  BY <1>1, <1>3 DEF Sol, Leaves, Dirs, Jobs
<1>5. KindInv'
  <2>1. CASE work = <<>>
    BY <1>1, <2>1 DEF KindInv
  <2>2. CASE work # <<>>
    <3>1. Still
      BY <1>1, <1>2, <2>2 DEF RelTypes, Still
    <3>2. \A q, n : Fits(q, n) => Fits(q, n)'
      BY <3>1, <1>1, <1>3, <1>4, StillIs DEF Fits, Mirror
    <3> QED BY <1>1, <1>2, <3>2 DEF KindInv
  <2> QED BY <2>1, <2>2
<1>6. TreeInv'
  BY <1>1, <1>2, <1>4 DEF TreeInv, IsLink, Node
<1>7. RelTypes'
  BY <1>1, <1>2, <1>3 DEF RelTypes
<1>8. /\ todo' \in Seq(Body(kit, Given(kit, opt)) \cup Range(Final)) /\ Staged(todo')
      /\ Left' = Body(kit, Given(kit, opt)) \cup Range(Final)
      /\ \A i \in DOMAIN todo' : todo'[i][1] = "seal" => i = Len(todo')
  <2>1. kit \in Kits
    BY <1>2 DEF RelTypes
  <2> QED BY <1>1, <2>1, ProgramIs DEF Left
<1>9. Needed = Range(Given(kit, opt)) /\ DOMAIN kit.aliases = Range(kit.names)
  BY <1>0, <1>2, KitIs DEF Needed, RelTypes
<1>10. Range(Final) = {<<"map", MapPath>>, <<"pins", PinsPath>>, <<"seal", SealPath>>}
  <2>1. DOMAIN Final = 1 .. 3 /\ Final[1] = <<"map", MapPath>> /\ Final[2] = <<"pins", PinsPath>> /\ Final[3] = <<"seal", SealPath>>
    BY DEF Final
  <2> QED BY <2>1 DEF Range
<1>11. JobInv'
  <2>1. Body(kit, Given(kit, opt)) \cup Range(Final) \subseteq Jobs
    BY <1>9, <1>10 DEF Body, Jobs
  <2>2. \A S, T : S \subseteq T => Seq(S) \subseteq Seq(T)
    OBVIOUS
  <2>3. todo' \in Seq(Jobs')
    BY <1>4, <1>8, <2>1, <2>2
  <2>4. <<"seal", SealPath>> \in Left'
    BY <1>8, <1>10
  <2> QED BY <1>1, <1>8, <2>3, <2>4 DEF JobInv, Staged, SealLast
<1>12. /\ \A x \in DOMAIN kit.aliases : <<"alias", x>> \in Left'
       /\ \A x \in Range(kit.rewrite) : <<"produce", x>> \in Left'
       /\ \A x \in Needed : <<"install", x>> \in Left'
       /\ \A x \in Range(kit.copy) : <<"copy", x>> \in Left'
       /\ \A x \in Range(kit.mirrors) : <<"mirror", x>> \in Left'
       /\ <<"map", MapPath>> \in Left' /\ <<"pins", PinsPath>> \in Left'
  BY <1>8, <1>9, <1>10 DEF Body
<1>13. AliasDone' /\ InputDone' /\ CopyDone' /\ MirrorDone'
  BY <1>1, <1>3, <1>12 DEF AliasDone, InputDone, CopyDone, MirrorDone
<1>14. MadeDone'
  <2>1. DOMAIN made' = {}
    BY <1>1
  <2> QED BY <1>1, <1>12, <2>1 DEF MadeDone
<1>15. Supplied'
  BY <1>1, <1>2, <1>3 DEF Supplied, DoneInv
<1>16. ~Over(6)' /\ ~Over(7)'
  <2>1. PICK j : j = <<"map", MapPath>>
    OBVIOUS
  <2>2. j \in Left' /\ ~(Stage(j[1]) > 6) /\ ~(Stage(j[1]) > 7)
    BY <1>12, <2>1, StageIs
  <2> QED BY <2>2 DEF Over
<1>17. LastInv'
  BY <1>1, <1>12 DEF LastInv
<1> QED BY <1>5, <1>6, <1>7, <1>11, <1>13, <1>14, <1>15, <1>16, <1>17 DEF RelInv, DoneInv

(* The user edits an input, or nothing happens to the tree. *)
LEMMA EditHolds ==
  ASSUME RelInv, Still, UNCHANGED <<work, todo, made, rphase>>, DOMAIN user' = DOMAIN user,
         \A p \in DOMAIN user : user'[p] = user[p] \/ user'[p].stamp \in Nat \ {0}
  PROVE  RelInv'
<1>1. RelTypes /\ KindInv /\ TreeInv /\ JobInv /\ DoneInv /\ LastInv
  BY DEF RelInv
<1>2. /\ Needed' = Needed /\ Sol' = Sol /\ Leaves' = Leaves /\ Dirs' = Dirs /\ Files(kit)' = Files(kit)
      /\ Jobs' = Jobs /\ Left' = Left
      /\ \A q : InPayload(q)' <=> InPayload(q)
      /\ \A q : Alias(q)' = Alias(q)
  BY StillIs DEF Left
<1>3. KindInv'
  <2>1. \A q, n : Fits(q, n) => Fits(q, n)'
    BY <1>2 DEF Fits, Mirror, Still
  <2> QED BY <1>1, <2>1 DEF KindInv
<1>4. TreeInv'
  BY <1>1, <1>2 DEF TreeInv, IsLink, Node
<1>5. RelTypes'
  BY <1>1, <1>2 DEF RelTypes, Still
<1>6. Supplied'
  <2>1. Needed \subseteq DOMAIN user
    BY <1>1, LeafIs DEF RelTypes
  <2> QED BY <1>1, <1>2, <2>1 DEF Supplied, DoneInv
<1>7. /\ Over(6)' <=> Over(6)
      /\ Over(7)' <=> Over(7)
      /\ Ran' <=> Ran
      /\ \A q, d : FileAt(q, d)' <=> FileAt(q, d)
      /\ \A q : Relocated(q)' <=> Relocated(q)
  BY <1>2 DEF Over, Ran, FileAt, Relocated
<1>8. Ran => AliasDone' /\ InputDone' /\ CopyDone'
  BY <1>1, <1>2, <1>7 DEF DoneInv, AliasDone, InputDone, CopyDone, Still
<1>9. Ran => MadeDone'
  BY <1>1, <1>2, <1>7 DEF DoneInv, MadeDone, Still
<1>10. Ran => MirrorDone'
  <2>1. \A d : Shown(d)' <=> Shown(d)
    BY <1>2, StillIs DEF Shown, Still, IsLink, Node
  <2> QED BY <1>1, <1>2, <2>1 DEF DoneInv, MirrorDone, Still
<1>11. JobInv' /\ LastInv'
  BY <1>1, <1>2 DEF JobInv, LastInv, Staged, SealLast
<1> QED BY <1>1, <1>3, <1>4, <1>5, <1>6, <1>7, <1>8, <1>9, <1>10, <1>11 DEF RelInv, DoneInv

(* Before the first run. *)
LEMMA RelStarts == DInit => RelInv
<1> SUFFICES ASSUME DInit PROVE RelInv
  OBVIOUS
<1>1. /\ kit \in Kits /\ payload = Shipped(kit) /\ work = <<>> /\ given = {} /\ todo = <<>> /\ made = <<>>
      /\ rphase = "idle" /\ user = [p \in Range(kit.external) |-> [data |-> Bytes(p, "supplied"), stamp |-> 0]]
  BY DEF DInit, RInit
<1>2. DOMAIN work = {} /\ Left = {} /\ ~Ran
  BY <1>1 DEF Left, Range, Ran
<1>3. RelTypes
  BY <1>1 DEF RelTypes
<1>4. KindInv /\ TreeInv
  BY <1>2 DEF KindInv, TreeInv, IsLink, Node
<1>5. JobInv /\ LastInv
  BY <1>1, <1>2 DEF JobInv, LastInv, Staged, SealLast
<1>6. DoneInv
  BY <1>2 DEF DoneInv, Supplied, Over
<1> QED BY <1>3, <1>4, <1>5, <1>6 DEF RelInv

(* Every step of a session keeps the tree and what the jobs left. *)
LEMMA RelHolds == RelInv /\ [DNext]_dvars => RelInv'
<1> SUFFICES ASSUME RelInv, [DNext]_dvars PROVE RelInv'
  OBVIOUS
<1>1. ASSUME UNCHANGED <<session, rvars>> PROVE RelInv'
  BY <1>1, EditHolds DEF rvars, Still
<1>2. CASE ZeroStep
  <2>1. UNCHANGED session /\ driver = "f0" /\ ZStep
    BY <1>2 DEF ZeroStep
  <2>2. CASE ZStart
    <3>1. StartRelocate(FALSE) /\ (driver = "two") = FALSE
      BY <2>1, <2>2 DEF ZStart
    <3> QED BY <2>1, <3>1, StartHolds
  <2>3. CASE KillAll
    BY <1>1, <2>1, <2>3, KillHolds DEF KillAll
  <2>4. CASE UNCHANGED rvars
    BY <1>1, <2>1, <2>4
  <2> QED BY <2>1, <2>2, <2>3, <2>4 DEF ZStep, ZRefused, ZPrepare, ZOpen, ZLoad, ZLoaded, ZRaise, ZLaunch, WriteRows,
                                        WriteResult, ZFinish, KillWorker
<1>3. CASE EditInput
  <2>1. PICK p \in Range(kit.required) : Edit(p) /\ UNCHANGED session
    BY <1>3 DEF EditInput
  <2>2. p \in DOMAIN user /\ user[p].stamp \in Nat
    BY KitIs DEF RelInv, RelTypes
  <2>3. Still /\ UNCHANGED <<work, todo, made, rphase>> /\ DOMAIN user' = DOMAIN user
    BY <2>1 DEF Edit, Still
  <2>4. \A q \in DOMAIN user : q # p => user'[q] = user[q]
    BY <2>1 DEF Edit
  <2>5. user'[p].stamp = user[p].stamp + 1
    BY <2>1, <2>2 DEF Edit
  <2> QED BY <2>2, <2>3, <2>4, <2>5, EditHolds
<1>4. CASE StartTwo
  <2>1. StartRelocate(TRUE) /\ (driver = "two") = TRUE /\ UNCHANGED session
    BY <1>4 DEF StartTwo
  <2> QED BY <2>1, StartHolds
<1>5. CASE KillTwo
  BY <1>5, KillHolds DEF KillTwo
<1>6. CASE TwoStep(Next)
  BY <1>1, <1>6 DEF TwoStep
<1>7. CASE Relocating
  BY <1>7, RelocateStepHolds DEF Relocating
<1>8. CASE UNCHANGED dvars
  BY <1>1, <1>8 DEF dvars
<1> QED BY <1>2, <1>3, <1>4, <1>5, <1>6, <1>7, <1>8 DEF DNext

(* At every time, killed runs and reruns included, work is a tree in which *)
(* no file is behind a link, and each job that is done left what later     *)
(* ones and the readers rely on (relocate.py, run).                        *)
THEOREM TreeHolds == DSpec => []RelInv
<1> QED BY RelStarts, RelHolds, PTL DEF DSpec


-----------------------------------------------------------------------------
(* What a run that is through has left. *)

(* A file is not also a directory. *)
LEMMA NoDir == ASSUME RelTypes, NEW p \in Files(kit) PROVE p \notin Dirs
<1>1. /\ Files(kit) \cap Range(kit.mirrors) = {} /\ \A x \in Named(kit) : p \notin Above(x)
  BY KitIs DEF RelTypes
<1>2. Leaves \cup Range(kit.mirrors) \subseteq Named(kit)
  BY LeafIs DEF Leaves, Named
<1> QED BY <1>1, <1>2 DEF Dirs

(* When run is through, no job is left: everything is there. *)
LEMMA ThroughIs == ASSUME RelInv, rphase = "done"
                   PROVE  /\ given = Needed /\ Relocated(MapPath) /\ Relocated(PinsPath)
                          /\ \A p \in DOMAIN kit.aliases : p \in DOMAIN work /\ work[p] = Alias(p)
                          /\ \A p \in Range(kit.rewrite) :
                               p \in DOMAIN made /\ (FileAt(p, made[p].now) \/ (p = SealPath /\ Relocated(p)))
                          /\ Needed \subseteq DOMAIN work
                          /\ \A p \in Range(kit.copy) : FileAt(p, Bytes(p, "shipped")) \/ p = PinsPath
                          /\ \A d \in Range(kit.mirrors) : Shown(d)
                          /\ DOMAIN made \subseteq Range(kit.rewrite)
<1>1. todo = <<>> /\ Left = {}
  BY DEF RelInv, JobInv, Left, Range
<1>2. Ran /\ Over(6) /\ Over(7)
  BY <1>1 DEF Ran, Over
<1>3. AliasDone /\ MadeDone /\ InputDone /\ CopyDone /\ MirrorDone /\ Relocated(MapPath) /\ Relocated(PinsPath)
  BY <1>2 DEF RelInv, DoneInv
<1>4. given = Needed
  BY DEF RelInv, RelTypes
<1>5. \A p \in Range(kit.rewrite) : p \in DOMAIN made /\ (FileAt(p, made[p].now) \/ (p = SealPath /\ Relocated(p)))
  BY <1>1, <1>3 DEF MadeDone
<1>6. DOMAIN made \subseteq Range(kit.rewrite)
  BY <1>3 DEF MadeDone
<1>7. \A p \in DOMAIN kit.aliases : p \in DOMAIN work /\ work[p] = Alias(p)
  BY <1>1, <1>3 DEF AliasDone
<1>8. Needed \subseteq DOMAIN work
  BY <1>1, <1>3 DEF InputDone
<1>9. \A p \in Range(kit.copy) : FileAt(p, Bytes(p, "shipped")) \/ p = PinsPath
  BY <1>1, <1>3 DEF CopyDone
<1>10. \A d \in Range(kit.mirrors) : Shown(d)
  BY <1>1, <1>3 DEF MirrorDone
<1> QED BY <1>3, <1>4, <1>5, <1>6, <1>7, <1>8, <1>9, <1>10

(* An input is the user's file, or a copy of it. *)
LEMMA InputIs == ASSUME RelInv, NEW p \in Needed, p \in DOMAIN work
                 PROVE  work[p].is = "file" \/ work[p] = [is |-> "hard", of |-> p]
<1>1. RelTypes /\ TreeInv /\ Fits(p, work[p]) /\ p \in Files(kit) /\ p \in Sol /\ p \notin DOMAIN kit.aliases
  BY LeafIs DEF RelInv, KindInv
<1>2. p \notin Dirs
  BY <1>1, NoDir
<1>3. work[p].is # "link"
  BY <1>1 DEF TreeInv, IsLink, Node
<1> QED BY <1>1, <1>2, <1>3 DEF Fits, Mirror

(* Where a file is. *)
Place(r) == IF r \in Sol \cup {MapPath} THEN <<"work", r>> ELSE <<"payload", r>>
(* A file of the payload or an input is below work or in the payload as    *)
(* new_path says.                                                          *)
LEMMA PlaceIs == ASSUME RelInv, rphase = "done", NEW r \in DOMAIN payload \cup Needed
                 PROVE  /\ r \in Files(kit) /\ RealOf(r) = r /\ NewPath(r) = Place(r)
                        /\ r \in Sol \cup {MapPath} => (\A a \in Above(r) \cup {r} : ~IsLink(a)) /\ Find(r) = <<"work", r>>
<1>1. RelTypes /\ TreeInv
  BY DEF RelInv
<1>2. /\ r \in Files(kit) /\ Sol \subseteq Files(kit) /\ MapPath \in Files(kit) /\ PinsPath \in Sol /\ Needed \subseteq Sol
      /\ DOMAIN payload = Range(kit.rewrite) \cup Range(kit.copy) \cup kit.plain \cup {MapPath}
  <2>1. DOMAIN payload \subseteq Files(kit)
    BY <1>1 DEF RelTypes, Shipped, Files
  <2> QED BY <1>1, <2>1, LeafIs
<1>3. RealOf(r) = r
  BY <1>1, <1>2, RealFile DEF RelTypes
<1>4. Moved = Sol \cup {MapPath} \cup Range(kit.mirrors) /\ r \notin Range(kit.mirrors)
  <2>1. given = Needed
    BY ThroughIs
  <2>2. r \notin Range(kit.mirrors)
    BY <1>1, <1>2, KitIs DEF RelTypes
  <2> QED BY <1>1, <2>1, <2>2, LeafIs DEF Moved, Sol
<1>5. NewPath(r) = Place(r)
  <2>1. r \notin Sol => InPayload(r)
    BY <1>2 DEF InPayload
  <2> QED BY <1>3, <1>4, <2>1 DEF NewPath, Place
<1>6. ASSUME r \in Sol \cup {MapPath} PROVE \A a \in Above(r) \cup {r} : ~IsLink(a)
  <2>1. \A a \in Above(r) : ~IsLink(a)
    BY <1>1, <1>6, Rooted DEF Leaves
  <2>2. r \in Sol => ~IsLink(r)
    BY <1>1 DEF TreeInv
  <2>3. ~IsLink(MapPath)
    BY ThroughIs DEF Relocated, IsLink, Node
  <2> QED BY <1>6, <2>1, <2>2, <2>3
<1>7. r \in Sol \cup {MapPath} => Find(r) = <<"work", r>>
  BY <1>6, FindAt
<1> QED BY <1>2, <1>3, <1>5, <1>6, <1>7

(* What is in a place. *)
In(x, p) == IF x[1] = "payload" THEN IF x[2] \in DOMAIN payload THEN payload[x[2]] ELSE Bytes(p, "missing")
            ELSE CASE Node(x[2]).is = "file" -> work[x[2]].data
                   [] Node(x[2]).is = "hard" -> user[work[x[2]].of].data
                   [] OTHER -> Bytes(p, "missing")
(* What is read of a name is what is in the place it stands for. *)
LEMMA ContentIs == ASSUME NEW p
                   PROVE  Content("work", p) = In(Find(p), p) /\ Content("payload", p) = In(<<"payload", p>>, p)
  BY DEF Content, In
Want(r)    == IF r \in given THEN Bytes(r, "supplied") ELSE IF r \in DOMAIN made THEN made[r].now ELSE Bytes(r, "shipped")
Good(r, x) == x = Want(r) \/ (r \in {MapPath, PinsPath, SealPath} /\ x.state = "relocated" /\ x.file = r)
(* In the place of a file is what should be there. *)
LEMMA PlaceGood == ASSUME RelInv, rphase = "done", Unedited, NEW r \in DOMAIN payload \cup Needed, NEW p
                   PROVE  Good(r, In(Place(r), p))
<1>1. RelTypes /\ given = Needed /\ Relocated(MapPath) /\ Relocated(PinsPath)
  BY ThroughIs DEF RelInv
<1>2. /\ Range(kit.rewrite) \cap Needed = {} /\ Range(kit.copy) \cap Needed = {}
      /\ Range(kit.rewrite) \cap Range(kit.copy) = {} /\ MapPath \notin Sol /\ DOMAIN made \subseteq Range(kit.rewrite)
  BY <1>1, LeafIs, ThroughIs
<1>3. ASSUME NEW q, q \in DOMAIN work, work[q].is = "file" PROVE In(<<"work", q>>, p) = work[q].data
  <2>1. Node(q) = work[q] /\ <<"work", q>>[1] = "work" /\ <<"work", q>>[2] = q
    BY <1>3 DEF Node
  <2> QED BY <1>3, <2>1 DEF In
<1>4. CASE r \in Needed
  <2>1. r \in DOMAIN work /\ r \in DOMAIN user /\ Place(r) = <<"work", r>> /\ Want(r) = Bytes(r, "supplied")
    BY <1>1, <1>4, ThroughIs, LeafIs DEF RelTypes, Place, Want
  <2>2. user[r].stamp = 0 /\ user[r].data = Bytes(r, "supplied")
    BY <1>1, <2>1 DEF Unedited, RelTypes
  <2>3. CASE work[r].is = "file"
    <3>1. work[r].data = Bytes(r, "supplied")
      BY <1>4, <2>1, <2>2, <2>3 DEF RelInv, DoneInv, Supplied
    <3> QED BY <1>3, <2>1, <2>3, <3>1 DEF Good
  <2>4. CASE work[r] = [is |-> "hard", of |-> r]
    <3>1. Node(r) = work[r] /\ work[r].is = "hard" /\ work[r].of = r /\ <<"work", r>>[1] = "work" /\ <<"work", r>>[2] = r
      BY <2>1, <2>4 DEF Node
    <3>2. In(<<"work", r>>, p) = user[r].data
      BY <3>1 DEF In
    <3> QED BY <2>1, <2>2, <3>2 DEF Good
  <2> QED BY <1>4, <2>1, <2>3, <2>4, InputIs
<1>5. CASE r \in Range(kit.rewrite)
  <2>1. /\ r \in DOMAIN made /\ r \notin Needed /\ Place(r) = <<"work", r>>
        /\ FileAt(r, made[r].now) \/ (r = SealPath /\ Relocated(r))
    BY <1>2, <1>5, ThroughIs DEF Place, Sol
  <2>2. Want(r) = made[r].now
    BY <1>1, <2>1 DEF Want
  <2>3. CASE FileAt(r, made[r].now)
    <3>1. r \in DOMAIN work /\ work[r].is = "file" /\ work[r].data = made[r].now
      BY <2>3 DEF FileAt
    <3> QED BY <1>3, <2>1, <2>2, <3>1 DEF Good
  <2>4. CASE r = SealPath /\ Relocated(r)
    BY <1>3, <2>1, <2>4 DEF Good, Relocated
  <2> QED BY <2>1, <2>3, <2>4
<1>6. CASE r \in Range(kit.copy)
  <2>1. /\ r \notin DOMAIN made /\ r \notin Needed /\ Place(r) = <<"work", r>>
        /\ FileAt(r, Bytes(r, "shipped")) \/ r = PinsPath
    BY <1>2, <1>6, ThroughIs DEF Place, Sol
  <2>2. Want(r) = Bytes(r, "shipped")
    BY <1>1, <2>1 DEF Want
  <2>3. CASE FileAt(r, Bytes(r, "shipped"))
    <3>1. r \in DOMAIN work /\ work[r].is = "file" /\ work[r].data = Bytes(r, "shipped")
      BY <2>3 DEF FileAt
    <3> QED BY <1>3, <2>1, <2>2, <3>1 DEF Good
  <2>4. CASE r = PinsPath
    BY <1>1, <1>3, <2>1, <2>4 DEF Good, Relocated
  <2> QED BY <2>1, <2>3, <2>4
<1>7. CASE r = MapPath
  <2>1. Place(r) = <<"work", r>>
    BY <1>7 DEF Place
  <2> QED BY <1>1, <1>3, <1>7, <2>1 DEF Good, Relocated
<1>8. CASE r \notin Sol \cup {MapPath}
  <2>1. r \in DOMAIN payload /\ Place(r) = <<"payload", r>> /\ r \notin Needed /\ r \notin DOMAIN made
    BY <1>2, <1>8 DEF Place, Sol
  <2>2. payload[r] = Bytes(r, "shipped")
    BY <1>1, <2>1 DEF RelTypes, Shipped
  <2>3. In(<<"payload", r>>, p) = payload[r]
    BY <2>1 DEF In
  <2>4. Want(r) = Bytes(r, "shipped")
    BY <1>1, <2>1 DEF Want
  <2> QED BY <2>1, <2>2, <2>3, <2>4 DEF Good
<1> QED BY <1>4, <1>5, <1>6, <1>7, <1>8 DEF Sol

(* So every name leads to the file it should. *)
LEMMA NamesAre == RelInv => NamesResolve
<1> SUFFICES ASSUME RelInv PROVE NamesResolve
  OBVIOUS
<1>1. RelTypes /\ KindInv /\ TreeInv
  BY DEF RelInv
<1>2. payload = Shipped(kit)
  BY <1>1 DEF RelTypes
<1>3. ASSUME rphase = "done", Unedited, NEW p \in DOMAIN payload \cup given \cup DOMAIN kit.aliases
      PROVE  /\ Good(RealOf(p), Read(p))
             /\ (\E d \in Range(kit.mirrors) : Under(p, d)) => Good(RealOf(p), Content("work", p))
  <2>1. given = Needed
    BY <1>3, ThroughIs
  <2>2. CASE p \in DOMAIN payload \cup Needed
    <3>1. /\ p \in Files(kit) /\ RealOf(p) = p /\ NewPath(p) = Place(p)
          /\ p \in Sol \cup {MapPath} => (\A a \in Above(p) \cup {p} : ~IsLink(a)) /\ Find(p) = <<"work", p>>
      BY <1>3, <2>2, PlaceIs
    <3>2. Good(p, In(Place(p), p))
      BY <1>3, <2>2, PlaceGood
    <3>3. CASE p \in Sol \cup {MapPath}
      <4>1. Place(p) = <<"work", p>> /\ Read(p) = Content("work", p) /\ Content("work", p) = In(Place(p), p)
        <5>1. Place(p) = <<"work", p>> /\ <<"work", p>>[1] = "work" /\ <<"work", p>>[2] = p
          BY <3>3 DEF Place
        <5> QED BY <3>1, <3>3, <5>1, ContentIs DEF Read
      <4> QED BY <3>1, <3>2, <4>1
    <3>4. CASE p \notin Sol \cup {MapPath}
      <4>1. Place(p) = <<"payload", p>> /\ <<"payload", p>>[1] = "payload" /\ <<"payload", p>>[2] = p
        BY <3>4 DEF Place
      <4>2. Read(p) = In(Place(p), p)
        BY <3>1, <4>1, ContentIs DEF Read
      <4>3. ASSUME NEW d \in Range(kit.mirrors), Under(p, d) PROVE Find(p) = <<"payload", p>>
        <5>1. p \in DOMAIN payload
          BY <1>1, <2>2, <3>4, LeafIs
        <5>2. p \in Paths /\ DOMAIN kit.aliases \cap (Above(p) \cup {p}) = {}
          <6>1. p \in Paths /\ DOMAIN kit.aliases \cap Above(p) = {}
            BY <1>1, <5>1, OnTheWay
          <6>2. p \notin DOMAIN kit.aliases
            BY <1>1, <3>1, LeafIs
          <6> QED BY <6>1, <6>2
        <5>3. p \in DOMAIN work \/ \E a \in Above(p) : IsLink(a)
          BY <1>3, <4>3, <5>1, ThroughIs DEF Shown
        <5>4. p \in DOMAIN work => IsLink(p)
          <6> SUFFICES ASSUME p \in DOMAIN work PROVE IsLink(p)
            OBVIOUS
          <6>1. Fits(p, work[p]) /\ p \notin Dirs /\ p \notin Needed
            BY <1>1, <3>1, <3>4, NoDir DEF KindInv, Sol
          <6>2. work[p].is = "link"
            BY <3>1, <3>4, <5>2, <6>1 DEF Fits, Mirror
          <6> QED BY <6>2 DEF IsLink, Node
        <5>5. PICK a \in Above(p) \cup {p} : IsLink(a)
          BY <5>3, <5>4
        <5> QED BY <1>1, <5>2, <5>5, FindThrough
      <4>4. ASSUME NEW d \in Range(kit.mirrors), Under(p, d) PROVE Content("work", p) = In(Place(p), p)
        BY <4>1, <4>3, <4>4, ContentIs
      <4> QED BY <3>1, <3>2, <4>2, <4>4
    <3> QED BY <3>3, <3>4
  <2>3. CASE p \in DOMAIN kit.aliases
    <3> PICK t : t = kit.aliases[p]
      OBVIOUS
    <3>1. RealOf(p) = t /\ t # p
      BY <1>1, <2>3, RealAlias DEF RelTypes
    <3>2. t \in DOMAIN payload \cup Needed
      <4>1. t \in Files(kit) \ (Range(kit.external) \ Range(kit.required)) /\ Range(kit.required) \subseteq Range(kit.external)
        BY <1>1, <2>3, KitIs DEF RelTypes
      <4>2. Range(kit.required) \subseteq Needed
        BY <4>1 DEF Needed, Given
      <4> QED BY <1>1, <4>1, <4>2, LeafIs DEF Files
    <3>3. /\ NewPath(t) = Place(t)
          /\ t \in Sol \cup {MapPath} => (\A a \in Above(t) \cup {t} : ~IsLink(a))
      BY <1>3, <3>2, PlaceIs
    <3>4. NewPath(t)[1] = "work" => \A a \in Above(t) \cup {t} : ~IsLink(a)
      BY <3>3 DEF Place
    <3>5. p \in DOMAIN work /\ work[p] = Alias(p) /\ \A a \in Above(p) : ~IsLink(a)
      BY <1>1, <1>3, <2>3, ThroughIs DEF TreeInv, Leaves
    <3>6. Find(p) = Place(t)
      BY <1>1, <2>3, <3>3, <3>4, <3>5, FindAlias DEF RelTypes
    <3>7. NewPath(p) = <<"work", p>>
      BY <3>1 DEF NewPath
    <3>8. Read(p) = In(Place(t), p) /\ Content("work", p) = In(Place(t), p)
      <4>1. <<"work", p>>[1] = "work" /\ <<"work", p>>[2] = p
        OBVIOUS
      <4> QED BY <3>6, <3>7, <4>1, ContentIs DEF Read
    <3>9. Good(t, In(Place(t), p))
      BY <1>3, <3>2, PlaceGood
    <3> QED BY <3>1, <3>8, <3>9
  <2> QED BY <1>3, <2>1, <2>2, <2>3
<1> QED BY <1>2, <1>3 DEF NamesResolve, Good, Want


-----------------------------------------------------------------------------
(* What a reader has read. *)

(* Why a load hands on what the pin names: what is read is what was hashed *)
(* unless the time stamp has moved on since it was taken; and the map, by  *)
(* which a pin accepts a file, does not change any more.                   *)
Stamped == reader.stamp \in Nat /\ reader.stamp <= Stamp
OnceInv   == LET l == reader.left IN l = <<"read", "check">> \/ l = <<"check">> \/ (l = <<>> /\ Accepts(Expected, reader.data))
KeyedInv  == LET l == reader.left IN
             l = <<"hash", "read", "check">> \/ l = <<"read", "check">> \/ l = <<"check">>
             \/ (l = <<>> /\ Accepts(Expected, reader.data))
NarrowInv == LET l == reader.left IN
             \/ l = <<"stat", "hash", "read", "check", "restat">> \/ l = <<"hash", "read", "check", "restat">>
             \/ l = <<"read", "check", "restat">> \/ l = <<"check", "restat">>
             \/ (l = <<"restat">> \/ l = <<>>) /\ Accepts(Expected, reader.data)
PinnedInv == LET l == reader.left IN
             \/ l = <<"stat", "hash", "read", "restat">>
             \/ l = <<"hash", "read", "restat">> /\ Stamped
             \/ l = <<"read", "restat">> /\ Stamped /\ (reader.stamp = Stamp => Accepts(Expected, Data))
             \/ l = <<"restat">> /\ Stamped /\ (reader.stamp = Stamp => Accepts(Expected, reader.data))
             \/ l = <<>> /\ Accepts(Expected, reader.data)
Reading == reader.style # "none"
ReadInv ==
  /\ reader = [style |-> reader.style, path |-> reader.path, left |-> reader.left, stamp |-> reader.stamp,
               data |-> reader.data, ok |-> reader.ok]
  /\ ~Reading => reader = NoReader
  /\ Reading => rphase = "done" /\ reader.path \in Needed /\ reader.style \in Styles
  /\ reader.ok => /\ reader.style = "once" => OnceInv
                  /\ reader.style = "keyed" => KeyedInv
                  /\ reader.style = "narrow" => NarrowInv
                  /\ reader.style = "pinned" => PinnedInv

(* What a pin accepts, once run is through. *)
MapIs == Content("work", MapPath) = work[MapPath].data /\ work[MapPath].data.state = "relocated"
(* When run is through, the map that is read is the file below work. *)
LEMMA MapFixed == RelInv /\ rphase = "done" => MapIs
<1> SUFFICES ASSUME RelInv, rphase = "done" PROVE MapIs
  OBVIOUS
<1>1. RelTypes /\ TreeInv /\ Relocated(MapPath)
  BY ThroughIs DEF RelInv
<1>2. \A a \in Above(MapPath) \cup {MapPath} : ~IsLink(a)
  <2>1. ~IsLink(MapPath)
    BY <1>1 DEF Relocated, IsLink, Node
  <2> QED BY <1>1, <2>1, Rooted
<1>3. Find(MapPath) = <<"work", MapPath>> /\ <<"work", MapPath>>[1] = "work" /\ <<"work", MapPath>>[2] = MapPath
  BY <1>2, FindAt
<1>4. Node(MapPath) = work[MapPath] /\ work[MapPath].is = "file"
  BY <1>1 DEF Relocated, Node
<1> QED BY <1>1, <1>3, <1>4 DEF Content, MapIs, Relocated

(* What is read of an input, and its time stamp. *)
InputReads ==
  /\ reader.path \in DOMAIN work /\ reader.path \in DOMAIN user /\ user[reader.path].stamp \in Nat
  /\ Stamp = IF work[reader.path].is = "hard" THEN user[reader.path].stamp ELSE 0
  /\ Data = IF work[reader.path].is = "hard" THEN user[reader.path].data ELSE work[reader.path].data
(* What is read of an input is the user's file, or a copy with its own     *)
(* stamp.                                                                  *)
LEMMA InputRead == RelInv /\ rphase = "done" /\ reader.path \in Needed => InputReads
<1> SUFFICES ASSUME RelInv, rphase = "done", reader.path \in Needed PROVE InputReads
  OBVIOUS
<1>1. RelTypes
  BY DEF RelInv
<1> PICK p : p = reader.path
  OBVIOUS
<1>2. p \in DOMAIN work /\ p \in DOMAIN user /\ p \in Sol
  BY <1>1, ThroughIs, LeafIs DEF RelTypes
<1>3. work[p].is = "file" \/ work[p] = [is |-> "hard", of |-> p]
  BY <1>2, InputIs
<1>4. NewPath(p) = <<"work", p>> /\ Find(p) = <<"work", p>>
  BY <1>2, PlaceIs DEF Place
<1>5. <<"work", p>>[1] = "work" /\ <<"work", p>>[2] = p /\ Node(p) = work[p]
  BY <1>2 DEF Node
<1>6. Stamp = IF work[p].is = "hard" THEN user[p].stamp ELSE 0
  BY <1>5 DEF Stamp
<1>7. Data = IF work[p].is = "hard" THEN user[p].data ELSE work[p].data
  <2>1. Data = Content("work", p)
    BY <1>4, <1>5 DEF Data, Read
  <2> QED BY <1>3, <1>4, <1>5, <2>1 DEF Content
<1>8. user[p].stamp \in Nat
  BY <1>1, <1>2 DEF RelTypes
<1> QED BY <1>2, <1>6, <1>7, <1>8 DEF InputReads

(* After a step that leaves the tree alone a pin accepts what it did.      *)
LEMMA AcceptsStill == ASSUME RelInv, RelInv', rphase = "done", rphase' = "done", UNCHANGED work
                      PROVE  \A e, a : Accepts(e, a)' <=> Accepts(e, a)
<1>1. MapIs
  BY MapFixed
<1>2. MapIs'
  <2>1. (rphase = "done")'
    OBVIOUS
  <2> QED BY <2>1, MapFixed, PTL
<1>3. Content("work", MapPath)' = Content("work", MapPath)
  BY <1>1, <1>2 DEF MapIs
<1>4. Content("work", MapPath).state = "relocated"
  BY <1>1 DEF MapIs
<1> QED BY <1>3, <1>4 DEF Accepts, Entries

(* What is left after an access. *)
LEMMA Rests ==
  /\ Head(<<"check">>) = "check" /\ Tail(<<"check">>) = <<>>
  /\ Head(<<"restat">>) = "restat" /\ Tail(<<"restat">>) = <<>>
  /\ Head(<<"read", "check">>) = "read" /\ Tail(<<"read", "check">>) = <<"check">>
  /\ Head(<<"read", "restat">>) = "read" /\ Tail(<<"read", "restat">>) = <<"restat">>
  /\ Head(<<"check", "restat">>) = "check" /\ Tail(<<"check", "restat">>) = <<"restat">>
  /\ Head(<<"hash", "read", "check">>) = "hash" /\ Tail(<<"hash", "read", "check">>) = <<"read", "check">>
  /\ Head(<<"hash", "read", "restat">>) = "hash" /\ Tail(<<"hash", "read", "restat">>) = <<"read", "restat">>
  /\ Head(<<"read", "check", "restat">>) = "read" /\ Tail(<<"read", "check", "restat">>) = <<"check", "restat">>
  /\ /\ Head(<<"stat", "hash", "read", "restat">>) = "stat"
     /\ Tail(<<"stat", "hash", "read", "restat">>) = <<"hash", "read", "restat">>
  /\ /\ Head(<<"hash", "read", "check", "restat">>) = "hash"
     /\ Tail(<<"hash", "read", "check", "restat">>) = <<"read", "check", "restat">>
  /\ /\ Head(<<"stat", "hash", "read", "check", "restat">>) = "stat"
     /\ Tail(<<"stat", "hash", "read", "check", "restat">>) = <<"hash", "read", "check", "restat">>
  OBVIOUS

(* One access of a reader. *)
LEMMA LoadHolds == ASSUME RelInv, ReadInv, LoadStep, UNCHANGED <<session, rvars>> PROVE ReadInv'
<1>1. Reading /\ reader.left # <<>> /\ rphase = "done" /\ reader.path \in Needed
  <2>1. reader.left # <<>>
    BY DEF LoadStep, Stat, Hash, Take, Check, Restat, Does
  <2>2. reader # NoReader
    BY <2>1 DEF NoReader
  <2> QED BY <2>1, <2>2 DEF ReadInv
<1>2. Stamp \in Nat
  <2>1. InputReads
    BY <1>1, InputRead
  <2> QED BY <2>1 DEF InputReads
<1> DEFINE Same == reader'.style = reader.style /\ reader'.path = reader.path
           Fields(r) == r = [style |-> r.style, path |-> r.path, left |-> r.left, stamp |-> r.stamp, data |-> r.data, ok |-> r.ok]
<1>3. Fields(reader)
  BY DEF ReadInv
<1>4. Fields(reader') /\ Same
  BY <1>3 DEF LoadStep, Stat, Hash, Take, Check, Restat, Verify, Onward, Refuse
<1>5. Needed' = Needed /\ rphase' = rphase /\ work' = work
  BY DEF Needed, driver, Given, rvars
<1>6. RelInv'
  BY EditHolds DEF rvars, Still
<1>7. \A e, a : Accepts(e, a)' <=> Accepts(e, a)
  BY <1>1, <1>5, <1>6, AcceptsStill
<1>8. InputReads /\ InputReads'
  <2>1. (rphase = "done")' /\ (reader.path \in Needed)' /\ RelInv'
    BY <1>1, <1>4, <1>5, <1>6
  <2>2. InputReads'
    BY <2>1, InputRead, PTL
  <2> QED BY <1>1, <2>2, InputRead
<1>9. Stamp' = Stamp /\ Data' = Data /\ Expected' = Expected
  <2>1. user' = user
    BY DEF rvars
  <2>2. Expected' = Expected
    BY <1>4 DEF Expected, Bytes
  <2> QED BY <1>4, <1>5, <1>8, <2>1, <2>2 DEF InputReads
<1> DEFINE First(op) == Head(reader.left) = op
           Next1     == reader'.left = Tail(reader.left)
<1>10. \/ First("stat") /\ Next1 /\ reader'.stamp = Stamp /\ reader'.data = reader.data /\ reader'.ok = reader.ok
       \/ /\ First("hash") /\ reader'.stamp = reader.stamp /\ reader'.data = reader.data
          /\ reader'.ok => reader.ok /\ Next1 /\ Accepts(Expected, Data)
       \/ First("read") /\ Next1 /\ reader'.stamp = reader.stamp /\ reader'.data = Data /\ reader'.ok = reader.ok
       \/ /\ First("check") /\ reader'.stamp = reader.stamp /\ reader'.data = reader.data
          /\ reader'.ok => reader.ok /\ Next1 /\ Accepts(Expected, reader.data)
       \/ /\ First("restat") /\ reader'.stamp = reader.stamp /\ reader'.data = reader.data
          /\ reader'.ok => reader.ok /\ Next1 /\ Stamp = reader.stamp
  <2>1. CASE Stat
    BY <1>3, <2>1 DEF Stat, Does, Onward
  <2>2. CASE Hash
    BY <1>3, <2>2 DEF Hash, Does, Onward, Verify, Refuse
  <2>3. CASE Take
    BY <1>3, <2>3 DEF Take, Does, Onward
  <2>4. CASE Check
    BY <1>3, <2>4 DEF Check, Does, Onward, Verify, Refuse
  <2>5. CASE Restat
    BY <1>3, <2>5 DEF Restat, Does, Onward, Refuse
  <2> QED BY <2>1, <2>2, <2>3, <2>4, <2>5 DEF LoadStep
<1> DEFINE Taken(d) == Accepts(Expected, d)
<1>11. \A d : (Accepts(Expected, d))' <=> Taken(d)
  BY <1>7, <1>9
<1>12. reader'.ok => reader.ok
  BY <1>10
<1>13. ASSUME reader'.ok, reader.style = "once" PROVE OnceInv'
  <2>1. OnceInv
    BY <1>12, <1>13 DEF ReadInv
  <2> QED BY <1>1, <1>7, <1>9, <1>10, <1>13, <2>1, Rests DEF OnceInv
<1>14. ASSUME reader'.ok, reader.style = "keyed" PROVE KeyedInv'
  <2>1. KeyedInv
    BY <1>12, <1>14 DEF ReadInv
  <2> QED BY <1>1, <1>7, <1>9, <1>10, <1>14, <2>1, Rests DEF KeyedInv
<1>15. ASSUME reader'.ok, reader.style = "narrow" PROVE NarrowInv'
  <2>1. NarrowInv
    BY <1>12, <1>15 DEF ReadInv
  <2> QED BY <1>1, <1>7, <1>9, <1>10, <1>15, <2>1, Rests DEF NarrowInv
<1>16. ASSUME reader'.ok, reader.style = "pinned" PROVE PinnedInv'
  <2>1. PinnedInv
    BY <1>12, <1>16 DEF ReadInv
  <2>2. \/ reader'.left = <<"hash", "read", "restat">> /\ Stamped'
        \/ reader'.left = <<"read", "restat">> /\ Stamped' /\ (reader'.stamp = Stamp => Accepts(Expected, Data))
        \/ reader'.left = <<"restat">> /\ Stamped' /\ (reader'.stamp = Stamp => Accepts(Expected, reader'.data))
        \/ reader'.left = <<>> /\ Accepts(Expected, reader'.data)
    <3>1. CASE reader.left = <<"stat", "hash", "read", "restat">>
      <4>1. reader'.left = <<"hash", "read", "restat">> /\ reader'.stamp = Stamp
        BY <1>10, <1>16, <3>1, Rests
      <4> QED BY <1>2, <1>9, <4>1 DEF Stamped
    <3>2. CASE reader.left = <<"hash", "read", "restat">> /\ Stamped
      <4>1. reader'.left = <<"read", "restat">> /\ reader'.stamp = reader.stamp /\ Accepts(Expected, Data)
        BY <1>10, <1>16, <3>2, Rests
      <4> QED BY <1>9, <3>2, <4>1 DEF Stamped
    <3>3. CASE reader.left = <<"read", "restat">> /\ Stamped /\ (reader.stamp = Stamp => Accepts(Expected, Data))
      <4>1. reader'.left = <<"restat">> /\ reader'.stamp = reader.stamp /\ reader'.data = Data
        BY <1>10, <1>16, <3>3, Rests
      <4> QED BY <1>9, <3>3, <4>1 DEF Stamped
    <3>4. CASE reader.left = <<"restat">> /\ Stamped /\ (reader.stamp = Stamp => Accepts(Expected, reader.data))
      <4>1. reader'.left = <<>> /\ Stamp = reader.stamp /\ reader'.data = reader.data
        BY <1>10, <1>16, <3>4, Rests
      <4> QED BY <3>4, <4>1
    <3> QED BY <1>1, <2>1, <3>1, <3>2, <3>3, <3>4 DEF PinnedInv
  <2> QED BY <1>7, <1>9, <2>2 DEF PinnedInv
<1> QED BY <1>1, <1>4, <1>5, <1>13, <1>14, <1>15, <1>16 DEF ReadInv, Reading

(* Between two accesses the user may edit the file, and edit it back.      *)
LEMMA EditRead ==
  ASSUME RelInv, ReadInv, Still, UNCHANGED <<reader, work, todo, made, rphase>>, DOMAIN user' = DOMAIN user,
         \A p \in DOMAIN user : user'[p] = user[p] \/ (user'[p].stamp \in Nat /\ user'[p].stamp > user[p].stamp)
  PROVE  ReadInv'
<1>1. Needed' = Needed
  BY StillIs
<1>2. CASE ~Reading
  BY <1>1, <1>2 DEF ReadInv, Reading, NoReader, Bytes
<1>3. CASE Reading
  <2>1. rphase = "done" /\ reader.path \in Needed
    BY <1>3 DEF ReadInv
  <2>2. RelInv'
    <3>1. \A p \in DOMAIN user : user[p].stamp \in Nat
      BY DEF RelInv, RelTypes
    <3>2. \A p \in DOMAIN user : user'[p] = user[p] \/ user'[p].stamp \in Nat \ {0}
      BY <3>1
    <3> QED BY <3>2, EditHolds
  <2>3. \A e, a : Accepts(e, a)' <=> Accepts(e, a)
    BY <2>1, <2>2, AcceptsStill
  <2>4. InputReads /\ InputReads'
    <3>1. (rphase = "done")' /\ (reader.path \in Needed)' /\ RelInv'
      BY <1>1, <2>1, <2>2
    <3>2. InputReads'
      BY <3>1, InputRead, PTL
    <3> QED BY <2>1, <3>2, InputRead
  <2>5. Expected' = Expected
    BY DEF Expected, Bytes
  <2>6. Stamp \in Nat /\ Stamp' \in Nat /\ ((Stamp' = Stamp /\ Data' = Data) \/ Stamp' > Stamp)
    BY <2>4 DEF InputReads
  <2>7. OnceInv => OnceInv'
    BY <2>3, <2>5 DEF OnceInv
  <2>8. KeyedInv => KeyedInv'
    BY <2>3, <2>5 DEF KeyedInv
  <2>9. NarrowInv => NarrowInv'
    BY <2>3, <2>5 DEF NarrowInv
  <2>10. PinnedInv => PinnedInv'
    <3>1. Stamped => Stamped' /\ (reader.stamp = Stamp' => Stamp' = Stamp /\ Data' = Data)
      BY <2>6 DEF Stamped
    <3> QED BY <2>3, <2>5, <3>1 DEF PinnedInv
  <2> QED BY <1>1, <1>3, <2>1, <2>7, <2>8, <2>9, <2>10 DEF ReadInv, Reading
<1> QED BY <1>2, <1>3

(* A reader that begins, and none. *)
LEMMA OpenRead == ASSUME RelInv, rphase = "done", NEW s \in Styles, NEW p \in given, Open(s, p), UNCHANGED <<session, rvars>>
                  PROVE  ReadInv'
<1>1. reader' = [style |-> s, path |-> p, left |-> Order(s), stamp |-> 0, data |-> Bytes(<<>>, "missing"), ok |-> TRUE]
  BY DEF Open, NoReader
<1>2. p \in Needed' /\ rphase' = "done"
  <2>1. p \in Needed
    BY ThroughIs
  <2> QED BY <2>1 DEF rvars, Needed, driver, Given
<1>3. s # "none"
  BY DEF Styles
<1>4. /\ s = "once" => OnceInv'
      /\ s = "keyed" => KeyedInv'
      /\ s = "narrow" => NarrowInv'
      /\ s = "pinned" => PinnedInv'
  BY <1>1 DEF OnceInv, KeyedInv, NarrowInv, PinnedInv, Order
<1> QED BY <1>1, <1>2, <1>3, <1>4 DEF ReadInv, Reading
(* Nobody reads. *)
LEMMA NoRead == reader' = NoReader => ReadInv'
<1> SUFFICES ASSUME reader' = NoReader PROVE ReadInv'
  OBVIOUS
<1>1. reader' = [style |-> "none", path |-> <<>>, left |-> <<>>, stamp |-> 0, data |-> Bytes(<<>>, "missing"), ok |-> FALSE]
  BY DEF NoReader
<1>2. NoReader' = NoReader
  BY DEF NoReader, Bytes
<1> QED BY <1>1, <1>2 DEF ReadInv, Reading

(* The worker of frame 0 loads when run is through, and not before.        *)
Called == /\ zmain = "call" => rphase = "done"
          /\ zworker = "load" => zmain = "call"
(* Every step of a session keeps it so. *)
LEMMA CalledHolds == Called /\ [DNext]_dvars => Called'
<1> SUFFICES ASSUME Called, [DNext]_dvars PROVE Called'
  OBVIOUS
<1>1. ASSUME UNCHANGED <<zmain, zworker, rphase>> PROVE Called'
  BY <1>1 DEF Called
<1>2. CASE ZeroStep
  <2>1. ZStep
    BY <1>2 DEF ZeroStep
  <2>2. CASE ZStart
    BY <2>2 DEF ZStart, Called
  <2>3. CASE KillAll
    BY <2>3 DEF KillAll, Called
  <2>4. CASE ZRefused
    BY <2>4 DEF ZRefused, rvars, Called
  <2>5. CASE ZPrepare
    BY <2>5 DEF ZPrepare, rvars, Called
  <2>6. CASE ZLoaded \/ ZRaise \/ WriteRows \/ WriteResult \/ KillWorker
    BY <2>6 DEF ZLoaded, ZRaise, WriteRows, WriteResult, KillWorker, ZExit, rvars, Called
  <2>7. CASE ZFinish
    BY <2>7 DEF ZFinish, rvars, Called
  <2>8. CASE ZOpen \/ ZLoad \/ ZLaunch
    BY <1>1, <2>8 DEF ZOpen, ZLoad, ZLaunch, rvars, zvars
  <2> QED BY <2>1, <2>2, <2>3, <2>4, <2>5, <2>6, <2>7, <2>8 DEF ZStep
<1>3. CASE EditInput
  BY <1>1, <1>3 DEF EditInput, Edit, zero, zvars
<1>4. CASE StartTwo
  BY <1>4 DEF StartTwo, zero, zvars, Called
<1>5. CASE KillTwo
  BY <1>5 DEF KillTwo, KillRelocate, zero, zvars, Called
<1>6. CASE TwoStep(Next)
  BY <1>1, <1>6 DEF TwoStep, zero, zvars, rvars
<1>7. CASE Relocating
  <2>1. rphase = "running"
    BY <1>7 DEF Relocating, RelocateStep, CheckInput, Clear, LinkAlias, Produce, Rebind, Install, CopyModule,
                MirrorDir, WriteMap, WritePins, RefreshSeal, At
  <2> QED BY <1>7, <2>1 DEF Relocating, zero, zvars, Called
<1>8. CASE UNCHANGED dvars
  BY <1>1, <1>8 DEF dvars, zero, zvars, rvars
<1> QED BY <1>2, <1>3, <1>4, <1>5, <1>6, <1>7, <1>8 DEF DNext

(* Every step of a session keeps what the readers rely on. *)
LEMMA ReadHolds == RelInv /\ ReadInv /\ Called /\ [DNext]_dvars => ReadInv'
<1> SUFFICES ASSUME RelInv, ReadInv, Called, [DNext]_dvars PROVE ReadInv'
  OBVIOUS
<1>1. ASSUME UNCHANGED <<session, rvars, reader>> PROVE ReadInv'
  BY <1>1, EditRead DEF rvars, Still
<1>2. ASSUME rphase # "done", reader' = reader PROVE ReadInv'
  <2>1. reader = NoReader
    BY <1>2 DEF ReadInv
  <2> QED BY <1>2, <2>1, NoRead
<1>3. CASE ZeroStep
  <2>1. UNCHANGED session /\ driver = "f0" /\ ZStep
    BY <1>3 DEF ZeroStep
  <2>2. CASE ZStart
    BY <2>2, NoRead DEF ZStart
  <2>3. CASE KillAll
    <3>1. CASE rphase = "running"
      BY <1>2, <2>3, <3>1 DEF KillAll
    <3>2. CASE rphase # "running"
      BY <1>1, <2>1, <2>3, <3>2 DEF KillAll
    <3> QED BY <3>1, <3>2
  <2>4. CASE ZOpen
    <3>1. rphase = "done" /\ UNCHANGED rvars
      BY <2>4 DEF ZOpen, Called
    <3>2. PICK s \in Styles, p \in given : Open(s, p)
      BY <2>4 DEF ZOpen
    <3> QED BY <2>1, <3>1, <3>2, OpenRead
  <2>5. CASE ZLoad
    BY <2>1, <2>5, LoadHolds DEF ZLoad
  <2>6. CASE UNCHANGED <<rvars, reader>>
    BY <1>1, <2>1, <2>6
  <2> QED BY <2>1, <2>2, <2>3, <2>4, <2>5, <2>6 DEF ZStep, ZRefused, ZPrepare, ZLoaded, ZRaise, ZLaunch, WriteRows,
                                                  WriteResult, ZFinish, KillWorker
<1>4. CASE EditInput
  <2>1. PICK p \in Range(kit.required) : Edit(p) /\ UNCHANGED <<session, reader>>
    BY <1>4 DEF EditInput, zero
  <2>2. p \in DOMAIN user /\ user[p].stamp \in Nat
    BY KitIs DEF RelInv, RelTypes
  <2>3. Still /\ UNCHANGED <<work, todo, made, rphase>> /\ DOMAIN user' = DOMAIN user
    BY <2>1 DEF Edit, Still
  <2>4. \A q \in DOMAIN user : q # p => user'[q] = user[q]
    BY <2>1 DEF Edit
  <2>5. user'[p].stamp = user[p].stamp + 1
    BY <2>1, <2>2 DEF Edit
  <2> QED BY <2>1, <2>2, <2>3, <2>4, <2>5, EditRead
<1>5. CASE StartTwo
  BY <1>2, <1>5 DEF StartTwo, zero
<1>6. CASE KillTwo
  BY <1>2, <1>6 DEF KillTwo, KillRelocate, zero
<1>7. CASE TwoStep(Next)
  BY <1>1, <1>7 DEF TwoStep, zero
<1>8. CASE Relocating
  BY <1>2, <1>8 DEF Relocating, zero, RelocateStep, CheckInput, Clear, LinkAlias, Produce, Rebind, Install, CopyModule,
                    MirrorDir, WriteMap, WritePins, RefreshSeal, At
<1>9. CASE UNCHANGED dvars
  BY <1>1, <1>9 DEF dvars, zero
<1> QED BY <1>3, <1>4, <1>5, <1>6, <1>7, <1>8, <1>9 DEF DNext

(* Every name of the relocated tree leads to the file it should, and       *)
(* nothing is written into the payload (relocate.py, lines 8-16): for      *)
(* every manifest, after any number of runs, killed at any step.           *)
THEOREM NamesLead == DSpec => []NamesResolve
<1>1. DInit => RelInv
  BY RelStarts
<1>2. RelInv /\ [DNext]_dvars => RelInv'
  BY RelHolds
<1>3. RelInv => NamesResolve
  BY NamesAre
<1> QED BY <1>1, <1>2, <1>3, PTL DEF DSpec

(* What a verified load hands on are the bytes its pin names, although the *)
(* user may edit an input between any two accesses, any number of times.   *)
THEOREM WhatIsLoaded == DSpec => []LoadedIsPinned
<1>1. DInit => RelInv /\ ReadInv /\ Called
  <2> SUFFICES ASSUME DInit PROVE ReadInv /\ Called
    BY RelStarts
  <2>1. reader = NoReader /\ zmain = "none" /\ zworker = "none"
    BY DEF DInit, ZInit
  <2> QED BY <2>1 DEF ReadInv, Reading, NoReader, Called
<1>2. RelInv /\ ReadInv /\ Called /\ [DNext]_dvars => (RelInv /\ ReadInv /\ Called)'
  BY RelHolds, ReadHolds, CalledHolds
<1>3. ReadInv => LoadedIsPinned
  <2> SUFFICES ASSUME ReadInv, Loaded, reader.style \notin {"twice", "module"} PROVE Accepts(Expected, reader.data)
    BY DEF LoadedIsPinned
  <2>1. reader.ok /\ reader.left = <<>>
    BY DEF Loaded
  <2>2. reader.style \in {"once", "pinned", "narrow", "keyed"}
    BY <2>1 DEF ReadInv, Reading, NoReader, Styles
  <2> QED BY <2>1, <2>2 DEF ReadInv, OnceInv, KeyedInv, NarrowInv, PinnedInv
<1> QED BY <1>1, <1>2, <1>3, PTL DEF DSpec

-----------------------------------------------------------------------------
(* Which pins a run that is through accepts. *)

(* What produce has descended through to write a file, in the order that   *)
(* the manifest's pins allow.                                              *)
Reach == CHOOSE b \in [Range(kit.rewrite) -> SUBSET Range(kit.rewrite)] : PinOrder(kit, b)
(* The files under way are on top of the program, none of them is written  *)
(* yet or there twice, and each is a target of those below it.             *)
Stacked(s) ==
  \A j \in DOMAIN s : s[j][1] = "rebind" =>
    /\ s[j][2] \notin DOMAIN made
    /\ \A i \in 1 .. j - 1 : /\ s[i][1] = "rebind" /\ s[i][2] # s[j][2]
                             /\ {s[i][2]} \cup Reach[s[i][2]] \subseteq Reach[s[j][2]]
(* A record of a relocated file names the relocated target, or else what   *)
(* the shipped one named: nobody rewrites the target, or the two pin one   *)
(* another.                                                                *)
Pin(p, new) == \E rec \in kit.records[p] : LET t == Target(kit, rec[1]) IN
  /\ new[1] = rec[1]
  /\ \/ t \in DOMAIN made /\ new[2] = made[t].now
     \/ new[2] = Bytes(t, rec[2]) /\ (t \in Range(kit.rewrite) => p \in Reach[t])
PinsIn(p, data) ==
  IF kit.records[p] = {} THEN data = Bytes(p, "shipped")
  ELSE /\ data = [file |-> p, state |-> "relocated", pins |-> data.pins]
       /\ \A new \in data.pins : Pin(p, new)
MadeInv  == /\ DOMAIN made \subseteq Range(kit.rewrite)
            /\ \A p \in DOMAIN made : made[p].was = Bytes(p, "shipped") /\ PinsIn(p, made[p].now)
(* The three files that are generated in the end. *)
MapMade  == FileAt(MapPath, [file |-> MapPath, state |-> "relocated", pins |-> Remap(Entries(payload[MapPath]))])
PinsMade == FileAt(PinsPath, [file |-> PinsPath, state |-> "relocated", pins |-> {<<MapPath, work[MapPath].data>>}])
Renewed(rec) == IF rec[1] \in {MapPath, PinsPath} THEN <<rec[1], work[rec[1]].data>> ELSE rec
SealMade == FileAt(SealPath, [made[SealPath].now EXCEPT !.pins = {Renewed(rec) : rec \in made[SealPath].now.pins}])
LateInv  == (Over(6) => MapMade) /\ (Over(7) => PinsMade) /\ (rphase = "done" => SealMade)
PinInv   == Stacked(todo) /\ MadeInv /\ LateInv

(* What pins what in the session's kit. *)
LEMMA KitPins ==
  ASSUME kit \in Kits
  PROVE  /\ PinOrder(kit, Reach)
         /\ \A p \in Range(kit.rewrite) : \A rec \in kit.records[p] :
              /\ rec[1] \in Files(kit) \cup DOMAIN kit.aliases
              /\ rec[2] \in IF Target(kit, rec[1]) \in Range(kit.external) THEN {"supplied"}
                            ELSE IF Target(kit, rec[1]) \in kit.derived THEN {"shipped", "original"} ELSE {"shipped"}
              /\ Target(kit, rec[1]) # SealPath
              /\ Target(kit, rec[1]) \in {MapPath, PinsPath} => p = SealPath /\ rec[1] = Target(kit, rec[1])
              /\ RealOf(rec[1]) = Target(kit, rec[1]) /\ Target(kit, rec[1]) \in Files(kit)
         /\ kit.code \subseteq (Range(kit.rewrite) \cup Range(kit.copy) \cup kit.plain) \ (Range(kit.external) \cup {PinsPath, SealPath, MapPath})
         /\ kit.plain \cap (Range(kit.external) \ Range(kit.required)) = {}
<1>1. PinOrder(kit, Reach)
  <2>1. \E b \in [Range(kit.rewrite) -> SUBSET Range(kit.rewrite)] : PinOrder(kit, b)
    BY PinsAssumption
  <2> QED BY <2>1 DEF Reach
<1>2. ASSUME NEW p \in Range(kit.rewrite), NEW rec \in kit.records[p]
      PROVE  /\ rec[1] \in Files(kit) \cup DOMAIN kit.aliases
             /\ rec[2] \in IF Target(kit, rec[1]) \in Range(kit.external) THEN {"supplied"}
                           ELSE IF Target(kit, rec[1]) \in kit.derived THEN {"shipped", "original"} ELSE {"shipped"}
             /\ Target(kit, rec[1]) # SealPath
             /\ Target(kit, rec[1]) \in {MapPath, PinsPath} => p = SealPath /\ rec[1] = Target(kit, rec[1])
  BY <1>2, PinsAssumption
<1>3. ASSUME NEW q \in Files(kit) \cup DOMAIN kit.aliases PROVE RealOf(q) = Target(kit, q) /\ Target(kit, q) \in Files(kit)
  <2>1. CASE q \in DOMAIN kit.aliases
    BY <2>1, RealAlias DEF Target
  <2>2. CASE q \notin DOMAIN kit.aliases
    BY <2>2, <1>3, RealFile DEF Target
  <2> QED BY <2>1, <2>2
<1>4. /\ kit.code \subseteq (Range(kit.rewrite) \cup Range(kit.copy) \cup kit.plain) \ (Range(kit.external) \cup {PinsPath, SealPath, MapPath})
      /\ kit.plain \cap (Range(kit.external) \ Range(kit.required)) = {}
  BY PinsAssumption
<1> QED BY <1>1, <1>2, <1>3, <1>4

(* The records of a shipped file. *)
LEMMA RecordsAre ==
  ASSUME RelTypes, NEW p \in Range(kit.rewrite)
  PROVE  /\ payload[p] = Bytes(p, "shipped")
         /\ Records(payload[p]) = {<<rec[1], Bytes(Target(kit, rec[1]), rec[2])>> : rec \in kit.records[p]}
         /\ Targets(p) = {Target(kit, rec[1]) : rec \in kit.records[p]} \ {MapPath, PinsPath}
<1>1. kit \in Kits /\ payload[p] = Bytes(p, "shipped")
  BY DEF RelTypes, Shipped
<1>2. payload[p].state = "shipped" /\ payload[p].file = p
  BY <1>1 DEF Bytes
<1>3. \A rec \in kit.records[p] : RealOf(rec[1]) = Target(kit, rec[1])
  BY <1>1, KitPins
<1>4. Records(payload[p]) = {<<rec[1], Bytes(Target(kit, rec[1]), rec[2])>> : rec \in kit.records[p]}
  BY <1>2, <1>3 DEF Records
<1>5. {RealOf(rec[1]) : rec \in Records(payload[p])} = {Target(kit, rec[1]) : rec \in kit.records[p]}
  <2>1. ASSUME NEW new \in Records(payload[p]) PROVE \E rec \in kit.records[p] : RealOf(new[1]) = Target(kit, rec[1])
    <3>1. PICK rec \in kit.records[p] : new = <<rec[1], Bytes(Target(kit, rec[1]), rec[2])>>
      BY <1>4
    <3>2. new[1] = rec[1]
      BY <3>1
    <3> QED BY <1>3, <3>2
  <2>2. ASSUME NEW rec \in kit.records[p] PROVE \E new \in Records(payload[p]) : RealOf(new[1]) = Target(kit, rec[1])
    <3>1. PICK new : new = <<rec[1], Bytes(Target(kit, rec[1]), rec[2])>>
      OBVIOUS
    <3>2. new[1] = rec[1] /\ new \in Records(payload[p])
      BY <1>4, <3>1
    <3> QED BY <1>3, <3>2
  <2> QED BY <2>1, <2>2
<1> QED BY <1>1, <1>4, <1>5 DEF Targets

-----------------------------------------------------------------------------
(* The stack of the files under way. *)

(* A job is done, and if it is a file under way the file is written. *)
LEMMA StackPopped ==
  ASSUME todo \in Seq(Jobs), todo # <<>>, Stacked(todo), kit' = kit, DOMAIN made' \subseteq DOMAIN made \cup {Item},
         Pop
  PROVE  Stacked(todo)'
<1>1. /\ Len(todo) \in Nat /\ Len(todo) > 0 /\ DOMAIN todo = 1 .. Len(todo)
      /\ DOMAIN todo' = 1 .. Len(todo) - 1 /\ \A i \in 1 .. Len(todo) - 1 : todo'[i] = todo[i + 1]
      /\ Item = todo[1][2]
  BY DEF Pop, Item, Job
<1>2. Reach' = Reach
  BY DEF Reach
<1> SUFFICES ASSUME NEW j \in 1 .. Len(todo) - 1, todo'[j][1] = "rebind"
             PROVE  /\ todo'[j][2] \notin DOMAIN made'
                    /\ \A i \in 1 .. j - 1 : /\ todo'[i][1] = "rebind" /\ todo'[i][2] # todo'[j][2]
                                             /\ {todo'[i][2]} \cup Reach[todo'[i][2]] \subseteq Reach[todo'[j][2]]
  BY <1>1, <1>2 DEF Stacked
<1>2a. todo'[j] = todo[j + 1] /\ \A i \in 1 .. j - 1 : todo'[i] = todo[i + 1]
  BY <1>1
<1>3. j + 1 \in DOMAIN todo /\ 1 \in 1 .. (j + 1) - 1
  BY <1>1
<1>4. todo[j + 1][2] \notin DOMAIN made /\ todo[1][2] # todo[j + 1][2]
  BY <1>2a, <1>3 DEF Stacked
<1>5. \A i \in 1 .. j - 1 : i + 1 \in 1 .. (j + 1) - 1
  BY <1>1
<1>6. todo'[j][2] \notin DOMAIN made'
  BY <1>1, <1>2a, <1>4
<1>7. ASSUME NEW i \in 1 .. j - 1
      PROVE  /\ todo'[i][1] = "rebind" /\ todo'[i][2] # todo'[j][2]
             /\ {todo'[i][2]} \cup Reach[todo'[i][2]] \subseteq Reach[todo'[j][2]]
  <2>1. todo[j + 1][1] = "rebind" /\ j + 1 \in DOMAIN todo /\ i + 1 \in 1 .. (j + 1) - 1
    BY <1>2a, <1>3, <1>5
  <2>2. /\ todo[i + 1][1] = "rebind" /\ todo[i + 1][2] # todo[j + 1][2]
        /\ {todo[i + 1][2]} \cup Reach[todo[i + 1][2]] \subseteq Reach[todo[j + 1][2]]
    BY <2>1 DEF Stacked
  <2> QED BY <1>2a, <2>2
<1> QED BY <1>6, <1>7

(* A target is put on top. *)
LEMMA StackPushed ==
  ASSUME NEW s \in Seq(Jobs), Stacked(s), UNCHANGED <<kit, made>>, NEW t, t \notin DOMAIN made,
         todo' = <<<<"rebind", t>>>> \o s,
         \A j \in DOMAIN s : s[j][1] = "rebind" => s[j][2] # t /\ {t} \cup Reach[t] \subseteq Reach[s[j][2]]
  PROVE  Stacked(todo)'
<1>0. PICK x : x = <<"rebind", t>>
  OBVIOUS
<1>1. x[1] = "rebind" /\ x[2] = t /\ todo' = <<x>> \o s
  BY <1>0
<1>2. /\ Len(s) \in Nat /\ DOMAIN s = 1 .. Len(s) /\ DOMAIN todo' = 1 .. Len(s) + 1 /\ todo'[1] = x
      /\ \A i \in 2 .. Len(s) + 1 : todo'[i] = s[i - 1]
  BY <1>1
<1>3. Reach' = Reach
  BY DEF Reach
<1> SUFFICES ASSUME NEW j \in 1 .. Len(s) + 1, todo'[j][1] = "rebind"
             PROVE  /\ todo'[j][2] \notin DOMAIN made
                    /\ \A i \in 1 .. j - 1 : /\ todo'[i][1] = "rebind" /\ todo'[i][2] # todo'[j][2]
                                             /\ {todo'[i][2]} \cup Reach[todo'[i][2]] \subseteq Reach[todo'[j][2]]
  BY <1>2, <1>3 DEF Stacked
<1>4. CASE j = 1
  BY <1>1, <1>2, <1>4
<1>5. CASE j # 1
  <2>1. j - 1 \in DOMAIN s /\ todo'[j] = s[j - 1]
    BY <1>2, <1>5
  <2>2. s[j - 1][2] \notin DOMAIN made
    BY <2>1 DEF Stacked
  <2>3. ASSUME NEW i \in 1 .. j - 1
        PROVE  /\ todo'[i][1] = "rebind" /\ todo'[i][2] # s[j - 1][2]
               /\ {todo'[i][2]} \cup Reach[todo'[i][2]] \subseteq Reach[s[j - 1][2]]
    <3>1. CASE i = 1
      BY <1>1, <1>2, <2>1, <3>1
    <3>2. CASE i # 1
      <4>1. todo'[i] = s[i - 1] /\ i - 1 \in 1 .. (j - 1) - 1
        BY <1>2, <2>3, <3>2
      <4> QED BY <2>1, <4>1 DEF Stacked
    <3> QED BY <3>1, <3>2
  <2> QED BY <2>1, <2>2, <2>3
<1> QED BY <1>4, <1>5

-----------------------------------------------------------------------------
(* What the relocated files hold. *)

(* What is written stays as it is when nothing more is written. *)
LEMMA MadeStays == ASSUME MadeInv, UNCHANGED <<kit, made>> PROVE MadeInv'
<1>1. Reach' = Reach /\ (\A q, st : Bytes(q, st)' = Bytes(q, st)) /\ (\A q : Target(kit, q)' = Target(kit, q))
  BY DEF Reach, Bytes, Target
<1>2. \A p, new : Pin(p, new)' <=> Pin(p, new)
  BY <1>1 DEF Pin
<1> QED BY <1>1, <1>2 DEF MadeInv, PinsIn

(* A target of the file on top that nobody has written is under way: below *)
(* the file, or the file itself.                                           *)
LEMMA CycleIs ==
  ASSUME RelTypes, JobInv, Stacked(todo), At("rebind"), Untried(Item) = {},
         NEW t \in Pinned(kit, Item), t \notin DOMAIN made
  PROVE  Item \in Reach[t]
<1>1. /\ todo \in Seq(Jobs) /\ todo # <<>> /\ Item \in Range(kit.rewrite) /\ Job[1] = "rebind"
      /\ kit \in Kits /\ t \in Range(kit.rewrite)
  <2>1. todo \in Seq(Jobs) /\ kit \in Kits /\ t \in Range(kit.rewrite)
    BY DEF JobInv, RelTypes, Pinned
  <2> QED BY <2>1, JobIs DEF At
<1>2. t \notin {MapPath, PinsPath}
  BY <1>1, LeafIs
<1>3. t \in Targets(Item)
  BY <1>1, <1>2, RecordsAre DEF Pinned
<1>4. t \in Underway
  BY <1>1, <1>3 DEF Untried
<1>5. PICK j \in DOMAIN todo : todo[j][1] = "rebind" /\ todo[j][2] = t
  BY <1>4 DEF Underway, Range
<1>6. j \in Nat /\ j >= 1 /\ Item = todo[1][2]
  BY <1>1 DEF Item, Job
<1>7. CASE j = 1
  <2>1. t = Item
    BY <1>5, <1>6, <1>7
  <2>2. {t} \cup Reach[t] \subseteq Reach[Item]
    BY <1>1, KitPins DEF PinOrder
  <2> QED BY <2>1, <2>2
<1>8. CASE j # 1
  <2>1. 1 \in 1 .. j - 1
    BY <1>6, <1>8
  <2>2. {todo[1][2]} \cup Reach[todo[1][2]] \subseteq Reach[todo[j][2]]
    BY <1>5, <2>1 DEF Stacked
  <2> QED BY <1>5, <1>6, <2>2
<1> QED BY <1>7, <1>8

(* The records of a file that is written now. *)
LEMMA ReboundIs ==
  ASSUME RelTypes, JobInv, Stacked(todo), At("rebind"), Untried(Item) = {}, NEW p, p = Item
  PROVE  PinsIn(p, Rebound(p))
<1>1. p \in Range(kit.rewrite) /\ kit \in Kits
  BY JobIs DEF RelTypes
<1>2. /\ payload[p] = Bytes(p, "shipped")
      /\ Records(payload[p]) = {<<rec[1], Bytes(Target(kit, rec[1]), rec[2])>> : rec \in kit.records[p]}
  BY <1>1, RecordsAre
<1>3. CASE kit.records[p] = {}
  <2>1. Records(payload[p]) = {}
    BY <1>2, <1>3
  <2> QED BY <1>2, <1>3, <2>1 DEF Rebound, PinsIn
<1>4. CASE kit.records[p] # {}
  <2> DEFINE new(rec) == IF RealOf(rec[1]) \in DOMAIN made /\ RealOf(rec[1]) \notin {MapPath, PinsPath}
                           THEN <<rec[1], made[RealOf(rec[1])].now>> ELSE rec
             pins == {new(rec) : rec \in Records(payload[p])}
  <2>1. Records(payload[p]) # {}
    BY <1>2, <1>4
  <2>2. Rebound(p) = [file |-> p, state |-> "relocated", pins |-> pins]
    BY <2>1 DEF Rebound
  <2>3. ASSUME NEW x \in pins PROVE Pin(p, x)
    <3>1. PICK rec \in kit.records[p] : x = new(<<rec[1], Bytes(Target(kit, rec[1]), rec[2])>>)
      BY <1>2, <2>3
    <3> PICK t : t = Target(kit, rec[1])
      OBVIOUS
    <3>2. RealOf(rec[1]) = t
      BY <1>1, KitPins
    <3>3. x = IF t \in DOMAIN made /\ t \notin {MapPath, PinsPath} THEN <<rec[1], made[t].now>>
              ELSE <<rec[1], Bytes(t, rec[2])>>
      <4>1. PICK r : r = <<rec[1], Bytes(t, rec[2])>>
        OBVIOUS
      <4>2. r[1] = rec[1] /\ x = new(r)
        BY <3>1, <4>1
      <4> QED BY <3>2, <4>1, <4>2
    <3>4. CASE t \in DOMAIN made /\ t \notin {MapPath, PinsPath}
      <4>1. x[1] = rec[1] /\ x[2] = made[t].now
        BY <3>3, <3>4
      <4> QED BY <3>4, <4>1 DEF Pin
    <3>5. CASE ~(t \in DOMAIN made /\ t \notin {MapPath, PinsPath})
      <4>1. x[1] = rec[1] /\ x[2] = Bytes(t, rec[2])
        BY <3>3, <3>5
      <4>2. ASSUME t \in Range(kit.rewrite) PROVE p \in Reach[t]
        <5>1. t \notin {MapPath, PinsPath} /\ t \in Pinned(kit, p)
          BY <4>2, LeafIs DEF Pinned
        <5> QED BY <3>5, <5>1, CycleIs
      <4> QED BY <4>1, <4>2 DEF Pin
    <3> QED BY <3>4, <3>5
  <2> HIDE DEF pins
  <2>4. /\ Rebound(p).pins = pins
        /\ Rebound(p) = [file |-> p, state |-> "relocated", pins |-> Rebound(p).pins]
    BY <2>2
  <2> QED BY <1>4, <2>3, <2>4 DEF PinsIn
<1> QED BY <1>3, <1>4

(* A file is written: the others stay as they are. *)
LEMMA MadeWritten ==
  ASSUME RelTypes, JobInv, Stacked(todo), MadeInv, At("rebind"), Untried(Item) = {}, NEW p, p = Item, kit' = kit,
         made' = [q \in DOMAIN made \cup {p} |->
                    IF q = p THEN [was |-> payload[p], now |-> Rebound(p)] ELSE made[q]]
  PROVE  MadeInv'
<1>1. p \in Range(kit.rewrite) /\ payload[p] = Bytes(p, "shipped") /\ PinsIn(p, Rebound(p))
  BY JobIs, RecordsAre, ReboundIs
<1>2. p \notin DOMAIN made
  <2>1. 1 \in DOMAIN todo /\ todo[1][1] = "rebind" /\ todo[1][2] = p
    BY DEF At, JobInv, Job, Item
  <2> QED BY <2>1 DEF Stacked
<1>3. /\ DOMAIN made' = DOMAIN made \cup {p} /\ made'[p].was = payload[p] /\ made'[p].now = Rebound(p)
      /\ \A q \in DOMAIN made : made'[q] = made[q]
  BY <1>2
<1>4. Reach' = Reach /\ (\A q, st : Bytes(q, st)' = Bytes(q, st)) /\ (\A q : Target(kit, q)' = Target(kit, q))
  BY DEF Reach, Bytes, Target
<1>5. \A q, new : Pin(q, new) => Pin(q, new)'
  BY <1>3, <1>4 DEF Pin
<1>6. \A q, data : PinsIn(q, data) => PinsIn(q, data)'
  BY <1>4, <1>5 DEF PinsIn
<1>7. ASSUME NEW q \in DOMAIN made' PROVE made'[q].was = Bytes(q, "shipped") /\ PinsIn(q, made[q].now)'
  <2>1. CASE q = p
    <3>1. PICK d : d = Rebound(p)
      OBVIOUS
    <3>2. PinsIn(p, d)'
      BY <1>1, <1>6, <3>1
    <3> QED BY <1>1, <1>3, <2>1, <3>1, <3>2
  <2>2. CASE q # p
    <3>1. q \in DOMAIN made /\ made'[q] = made[q]
      BY <1>3, <2>2
    <3>2. PICK d : d = made[q].now
      OBVIOUS
    <3>3. PinsIn(q, d)' /\ made[q].was = Bytes(q, "shipped")
      BY <1>6, <3>1, <3>2 DEF MadeInv
    <3> QED BY <3>1, <3>2, <3>3
  <2> QED BY <2>1, <2>2
<1> QED BY <1>1, <1>3, <1>7 DEF MadeInv

-----------------------------------------------------------------------------
(* The files that are generated in the end. *)

(* Who opens a file below work reads what is in it. *)
LEMMA SeenIs ==
  ASSUME RelTypes, TreeInv, NEW p \in Sol \cup {MapPath}, p \in DOMAIN work, work[p].is = "file"
  PROVE  Content("work", p) = work[p].data
<1>1. Node(p) = work[p]
  BY DEF Node
<1>2. \A a \in Above(p) \cup {p} : ~IsLink(a)
  BY <1>1, Rooted DEF Leaves, IsLink
<1>3. Find(p) = <<"work", p>> /\ <<"work", p>>[1] = "work" /\ <<"work", p>>[2] = p
  BY <1>2, FindAt
<1> QED BY <1>1, <1>3 DEF Content

(* A write changes the file, and no other one. *)
LEMMA WrittenIs ==
  ASSUME RelTypes, TreeInv, NEW p \in Sol \cup {MapPath}, NEW data, Write(p, data)
  PROVE  /\ FileAt(p, data)' /\ UNCHANGED payload
         /\ \A q, d : q # p /\ FileAt(q, d) => FileAt(q, d)'
<1>1. PICK node : node = [is |-> "file", data |-> data]
  OBVIOUS
<1>2. Put(p, node) /\ UNCHANGED payload
  BY <1>1, WriteIs DEF Leaves
<1>3. p \in Paths /\ \A a \in Above(p) : ~IsLink(a)
  BY LeafIs, Rooted DEF Leaves
<1>4. Placed(p, node)
  BY <1>2, <1>3, PutIs
<1> QED BY <1>1, <1>2, <1>4 DEF Placed, FileAt

(* Before the map is written nothing has been generated. *)
LEMMA EarlyHolds ==
  ASSUME JobInv, LastInv, rphase = "running", rphase' = rphase, NEW j \in Left, Stage(j[1]) < 6, Left \subseteq {j} \cup Left'
  PROVE  LateInv'
<1>1. j[1] # "map" /\ <<"map", MapPath>> \in Left
  BY StageIs DEF LastInv
<1> PICK m : m = <<"map", MapPath>>
  OBVIOUS
<1>2. m \in Left' /\ m[1] = "map"
  BY <1>1
<1>3. ~(Stage(m[1]) > 6) /\ ~(Stage(m[1]) > 7)
  BY <1>2, StageIs
<1>4. ~Over(6)' /\ ~Over(7)'
  BY <1>2, <1>3 DEF Over
<1> QED BY <1>4 DEF LateInv

(* What is generated stays as it is. *)
LEMMA LateStays ==
  ASSUME UNCHANGED <<kit, payload, made>>
  PROVE  /\ MapMade /\ (\A d : FileAt(MapPath, d) => FileAt(MapPath, d)') => MapMade'
         /\ MapMade /\ PinsMade /\ (\A d : \A q \in {MapPath, PinsPath} : FileAt(q, d) => FileAt(q, d)') => PinsMade'
<1>1. Remap(Entries(payload[MapPath]))' = Remap(Entries(payload[MapPath]))
  <2>1. Entries(payload[MapPath])' = Entries(payload[MapPath])
    BY DEF Entries, Bytes
  <2> PICK base : base = Entries(payload[MapPath])
    OBVIOUS
  <2>2. Changed' = Changed
    BY DEF Changed
  <2>3. Remap(base)' = Remap(base)
    BY <2>2 DEF Remap
  <2> QED BY <2>1, <2>3 DEF Remap
<1>2. MapMade /\ (\A d : FileAt(MapPath, d) => FileAt(MapPath, d)') => MapMade'
  BY <1>1 DEF MapMade
<1>3. ASSUME MapMade, PinsMade, \A d : \A q \in {MapPath, PinsPath} : FileAt(q, d) => FileAt(q, d)'
      PROVE  PinsMade'
  <2> PICK c : c = work[MapPath].data
    OBVIOUS
  <2>1. FileAt(MapPath, c)
    BY <1>3 DEF MapMade, FileAt
  <2>2. work'[MapPath].data = c
    BY <1>3, <2>1 DEF FileAt
  <2> QED BY <1>3, <2>2 DEF PinsMade
<1> QED BY <1>2, <1>3

(* Writing the derived map, or refusing to. *)
LEMMA MapPins == ASSUME RelInv, PinInv, UNCHANGED session, WriteMap PROVE PinInv'
<1>1. /\ RelTypes /\ TreeInv /\ JobInv /\ LastInv /\ At("map") /\ rphase = "running" /\ Item = MapPath /\ todo # <<>>
      /\ todo \in Seq(Jobs) /\ UNCHANGED <<kit, user, given, made>>
  <2>1. RelTypes /\ TreeInv /\ JobInv /\ LastInv /\ At("map") /\ UNCHANGED <<kit, user, given, made>>
    BY DEF RelInv, WriteMap
  <2> QED BY <2>1, JobIs DEF JobInv
<1>2. MadeInv'
  BY <1>1, MadeStays DEF PinInv
<1>3. CASE rphase' = "refused"
  <2>1. todo' = <<>>
    BY <1>1, <1>3 DEF WriteMap
  <2>2. Stacked(todo)' /\ ~Over(6)' /\ ~Over(7)'
    BY <1>3, <2>1 DEF Stacked, Over, Ran
  <2> QED BY <1>2, <1>3, <2>2 DEF PinInv, LateInv
<1>4. CASE rphase' # "refused"
  <2> PICK data : data = [file |-> MapPath, state |-> "relocated", pins |-> Remap(Entries(payload[MapPath]))]
    OBVIOUS
  <2>1. Write(MapPath, data) /\ Pop /\ rphase' = rphase
    BY <1>4 DEF WriteMap
  <2>2. FileAt(MapPath, data)' /\ UNCHANGED payload
    BY <1>1, <2>1, WrittenIs
  <2>3. Stacked(todo)'
    BY <1>1, <2>1, StackPopped DEF PinInv
  <2>4. MapMade'
    <3>1. Entries(payload[MapPath])' = Entries(payload[MapPath])
      BY <1>1, <2>2 DEF Entries, Bytes
    <3> PICK base : base = Entries(payload[MapPath])
      OBVIOUS
    <3>2. Changed' = Changed
      BY <1>1 DEF Changed
    <3>3. Remap(base)' = Remap(base)
      BY <1>1, <3>2 DEF Remap
    <3>4. Remap(Entries(payload[MapPath]))' = Remap(Entries(payload[MapPath]))
      BY <3>1, <3>3 DEF Remap
    <3> QED BY <2>2, <3>4 DEF MapMade
  <2>5. ~Over(7)'
    <3>1. Still /\ Job[1] = "map"
      BY <1>1, <2>2 DEF Still, At
    <3>2. Left = {Job} \cup Left' /\ Job \in Left
      BY <1>1, <2>1, <3>1, PopHolds, JobIs
    <3>3. <<"pins", PinsPath>> \in Left
      BY <3>1, <3>2, StageIs, <1>1 DEF LastInv
    <3> PICK n : n = <<"pins", PinsPath>>
      OBVIOUS
    <3>4. n[1] = "pins" /\ n \in Left'
      BY <3>1, <3>2, <3>3
    <3>5. ~(Stage(n[1]) > 7)
      BY <3>4, StageIs
    <3> QED BY <3>4, <3>5 DEF Over
  <2> QED BY <1>1, <1>2, <2>1, <2>3, <2>4, <2>5 DEF PinInv, LateInv
<1> QED BY <1>3, <1>4

(* The jobs of the stages before the next one are done. *)
LEMMA NextIs == ASSUME JobInv, NEW kind, At(kind)
                PROVE  (\A x \in Left : Stage(kind) <= Stage(x[1]))
<1>1. Job[1] = kind /\ todo # <<>> /\ todo \in Seq(Jobs) /\ Staged(todo) /\ SealLast(todo)
  BY DEF At, JobInv
<1>2. \A x \in Range(todo) : Stage(Head(todo)[1]) <= Stage(x[1])
  BY <1>1, Popped
<1> QED BY <1>1, <1>2 DEF Left, Job

(* Writing derived_pins.py. *)
LEMMA PinsPins == ASSUME RelInv, PinInv, UNCHANGED session, WritePins PROVE PinInv'
<1>1. /\ RelTypes /\ TreeInv /\ JobInv /\ LastInv /\ At("pins") /\ rphase = "running" /\ Item = PinsPath /\ todo # <<>>
      /\ todo \in Seq(Jobs) /\ UNCHANGED <<kit, user, given, made, rphase>> /\ Pop /\ Ran
  <2>1. RelTypes /\ TreeInv /\ JobInv /\ LastInv /\ At("pins") /\ UNCHANGED <<kit, user, given, made, rphase>> /\ Pop
    BY DEF RelInv, WritePins
  <2> QED BY <2>1, JobIs DEF JobInv
<1>2. MadeInv' /\ Stacked(todo)'
  BY <1>1, MadeStays, StackPopped DEF PinInv
<1>3. Over(6)
  <2>1. \A x \in Left : 7 <= Stage(x[1]) /\ x \in Jobs
    BY <1>1, NextIs, StageIs DEF JobInv, Left, Range
  <2>2. \A x \in Left : Stage(x[1]) > 6
    BY <2>1, JobStage
  <2> QED BY <1>1, <2>2 DEF Over
<1>4. MapMade /\ PinsPath \in Sol /\ MapPath \notin Sol /\ MapPath # PinsPath
  BY <1>1, <1>3, LeafIs DEF PinInv, LateInv, Sol
<1> PICK c : c = work[MapPath].data
  OBVIOUS
<1>5. FileAt(MapPath, c) /\ Content("work", MapPath) = c
  <2>1. FileAt(MapPath, c)
    BY <1>4 DEF MapMade, FileAt
  <2>2. MapPath \in DOMAIN work /\ work[MapPath].is = "file" /\ work[MapPath].data = c
    BY <2>1 DEF FileAt
  <2> QED BY <1>1, <2>1, <2>2, SeenIs
<1>6. Write(PinsPath, [file |-> PinsPath, state |-> "relocated", pins |-> {<<MapPath, c>>}])
  BY <1>1, <1>5 DEF WritePins
<1> PICK data : data = [file |-> PinsPath, state |-> "relocated", pins |-> {<<MapPath, c>>}]
  OBVIOUS
<1>7. /\ FileAt(PinsPath, data)' /\ UNCHANGED payload
      /\ \A q, d : q # PinsPath /\ FileAt(q, d) => FileAt(q, d)'
  BY <1>1, <1>4, <1>6, WrittenIs
<1>8. MapMade'
  BY <1>1, <1>4, <1>7, LateStays
<1>9. PinsMade'
  <2>1. FileAt(MapPath, c)'
    BY <1>4, <1>5, <1>7
  <2>2. work'[MapPath].data = c
    BY <2>1 DEF FileAt
  <2> QED BY <1>7, <2>2 DEF PinsMade
<1> QED BY <1>1, <1>2, <1>8, <1>9 DEF PinInv, LateInv

(* The seal that the last job reads is the one that was rewritten. *)
LEMMA SealRead ==
  ASSUME RelInv, At("seal")
  PROVE  SealPath \in DOMAIN made /\ Content("work", SealPath) = made[SealPath].now
<1>1. RelTypes /\ TreeInv /\ JobInv /\ MadeDone /\ rphase = "running" /\ SealPath \in Range(kit.rewrite) /\ SealPath \in Sol
  <2>1. RelTypes /\ TreeInv /\ JobInv /\ DoneInv
    BY DEF RelInv
  <2>2. rphase = "running" /\ Ran
    BY <2>1, JobIs
  <2> QED BY <2>1, <2>2, LeafIs DEF DoneInv
<1>2. \A x \in Left : x[1] \notin {"produce", "rebind"}
  BY <1>1, NextIs, StageIs
<1>3. SealPath \in DOMAIN made /\ FileAt(SealPath, made[SealPath].now)
  BY <1>1, <1>2 DEF MadeDone
<1>4. SealPath \in DOMAIN work /\ work[SealPath].is = "file" /\ work[SealPath].data = made[SealPath].now
  BY <1>3 DEF FileAt
<1> QED BY <1>1, <1>3, <1>4, SeenIs

(* Writing the seal again. *)
LEMMA SealPins == ASSUME RelInv, PinInv, UNCHANGED session, RefreshSeal PROVE PinInv'
<1>1. /\ RelTypes /\ TreeInv /\ JobInv /\ LastInv /\ At("seal") /\ rphase = "running" /\ Item = SealPath /\ todo # <<>>
      /\ todo \in Seq(Jobs) /\ UNCHANGED <<kit, user, given, made>> /\ Pop /\ Ran /\ rphase' = "done"
  <2>1. RelTypes /\ TreeInv /\ JobInv /\ LastInv /\ At("seal") /\ UNCHANGED <<kit, user, given, made>> /\ Pop /\ rphase' = "done"
    BY DEF RelInv, RefreshSeal
  <2> QED BY <2>1, JobIs DEF JobInv
<1>2. MadeInv' /\ Stacked(todo)'
  BY <1>1, MadeStays, StackPopped DEF PinInv
<1>3. Over(6) /\ Over(7)
  <2>1. \A x \in Left : 8 <= Stage(x[1]) /\ x \in Jobs
    BY <1>1, NextIs, StageIs DEF JobInv, Left, Range
  <2>2. \A x \in Left : Stage(x[1]) > 6 /\ Stage(x[1]) > 7
    BY <2>1, JobStage
  <2> QED BY <1>1, <2>2 DEF Over
<1>4. /\ MapMade /\ PinsMade /\ SealPath \in Sol /\ PinsPath \in Sol
      /\ SealPath # MapPath /\ SealPath # PinsPath
  BY <1>1, <1>3, LeafIs DEF PinInv, LateInv, Sol
<1>5. ASSUME NEW q \in {MapPath, PinsPath}
      PROVE  Content("work", q) = work[q].data /\ FileAt(q, work[q].data)
  <2>1. FileAt(q, work[q].data)
    BY <1>4 DEF MapMade, PinsMade, FileAt
  <2>2. q \in DOMAIN work /\ work[q].is = "file" /\ q \in Sol \cup {MapPath}
    BY <1>4, <2>1 DEF FileAt
  <2> QED BY <1>1, <2>1, <2>2, SeenIs
<1> PICK now : now = made[SealPath].now
  OBVIOUS
<1> PICK pins : pins = {Renewed(rec) : rec \in now.pins}
  OBVIOUS
<1>6. Write(SealPath, [now EXCEPT !.pins = pins])
  <2>1. Content("work", SealPath) = now
    BY <1>1, SealRead
  <2>2. {IF rec[1] \in {MapPath, PinsPath} THEN <<rec[1], Content("work", rec[1])>> ELSE rec : rec \in now.pins} = pins
    BY <1>5 DEF Renewed
  <2> QED BY <1>1, <2>1, <2>2 DEF RefreshSeal
<1> PICK data : data = [now EXCEPT !.pins = pins]
  OBVIOUS
<1>7. /\ FileAt(SealPath, data)' /\ UNCHANGED payload
      /\ \A q, d : q # SealPath /\ FileAt(q, d) => FileAt(q, d)'
  BY <1>1, <1>4, <1>6, WrittenIs
<1>8. MapMade' /\ PinsMade'
  BY <1>1, <1>4, <1>7, LateStays
<1>9. SealMade'
  <2>1. \A q \in {MapPath, PinsPath} : work'[q].data = work[q].data
    BY <1>4, <1>5, <1>7 DEF FileAt
  <2>2. \A rec : Renewed(rec)' = Renewed(rec)
    BY <2>1 DEF Renewed
  <2>3. made' = made
    BY <1>1
  <2> QED BY <1>7, <2>2, <2>3 DEF SealMade
<1> QED BY <1>1, <1>2, <1>8, <1>9 DEF PinInv, LateInv

(* A step of a job before these leaves the records as they are. *)
LEMMA BodyPins ==
  ASSUME RelInv, PinInv, UNCHANGED <<kit, made, rphase>>, NEW kind, At(kind), Stage(kind) < 6, Pop \/ UNCHANGED todo
  PROVE  PinInv'
<1>1. JobInv /\ LastInv /\ todo \in Seq(Jobs) /\ todo # <<>> /\ Staged(todo) /\ SealLast(todo)
      /\ Stacked(todo) /\ MadeInv /\ Job[1] = kind /\ Job \in Left /\ rphase = "running"
  <2>1. JobInv /\ LastInv /\ Stacked(todo) /\ MadeInv
    BY DEF RelInv, PinInv
  <2> QED BY <2>1, JobIs DEF JobInv, At
<1>2. MadeInv'
  BY <1>1, MadeStays
<1>3. Stacked(todo)'
  <2>1. CASE Pop
    BY <1>1, <2>1, StackPopped
  <2>2. CASE UNCHANGED todo
    <3>1. Reach' = Reach
      BY DEF Reach
    <3> QED BY <1>1, <2>2, <3>1 DEF Stacked
  <2> QED BY <2>1, <2>2
<1>4. LateInv'
  <2>1. Left \subseteq {Job} \cup Left'
    <3>1. Range(todo) = {Head(todo)} \cup Range(Tail(todo))
      BY <1>1, Popped
    <3> QED BY <3>1 DEF Left, Pop, Job
  <2> QED BY <1>1, <2>1, EarlyHolds
<1> QED BY <1>2, <1>3, <1>4 DEF PinInv

(* So does a run that ends early. *)
LEMMA StopPins ==
  ASSUME PinInv, UNCHANGED <<kit, made>>, todo' = <<>>, rphase' \in {"refused", "idle"}
  PROVE  PinInv'
<1>1. MadeInv'
  BY MadeStays DEF PinInv
<1>2. Stacked(todo)' /\ ~Over(6)' /\ ~Over(7)'
  BY DEF Stacked, Over, Ran
<1> QED BY <1>1, <1>2 DEF PinInv, LateInv

(* A target that nobody has tried is put on top of the file that pins it. *)
LEMMA DescentPins ==
  ASSUME RelInv, PinInv, UNCHANGED session, Rebind, NEW t \in Untried(Item), todo' = <<<<"rebind", t>>>> \o todo,
         UNCHANGED <<kit, made, rphase>>
  PROVE  PinInv'
<1>1. /\ RelTypes /\ JobInv /\ LastInv /\ At("rebind") /\ rphase = "running" /\ Item \in Range(kit.rewrite)
      /\ todo \in Seq(Jobs) /\ todo # <<>> /\ Job \in Left /\ Job[1] = "rebind" /\ kit \in Kits
      /\ Staged(todo) /\ SealLast(todo)
  <2>1. RelTypes /\ JobInv /\ LastInv /\ At("rebind")
    BY DEF RelInv, Rebind
  <2> QED BY <2>1, JobIs DEF JobInv, At, RelTypes
<1>2. t \in Targets(Item) /\ t \in Range(kit.rewrite) /\ t \notin DOMAIN made /\ t \notin Underway
  BY DEF Untried
<1>3. {t} \cup Reach[t] \subseteq Reach[Item]
  <2>1. t \in Pinned(kit, Item)
    BY <1>1, <1>2, RecordsAre DEF Pinned
  <2> QED BY <1>1, <2>1, KitPins DEF PinOrder
<1>4. ASSUME NEW j \in DOMAIN todo, todo[j][1] = "rebind"
      PROVE  todo[j][2] # t /\ {t} \cup Reach[t] \subseteq Reach[todo[j][2]]
  <2>1. todo[j][2] # t
    BY <1>2, <1>4 DEF Underway, Range
  <2>2. Item = todo[1][2] /\ j \in Nat /\ j >= 1
    BY <1>1 DEF Item, Job
  <2>3. CASE j = 1
    BY <1>3, <2>1, <2>2, <2>3
  <2>4. CASE j # 1
    <3>1. 1 \in 1 .. j - 1
      BY <2>2, <2>4
    <3>2. {todo[1][2]} \cup Reach[todo[1][2]] \subseteq Reach[todo[j][2]]
      BY <1>4, <3>1 DEF PinInv, Stacked
    <3> QED BY <1>3, <2>1, <2>2, <3>2
  <2> QED BY <2>3, <2>4
<1>5. Stacked(todo)'
  BY <1>1, <1>2, <1>4, StackPushed DEF PinInv
<1>6. MadeInv'
  BY MadeStays DEF PinInv
<1>7. LateInv'
  <2> PICK x : x = <<"rebind", t>>
    OBVIOUS
  <2>1. x \in Jobs /\ x[1] = "rebind" /\ todo' = <<x>> \o todo
    BY <1>2 DEF Jobs
  <2>2. \A y \in Range(todo) : Stage("rebind") <= Stage(y[1])
    BY <1>1, NextIs DEF Left
  <2>3. Range(<<x>> \o todo) = {x} \cup Range(todo)
    BY <1>1, <2>1, <2>2, Pushed
  <2>4. Left \subseteq {Job} \cup Left'
    BY <2>1, <2>3 DEF Left
  <2> QED BY <1>1, <2>4, EarlyHolds, StageIs
<1> QED BY <1>5, <1>6, <1>7 DEF PinInv

(* A file under way. *)
LEMMA RebindPins == ASSUME RelInv, PinInv, UNCHANGED session, Rebind PROVE PinInv'
<1>1. CASE Untried(Item) # {}
  <2>1. PICK t \in Untried(Item) : todo' = <<<<"rebind", t>>>> \o todo /\ UNCHANGED <<kit, made, rphase>>
    BY <1>1 DEF Rebind
  <2> QED BY <2>1, DescentPins
<1>2. CASE Untried(Item) = {}
  <2> PICK p : p = Item
    OBVIOUS
  <2>1. /\ RelTypes /\ JobInv /\ LastInv /\ At("rebind") /\ Pop /\ UNCHANGED <<kit, rphase>>
        /\ made' = [q \in DOMAIN made \cup {p} |->
                      IF q = p THEN [was |-> payload[p], now |-> Rebound(p)] ELSE made[q]]
    BY <1>2 DEF RelInv, Rebind
  <2>2. /\ todo \in Seq(Jobs) /\ todo # <<>> /\ Staged(todo) /\ SealLast(todo)
        /\ Job \in Left /\ Job[1] = "rebind" /\ rphase = "running"
    BY <2>1, JobIs DEF JobInv, At
  <2>3. MadeInv'
    BY <1>2, <2>1, MadeWritten DEF PinInv
  <2>4. Stacked(todo)'
    BY <2>1, <2>2, StackPopped DEF PinInv
  <2>5. LateInv'
    <3>1. Range(todo) = {Head(todo)} \cup Range(Tail(todo))
      BY <2>2, Popped
    <3>2. Left \subseteq {Job} \cup Left'
      BY <2>1, <3>1 DEF Left, Pop, Job
    <3> QED BY <2>1, <2>2, <3>2, EarlyHolds, StageIs
  <2> QED BY <2>3, <2>4, <2>5 DEF PinInv
<1> QED BY <1>1, <1>2

(* A file that is to be rewritten: no other one is under way. *)
LEMMA ProducePins == ASSUME RelInv, PinInv, UNCHANGED session, Produce PROVE PinInv'
<1>1. /\ JobInv /\ LastInv /\ At("produce") /\ UNCHANGED <<kit, made, rphase>> /\ Stacked(todo)
      /\ todo' = IF Item \in DOMAIN made THEN Tail(todo) ELSE <<<<"rebind", Item>>>> \o Tail(todo)
  BY DEF RelInv, PinInv, Produce
<1>2. /\ todo \in Seq(Jobs) /\ todo # <<>> /\ Staged(todo) /\ SealLast(todo)
      /\ Job \in Left /\ Job[1] = "produce" /\ rphase = "running" /\ Item \in Range(kit.rewrite)
  BY <1>1, JobIs DEF JobInv, At
<1>3. CASE Item \in DOMAIN made
  <2>1. Pop
    BY <1>1, <1>3 DEF Pop
  <2> QED BY <1>1, <2>1, BodyPins, StageIs
<1>4. CASE Item \notin DOMAIN made
  <2> PICK s : s = Tail(todo)
    OBVIOUS
  <2>1. /\ s \in Seq(Jobs) /\ Staged(s) /\ SealLast(s) /\ Range(todo) = {Head(todo)} \cup Range(s)
        /\ \A x \in Range(todo) : Stage(Head(todo)[1]) <= Stage(x[1])
    BY <1>2, Popped
  <2>2. \A j \in DOMAIN todo : todo[j][1] # "rebind"
    <3> SUFFICES ASSUME NEW j \in DOMAIN todo, todo[j][1] = "rebind" PROVE FALSE
      OBVIOUS
    <3>1. j \in Nat /\ j >= 1 /\ todo[1][1] = "produce"
      BY <1>2 DEF Job
    <3>2. j = 1 \/ 1 \in 1 .. j - 1
      BY <3>1
    <3> QED BY <1>1, <3>1, <3>2 DEF Stacked
  <2>3. \A j \in DOMAIN s : s[j][1] # "rebind"
    <3>1. \A j \in DOMAIN s : j + 1 \in DOMAIN todo /\ s[j] = todo[j + 1]
      BY <1>2
    <3> QED BY <2>2, <3>1
  <2>4. Stacked(s)
    BY <2>3 DEF Stacked
  <2> PICK p : p = Item
    OBVIOUS
  <2>5. todo' = <<<<"rebind", p>>>> \o s
    BY <1>1, <1>4
  <2>6. Stacked(todo)'
    BY <1>1, <1>4, <2>1, <2>3, <2>4, <2>5, StackPushed
  <2>7. MadeInv'
    BY <1>1, MadeStays DEF PinInv
  <2>8. LateInv'
    <3> PICK x : x = <<"rebind", p>>
      OBVIOUS
    <3>1. x \in Jobs /\ x[1] = "rebind" /\ todo' = <<x>> \o s
      BY <1>2, <2>5 DEF Jobs
    <3>2. \A y \in Range(s) : Stage("rebind") <= Stage(y[1])
      BY <1>2, <2>1, StageIs DEF Job
    <3>3. Range(<<x>> \o s) = {x} \cup Range(s)
      BY <2>1, <3>1, <3>2, Pushed
    <3>4. Left \subseteq {Job} \cup Left'
      BY <2>1, <3>1, <3>3 DEF Left, Job
    <3> QED BY <1>1, <1>2, <3>4, EarlyHolds, StageIs
  <2> QED BY <2>6, <2>7, <2>8 DEF PinInv
<1> QED BY <1>3, <1>4

(* Every step of run keeps what is known of the pins. *)
LEMMA StepPins == ASSUME RelInv, PinInv, UNCHANGED session, RelocateStep PROVE PinInv'
<1>1. CASE CheckInput
  <2>1. At("check") /\ UNCHANGED <<kit, made>>
    BY <1>1 DEF CheckInput
  <2>2. (Pop /\ UNCHANGED rphase) \/ (todo' = <<>> /\ rphase' = "refused")
    BY <1>1 DEF CheckInput
  <2> QED BY <2>1, <2>2, BodyPins, StopPins, StageIs
<1>2. CASE Clear
  BY <1>2, BodyPins, StageIs DEF Clear
<1>3. CASE LinkAlias
  BY <1>3, BodyPins, StageIs DEF LinkAlias
<1>4. CASE Install
  BY <1>4, BodyPins, StageIs DEF Install
<1>5. CASE CopyModule
  BY <1>5, BodyPins, StageIs DEF CopyModule
<1>6. CASE MirrorDir
  <2>1. At("mirror") /\ UNCHANGED <<kit, made, rphase>> /\ (Pop \/ UNCHANGED todo)
    BY <1>6 DEF MirrorDir
  <2> QED BY <2>1, BodyPins, StageIs
<1> QED BY <1>1, <1>2, <1>3, <1>4, <1>5, <1>6, ProducePins, RebindPins, MapPins, PinsPins, SealPins DEF RelocateStep

(* A run begins with nothing under way. *)
LEMMA StartPins == ASSUME RelInv, UNCHANGED session, StartRelocate(driver = "two") PROVE PinInv'
<1>0. PICK opt \in BOOLEAN : opt = (driver = "two")
  OBVIOUS
<1>1. UNCHANGED kit /\ todo' = Program(kit, opt) /\ made' = <<>> /\ rphase' = "running" /\ kit \in Kits
  BY <1>0 DEF StartRelocate, RelInv, RelTypes
<1>2. Left' = Body(kit, Given(kit, opt)) \cup Range(Final)
  BY <1>1, ProgramIs DEF Left
<1>3. Range(Final) = {<<"map", MapPath>>, <<"pins", PinsPath>>, <<"seal", SealPath>>}
  <2>1. DOMAIN Final = 1 .. 3 /\ Final[1] = <<"map", MapPath>> /\ Final[2] = <<"pins", PinsPath>> /\ Final[3] = <<"seal", SealPath>>
    BY DEF Final
  <2> QED BY <2>1 DEF Range
<1>4. \A x \in Left' : x[1] # "rebind"
  BY <1>2, <1>3 DEF Body
<1>5. Stacked(todo)'
  <2>1. \A j \in DOMAIN todo' : todo'[j] \in Left'
    BY DEF Left, Range
  <2> QED BY <1>4, <2>1 DEF Stacked
<1>6. MadeInv'
  <2>1. DOMAIN made' = {}
    BY <1>1
  <2> QED BY <2>1 DEF MadeInv
<1>7. LateInv'
  <2> PICK m : m = <<"map", MapPath>>
    OBVIOUS
  <2>1. m \in Left' /\ m[1] = "map"
    BY <1>2, <1>3
  <2>2. ~(Stage(m[1]) > 6) /\ ~(Stage(m[1]) > 7)
    BY <2>1, StageIs
  <2>3. ~Over(6)' /\ ~Over(7)'
    BY <2>1, <2>2 DEF Over
  <2> QED BY <1>1, <2>3 DEF LateInv
<1> QED BY <1>5, <1>6, <1>7 DEF PinInv

(* Nothing else touches the records. *)
LEMMA IdlePins == ASSUME PinInv, UNCHANGED <<kit, payload, work, todo, made, rphase>> PROVE PinInv'
<1>1. MadeInv' /\ Reach' = Reach
  BY MadeStays DEF PinInv, Reach
<1>2. Stacked(todo)'
  BY <1>1 DEF PinInv, Stacked
<1>3. (Over(6)' <=> Over(6)) /\ (Over(7)' <=> Over(7))
  BY DEF Over, Ran, Left
<1>4. \A p, d : FileAt(p, d)' <=> FileAt(p, d)
  BY DEF FileAt
<1>5. MapMade => MapMade'
  BY <1>4, LateStays
<1>6. (PinsMade => PinsMade') /\ (SealMade => SealMade')
  BY <1>4 DEF PinsMade, SealMade, Renewed
<1> QED BY <1>1, <1>2, <1>3, <1>5, <1>6 DEF PinInv, LateInv

(* The pins of a session. *)
LEMMA PinsHold == RelInv /\ PinInv /\ [DNext]_dvars => PinInv'
<1> SUFFICES ASSUME RelInv, PinInv, [DNext]_dvars PROVE PinInv'
  OBVIOUS
<1>1. ASSUME UNCHANGED rvars PROVE PinInv'
  BY <1>1, IdlePins DEF rvars
<1>2. ASSUME KillRelocate PROVE PinInv'
  BY <1>2, StopPins DEF KillRelocate
<1>3. CASE ZeroStep
  <2>1. UNCHANGED session /\ driver = "f0" /\ ZStep
    BY <1>3 DEF ZeroStep
  <2>2. CASE ZStart
    <3>1. StartRelocate(FALSE) /\ (driver = "two") = FALSE
      BY <2>1, <2>2 DEF ZStart
    <3> QED BY <2>1, <3>1, StartPins
  <2>3. CASE KillAll
    BY <1>1, <1>2, <2>3 DEF KillAll
  <2>4. CASE UNCHANGED rvars
    BY <1>1, <2>4
  <2> QED BY <2>1, <2>2, <2>3, <2>4 DEF ZStep, ZRefused, ZPrepare, ZOpen, ZLoad, ZLoaded, ZRaise, ZLaunch, WriteRows,
                                        WriteResult, ZFinish, KillWorker
<1>4. CASE EditInput
  BY <1>4, IdlePins DEF EditInput, Edit
<1>5. CASE StartTwo
  <2>1. StartRelocate(TRUE) /\ (driver = "two") = TRUE /\ UNCHANGED session
    BY <1>5 DEF StartTwo
  <2> QED BY <2>1, StartPins
<1>6. CASE KillTwo
  BY <1>2, <1>6 DEF KillTwo
<1>7. CASE TwoStep(Next)
  BY <1>1, <1>7 DEF TwoStep
<1>8. CASE Relocating
  BY <1>8, StepPins DEF Relocating
<1>9. CASE UNCHANGED dvars
  BY <1>1, <1>9 DEF dvars
<1> QED BY <1>3, <1>4, <1>5, <1>6, <1>7, <1>8, <1>9 DEF DNext

-----------------------------------------------------------------------------
(* What the derived map accepts, when run is through. *)

(* The bytes a source frozen with the shipped runs expects, and what the   *)
(* map leads to.                                                           *)
Frozen(p) == IF p \in kit.derived THEN "original" ELSE "shipped"
Latest(p) == IF p \in Changed THEN made[p].now ELSE Bytes(p, "shipped")
(* The map that run has written. *)
LEMMA MapWritten ==
  ASSUME RelInv, PinInv, rphase = "done"
  PROVE  /\ Content("work", MapPath) = work[MapPath].data
         /\ Content("work", PinsPath) = work[PinsPath].data /\ Content("work", PinsPath).state = "relocated"
         /\ Content("work", PinsPath).pins = {<<MapPath, work[MapPath].data>>}
         /\ Entries(Content("work", MapPath)) =
              {<<Bytes(p, "original"), Latest(p)>> : p \in kit.derived}
                \cup {<<Bytes(p, "shipped"), made[p].now>> : p \in Changed \ kit.derived}
<1>1. RelTypes /\ TreeInv /\ Ran /\ Over(6) /\ Over(7) /\ PinsPath \in Sol /\ MapPath \in DOMAIN payload
  <2>1. todo = <<>> /\ RelTypes /\ TreeInv
    BY DEF RelInv, JobInv
  <2>2. Left = {}
    BY <2>1 DEF Left, Range
  <2> QED BY <2>1, <2>2, LeafIs DEF Ran, Over, Sol
<1>2. MapMade /\ PinsMade /\ MadeInv
  BY <1>1 DEF PinInv, LateInv
<1> PICK pins : pins = Remap(Entries(payload[MapPath]))
  OBVIOUS
<1>3. /\ MapPath \in DOMAIN work /\ work[MapPath].is = "file" /\ work[MapPath].data.state = "relocated"
      /\ work[MapPath].data.pins = pins
  BY <1>2 DEF MapMade, FileAt
<1>4. /\ PinsPath \in DOMAIN work /\ work[PinsPath].is = "file" /\ work[PinsPath].data.state = "relocated"
      /\ work[PinsPath].data.pins = {<<MapPath, work[MapPath].data>>}
  BY <1>2 DEF PinsMade, FileAt
<1>5. Content("work", MapPath) = work[MapPath].data /\ Content("work", PinsPath) = work[PinsPath].data
  BY <1>1, <1>3, <1>4, SeenIs
<1>6. Entries(payload[MapPath]) = {<<Bytes(p, "original"), Bytes(p, "shipped")>> : p \in kit.derived}
  <2>1. payload[MapPath] = Bytes(MapPath, "shipped")
    BY <1>1 DEF RelTypes, Shipped
  <2> QED BY <2>1 DEF Entries, Bytes
<1>7. \A p \in Changed : p \in DOMAIN made /\ made[p].was = Bytes(p, "shipped")
  BY <1>2 DEF Changed, MadeInv
<1>8. \A p, q, s, u : Bytes(p, s) = Bytes(q, u) => p = q /\ s = u
  BY DEF Bytes
<1> PICK base : base = Entries(payload[MapPath])
  OBVIOUS
<1>9. pins = {<<Bytes(p, "original"), Latest(p)>> : p \in kit.derived}
               \cup {<<Bytes(p, "shipped"), made[p].now>> : p \in Changed \ kit.derived}
  <2> DEFINE next(e) == IF \E p \in Changed : e[2] = made[p].was
                          THEN made[CHOOSE x \in Changed : e[2] = made[x].was].now ELSE e[2]
             der(p) == \E e \in base : e[2] = made[p].was
  <2>1. pins = {<<e[1], next(e)>> : e \in base} \cup {<<made[p].was, made[p].now>> : p \in {x \in Changed : ~der(x)}}
    BY DEF Remap
  <2>2. ASSUME NEW p, NEW e, e = <<Bytes(p, "original"), Bytes(p, "shipped")>> PROVE <<e[1], next(e)>> = <<Bytes(p, "original"), Latest(p)>>
    <3>1. e[1] = Bytes(p, "original") /\ e[2] = Bytes(p, "shipped")
      BY <2>2
    <3>2. \A x \in Changed : e[2] = made[x].was <=> x = p
      BY <1>7, <1>8, <3>1
    <3>3. CASE p \in Changed
      <4>1. (CHOOSE x \in Changed : e[2] = made[x].was) = p
        BY <3>2, <3>3
      <4>2. \E x \in Changed : e[2] = made[x].was
        BY <3>2, <3>3
      <4> QED BY <3>1, <3>3, <4>1, <4>2 DEF Latest
    <3>4. CASE p \notin Changed
      <4>1. ~\E x \in Changed : e[2] = made[x].was
        BY <3>2, <3>4
      <4> QED BY <3>1, <3>4, <4>1 DEF Latest
    <3> QED BY <3>3, <3>4
  <2> HIDE DEF next
  <2>3. {<<e[1], next(e)>> : e \in base} = {<<Bytes(p, "original"), Latest(p)>> : p \in kit.derived}
    <3>1. ASSUME NEW p \in kit.derived PROVE \E e \in base : <<e[1], next(e)>> = <<Bytes(p, "original"), Latest(p)>>
      BY <1>6, <2>2
    <3>2. ASSUME NEW e \in base PROVE \E p \in kit.derived : <<e[1], next(e)>> = <<Bytes(p, "original"), Latest(p)>>
      BY <1>6, <2>2
    <3> QED BY <3>1, <3>2
  <2>4. \A p \in Changed : der(p) <=> p \in kit.derived
    <3> SUFFICES ASSUME NEW p \in Changed PROVE der(p) <=> p \in kit.derived
      OBVIOUS
    <3>1. ASSUME p \in kit.derived PROVE der(p)
      <4> PICK e : e = <<Bytes(p, "original"), Bytes(p, "shipped")>>
        OBVIOUS
      <4>1. e \in base /\ e[2] = Bytes(p, "shipped")
        BY <1>6, <3>1
      <4> QED BY <1>7, <4>1
    <3>2. ASSUME NEW e \in base, e[2] = made[p].was PROVE p \in kit.derived
      <4>1. PICK q \in kit.derived : e = <<Bytes(q, "original"), Bytes(q, "shipped")>>
        BY <1>6
      <4>2. e[2] = Bytes(q, "shipped")
        BY <4>1
      <4>3. Bytes(p, "shipped") = Bytes(q, "shipped")
        BY <1>7, <3>2, <4>2
      <4> QED BY <1>8, <4>3
    <3> QED BY <3>1, <3>2
  <2>5. {x \in Changed : ~der(x)} = Changed \ kit.derived
    BY <2>4
  <2> HIDE DEF der
  <2>6. {<<made[p].was, made[p].now>> : p \in Changed \ kit.derived} = {<<Bytes(p, "shipped"), made[p].now>> : p \in Changed \ kit.derived}
    BY <1>7
  <2> QED BY <2>1, <2>3, <2>5, <2>6
<1>10. Entries(Content("work", MapPath)) = pins
  BY <1>3, <1>5 DEF Entries
<1> QED BY <1>4, <1>5, <1>9, <1>10

(* Where a name leads, whatever was killed before. *)
LEMMA ReadIs ==
  ASSUME RelInv, rphase = "done", Unedited, NEW q \in DOMAIN payload \cup Needed \cup DOMAIN kit.aliases,
         RealOf(q) \notin {MapPath, PinsPath, SealPath}
  PROVE  Read(q) = Want(RealOf(q))
<1>1. given = Needed
  BY ThroughIs
<1>2. Good(RealOf(q), Read(q))
  BY <1>1, NamesAre DEF NamesResolve, Good, Want
<1> QED BY <1>2 DEF Good

(* An input of the other frame is not there at all. *)
LEMMA AbsentIs ==
  ASSUME RelInv, rphase = "done", NEW t \in Range(kit.external) \ Needed
  PROVE  t \notin DOMAIN payload /\ ~Present(t)
<1>1. RelTypes /\ KindInv /\ TreeInv /\ kit \in Kits /\ given = Needed
  BY ThroughIs DEF RelInv, RelTypes
<1>2. /\ Range(kit.required) \subseteq Needed /\ t \in Files(kit) /\ t \in Paths
      /\ t \notin Range(kit.rewrite) \cup Range(kit.copy) \cup kit.plain \cup {MapPath}
  <2>1. Range(kit.required) \subseteq Needed
    BY <1>1, KitIs DEF Needed, Given
  <2>2. /\ (Range(kit.rewrite) \cup Range(kit.copy)) \cap Range(kit.external) = {}
        /\ MapPath \notin Range(kit.external) /\ Named(kit) \subseteq Paths
        /\ kit.plain \cap (Range(kit.external) \ Range(kit.required)) = {}
    BY <1>1, KitIs, KitPins
  <2> QED BY <2>1, <2>2 DEF Files, Named
<1>3. t \notin DOMAIN payload /\ t \notin Sol
  BY <1>1, <1>2, LeafIs DEF Sol
<1>4. /\ ~InPayload(t) /\ t \notin DOMAIN kit.aliases /\ t \notin Range(kit.mirrors)
      /\ DOMAIN kit.aliases \cap Above(t) = {} /\ RealOf(t) = t
  <2>1. /\ Files(kit) \cap (Range(kit.mirrors) \cup DOMAIN kit.aliases) = {} /\ DOMAIN payload \subseteq Files(kit)
        /\ Files(kit) \subseteq Paths /\ \A f \in Files(kit) \cup DOMAIN kit.aliases : \A p \in Files(kit) : f \notin Above(p)
    BY <1>1, KitIs, LeafIs DEF Named, Files
  <2>2. ~InPayload(t)
    <3> SUFFICES ASSUME NEW q \in DOMAIN payload, t = q \/ Under(q, t) PROVE FALSE
      BY DEF InPayload
    <3>1. t \in Above(q)
      BY <1>2, <1>3, <2>1, UnderIsAbove
    <3> QED BY <1>2, <2>1, <3>1
  <2> QED BY <1>1, <1>2, <2>1, <2>2, RealFile
<1>5. NewPath(t) = <<"work", t>>
  BY <1>4 DEF NewPath
<1>6. t \notin DOMAIN work
  <2> SUFFICES ASSUME t \in DOMAIN work PROVE FALSE
    OBVIOUS
  <2>1. Fits(t, work[t]) /\ t \notin Dirs
    BY <1>1, <1>2, NoDir DEF KindInv
  <2> QED BY <1>2, <1>3, <1>4, <2>1 DEF Fits
<1>7. Find(t) \in {<<"work", t>>, <<"payload", t>>}
  <2>1. CASE \A a \in Above(t) \cup {t} : ~IsLink(a)
    BY <2>1, FindAt
  <2>2. CASE \E a \in Above(t) \cup {t} : IsLink(a)
    <3>1. DOMAIN kit.aliases \cap (Above(t) \cup {t}) = {}
      BY <1>4
    <3>2. PICK a \in Above(t) \cup {t} : IsLink(a)
      BY <2>2
    <3> QED BY <1>1, <1>2, <3>1, <3>2, FindThrough
  <2> QED BY <2>1, <2>2
<1>8. Content("work", t) = Bytes(t, "missing")
  <2>1. Node(t).is = "nothing"
    BY <1>6 DEF Node
  <2>2. In(<<"work", t>>, t) = Bytes(t, "missing")
    <3>1. <<"work", t>>[1] = "work" /\ <<"work", t>>[2] = t
      OBVIOUS
    <3> QED BY <2>1, <3>1 DEF In
  <2>3. In(<<"payload", t>>, t) = Bytes(t, "missing")
    <3>1. <<"payload", t>>[1] = "payload" /\ <<"payload", t>>[2] = t
      OBVIOUS
    <3> QED BY <1>3, <3>1 DEF In
  <2> QED BY <1>7, <2>2, <2>3, ContentIs
<1>9. Read(t) = Bytes(t, "missing")
  <2>1. NewPath(t)[1] = "work" /\ NewPath(t)[2] = t
    BY <1>5
  <2> QED BY <1>8, <2>1 DEF Read
<1> QED BY <1>3, <1>9 DEF Present, Bytes

(* A file of the payload that nobody supplies is accepted where the frozen *)
(* bytes are pinned, and, if nobody rewrites it, where the shipped ones    *)
(* are.                                                                    *)
LEMMA FrozenAccepted ==
  ASSUME RelInv, PinInv, rphase = "done", NEW t \in DOMAIN payload \ Needed
  PROVE  /\ Accepts(Bytes(t, Frozen(t)), Want(t))
         /\ t \notin Range(kit.rewrite) => Want(t) = Bytes(t, "shipped")
<1>1. /\ given = Needed /\ MadeInv /\ DOMAIN made \subseteq Range(kit.rewrite)
      /\ Entries(Content("work", MapPath)) =
           {<<Bytes(p, "original"), Latest(p)>> : p \in kit.derived}
             \cup {<<Bytes(p, "shipped"), made[p].now>> : p \in Changed \ kit.derived}
  BY ThroughIs, MapWritten DEF PinInv, MadeInv
<1>2. Want(t) = Latest(t)
  <2>1. CASE t \in DOMAIN made
    <3>1. made[t].was = Bytes(t, "shipped") /\ Want(t) = made[t].now
      BY <1>1, <2>1 DEF MadeInv, Want
    <3> QED BY <2>1, <3>1 DEF Latest, Changed
  <2>2. CASE t \notin DOMAIN made
    BY <1>1, <2>2 DEF Want, Latest, Changed
  <2> QED BY <2>1, <2>2
<1>3. Accepts(Bytes(t, Frozen(t)), Want(t))
  <2>1. CASE t \in kit.derived
    BY <1>1, <1>2, <2>1 DEF Accepts, Frozen
  <2>2. CASE t \notin kit.derived /\ t \in Changed
    <3>1. Want(t) = made[t].now /\ Frozen(t) = "shipped"
      BY <1>2, <2>2 DEF Latest, Frozen
    <3> QED BY <1>1, <2>2, <3>1 DEF Accepts
  <2>3. CASE t \notin kit.derived /\ t \notin Changed
    BY <1>2, <2>3 DEF Accepts, Frozen, Latest
  <2> QED BY <2>1, <2>2, <2>3
<1>4. t \notin Range(kit.rewrite) => Want(t) = Bytes(t, "shipped")
  BY <1>1 DEF Want
<1> QED BY <1>3, <1>4

(* A record that was rewritten, or left alone, accepts what is read.       *)
LEMMA RecordAccepted ==
  ASSUME RelInv, PinInv, rphase = "done", Unedited, NEW p \in Range(kit.rewrite), NEW new, Pin(p, new),
         new[1] \notin {MapPath, PinsPath}, Present(new[1])
  PROVE  Accepts(new[2], Read(new[1]))
<1>1. kit \in Kits /\ RelTypes /\ given = Needed /\ DOMAIN made \subseteq Range(kit.rewrite)
  BY ThroughIs DEF RelInv, RelTypes
<1> PICK rec \in kit.records[p] : LET t == Target(kit, rec[1]) IN
      /\ new[1] = rec[1]
      /\ \/ t \in DOMAIN made /\ new[2] = made[t].now
         \/ new[2] = Bytes(t, rec[2]) /\ (t \in Range(kit.rewrite) => p \in Reach[t])
  BY DEF Pin
<1> PICK t : t = Target(kit, rec[1])
  OBVIOUS
<1>2. /\ new[1] = rec[1]
      /\ \/ t \in DOMAIN made /\ new[2] = made[t].now
         \/ new[2] = Bytes(t, rec[2]) /\ (t \in Range(kit.rewrite) => p \in Reach[t])
  OBVIOUS
<1>3. /\ rec[1] \in Files(kit) \cup DOMAIN kit.aliases
      /\ rec[2] \in IF t \in Range(kit.external) THEN {"supplied"}
                    ELSE IF t \in kit.derived THEN {"shipped", "original"} ELSE {"shipped"}
      /\ t \notin {MapPath, PinsPath, SealPath} /\ RealOf(rec[1]) = t /\ t \in Files(kit)
  <2>1. /\ rec[1] \in Files(kit) \cup DOMAIN kit.aliases
        /\ rec[2] \in IF t \in Range(kit.external) THEN {"supplied"}
                      ELSE IF t \in kit.derived THEN {"shipped", "original"} ELSE {"shipped"}
        /\ t # SealPath /\ (t \in {MapPath, PinsPath} => rec[1] = t) /\ RealOf(rec[1]) = t /\ t \in Files(kit)
    BY <1>1, KitPins
  <2> QED BY <1>2, <2>1
<1>4. /\ Needed \subseteq Range(kit.external) /\ Range(kit.rewrite) \cap Needed = {}
      /\ DOMAIN payload = Range(kit.rewrite) \cup Range(kit.copy) \cup kit.plain \cup {MapPath}
      /\ Range(kit.required) \subseteq Needed
  <2>1. Range(kit.required) \subseteq Needed
    BY <1>1, KitIs DEF Needed, Given
  <2> QED BY <1>1, <2>1, LeafIs
<1>5. rec[1] = t \/ rec[1] \in DOMAIN kit.aliases
  BY DEF Target
<1>6. ASSUME t \in DOMAIN payload \cup Needed PROVE Read(new[1]) = Want(t)
  <2>1. rec[1] \in DOMAIN payload \cup Needed \cup DOMAIN kit.aliases
    BY <1>5, <1>6
  <2> QED BY <1>2, <1>3, <2>1, ReadIs
<1>7. CASE t \in DOMAIN made /\ new[2] = made[t].now
  <2>1. t \in DOMAIN payload /\ t \notin Needed
    BY <1>1, <1>4, <1>7
  <2>2. Want(t) = made[t].now
    BY <1>1, <1>7, <2>1 DEF Want
  <2> QED BY <1>6, <1>7, <2>1, <2>2 DEF Accepts
<1>8. CASE new[2] = Bytes(t, rec[2]) /\ (t \in Range(kit.rewrite) => p \in Reach[t])
  <2>1. CASE t \in Needed
    <3>1. rec[2] = "supplied" /\ Want(t) = Bytes(t, "supplied")
      BY <1>1, <1>3, <1>4, <2>1 DEF Want
    <3> QED BY <1>6, <1>8, <2>1, <3>1 DEF Accepts
  <2>2. CASE t \in Range(kit.external) \ Needed
    <3>1. rec[1] = t
      <4>1. \A a \in DOMAIN kit.aliases : kit.aliases[a] \notin Range(kit.external) \ Range(kit.required)
        BY <1>1, KitIs
      <4>2. rec[1] \in DOMAIN kit.aliases => t = kit.aliases[rec[1]]
        BY DEF Target
      <4> QED BY <1>4, <1>5, <2>2, <4>1, <4>2
    <3> QED BY <1>2, <2>2, <3>1, AbsentIs
  <2>3. CASE t \notin Range(kit.external)
    <3>1. t \in DOMAIN payload \ Needed
      BY <1>3, <1>4, <2>3 DEF Files
    <3>2. Accepts(Bytes(t, Frozen(t)), Want(t)) /\ (t \notin Range(kit.rewrite) => Want(t) = Bytes(t, "shipped"))
      BY <3>1, FrozenAccepted
    <3>3. CASE rec[2] = Frozen(t)
      BY <1>6, <1>8, <3>1, <3>2, <3>3
    <3>4. CASE rec[2] # Frozen(t)
      <4>1. t \in kit.derived /\ rec[2] = "shipped"
        BY <1>3, <2>3, <3>4 DEF Frozen
      <4>2. t \notin Range(kit.rewrite)
        <5> SUFFICES ASSUME t \in Range(kit.rewrite) PROVE FALSE
          OBVIOUS
        <5>1. t \in Pinned(kit, p) /\ p \in Reach[t]
          BY <1>8 DEF Pinned
        <5>2. PinOrder(kit, Reach)
          BY <1>1, KitPins
        <5> QED BY <4>1, <5>1, <5>2 DEF PinOrder
      <4> QED BY <1>6, <1>8, <3>1, <3>2, <4>1, <4>2 DEF Accepts
    <3> QED BY <3>3, <3>4
  <2> QED BY <2>1, <2>2, <2>3
<1> QED BY <1>2, <1>7, <1>8

(* The two generated files and the seal are read below work. *)
LEMMA GeneratedRead ==
  ASSUME RelInv, PinInv, rphase = "done"
  PROVE  /\ \A q \in {MapPath, PinsPath} : Read(q) = work[q].data
         /\ SealMade /\ Read(SealPath) = work[SealPath].data
<1>1. RelTypes /\ TreeInv /\ SealMade
  BY DEF RelInv, PinInv, LateInv
<1>2. /\ {MapPath, PinsPath, SealPath} \subseteq Sol \cup {MapPath}
      /\ {MapPath, PinsPath, SealPath} \subseteq DOMAIN payload
  BY <1>1, LeafIs DEF Sol
<1>3. \A q \in {MapPath, PinsPath, SealPath} : NewPath(q)[1] = "work" /\ NewPath(q)[2] = q
  <2> SUFFICES ASSUME NEW q \in {MapPath, PinsPath, SealPath} PROVE NewPath(q)[1] = "work" /\ NewPath(q)[2] = q
    OBVIOUS
  <2>1. NewPath(q) = <<"work", q>>
    BY <1>2, PlaceIs DEF Place
  <2> QED BY <2>1
<1>4. \A q \in {MapPath, PinsPath} : Content("work", q) = work[q].data
  BY MapWritten
<1>5. Content("work", SealPath) = work[SealPath].data
  <2>1. SealPath \in DOMAIN work /\ work[SealPath].is = "file"
    BY <1>1 DEF SealMade, FileAt
  <2> QED BY <1>1, <1>2, <2>1, SeenIs
<1> QED BY <1>1, <1>3, <1>4, <1>5 DEF Read

(* Every record of a relocated file. *)
LEMMA RecordsAccepted ==
  ASSUME RelInv, PinInv, rphase = "done", Unedited, NEW p \in Range(kit.rewrite), NEW new \in Records(Read(p)),
         Present(new[1])
  PROVE  Accepts(new[2], Read(new[1]))
<1>1. RelTypes /\ kit \in Kits /\ p \in DOMAIN payload /\ p \in DOMAIN made /\ MadeInv /\ PinsIn(p, made[p].now)
      /\ p \notin Needed /\ p \notin {MapPath, PinsPath} /\ RealOf(p) = p /\ given = Needed
  <2>1. RelTypes /\ kit \in Kits /\ p \in DOMAIN made /\ MadeInv /\ given = Needed
    BY ThroughIs DEF RelInv, RelTypes, PinInv
  <2>2. p \in DOMAIN payload /\ p \notin Needed /\ p \notin {MapPath, PinsPath} /\ p \in Files(kit)
    BY <2>1, LeafIs DEF Files
  <2> QED BY <2>1, <2>2, RealFile DEF MadeInv
<1> PICK now : now = made[p].now
  OBVIOUS
<1>2. kit.records[p] # {}
  <2> SUFFICES ASSUME kit.records[p] = {} PROVE FALSE
    OBVIOUS
  <2>1. now = Bytes(p, "shipped")
    BY <1>1 DEF PinsIn
  <2>2. Read(p).state = "shipped" /\ Read(p).file = p
    <3>1. CASE p # SealPath
      <4>1. Read(p) = now
        BY <1>1, <3>1, ReadIs DEF Want
      <4> QED BY <2>1, <4>1 DEF Bytes
    <3>2. CASE p = SealPath
      <4> PICK pins : pins = {Renewed(rec) : rec \in now.pins}
        OBVIOUS
      <4>1. Read(p) = [now EXCEPT !.pins = pins]
        BY <3>2, GeneratedRead DEF SealMade, FileAt
      <4> QED BY <2>1, <4>1 DEF Bytes
    <3> QED BY <3>1, <3>2
  <2>3. Records(Read(p)) = {}
    BY <2>2 DEF Records
  <2> QED BY <2>3
<1>3. now = [file |-> p, state |-> "relocated", pins |-> now.pins] /\ \A x \in now.pins : Pin(p, x)
  BY <1>1, <1>2 DEF PinsIn
<1>4. CASE p # SealPath
  <2>1. Read(p) = now
    BY <1>1, <1>4, ReadIs DEF Want
  <2>2. now.state = "relocated"
    BY <1>3
  <2>3. new \in now.pins
    BY <2>1, <2>2 DEF Records
  <2>4. Pin(p, new)
    BY <1>3, <2>3
  <2>5. new[1] \notin {MapPath, PinsPath}
    <3>1. PICK rec \in kit.records[p] : new[1] = rec[1]
      BY <2>4 DEF Pin
    <3> SUFFICES ASSUME new[1] \in {MapPath, PinsPath} PROVE FALSE
      OBVIOUS
    <3>2. rec[1] \notin DOMAIN kit.aliases
      BY <1>1, <3>1, LeafIs DEF Files
    <3>3. Target(kit, rec[1]) = rec[1]
      BY <3>2 DEF Target
    <3> QED BY <1>1, <1>4, <3>1, <3>3, KitPins
  <2> QED BY <2>4, <2>5, RecordAccepted
<1>5. CASE p = SealPath
  <2> PICK pins : pins = {Renewed(rec) : rec \in now.pins}
    OBVIOUS
  <2>1. Read(p) = [now EXCEPT !.pins = pins]
    BY <1>5, GeneratedRead DEF SealMade, FileAt
  <2>2. Read(p).state = "relocated" /\ Read(p).pins = pins
    BY <1>3, <2>1
  <2>3. PICK r \in now.pins : new = Renewed(r)
    BY <2>2 DEF Records
  <2>4. Pin(p, r)
    BY <1>3
  <2>5. CASE r[1] \in {MapPath, PinsPath}
    <3>1. new = <<r[1], work[r[1]].data>>
      BY <2>3, <2>5 DEF Renewed
    <3>2. new[1] = r[1] /\ new[2] = work[r[1]].data
      BY <3>1
    <3> QED BY <2>5, <3>2, GeneratedRead DEF Accepts
  <2>6. CASE r[1] \notin {MapPath, PinsPath}
    <3>1. new = r
      BY <2>3, <2>6 DEF Renewed
    <3> QED BY <2>4, <2>6, <3>1, RecordAccepted
  <2> QED BY <2>5, <2>6
<1> QED BY <1>4, <1>5

(* So every pin accepts the file it finds. *)
LEMMA PinsAre == RelInv /\ PinInv => EveryPinAccepted
<1> SUFFICES ASSUME RelInv, PinInv, rphase = "done", Unedited
             PROVE  /\ Records(Content("work", PinsPath)) = {<<MapPath, Content("work", MapPath)>>}
                    /\ \A e, f \in Entries(Content("work", MapPath)) : e[1] = f[1] => e = f
                    /\ \A p \in Range(kit.rewrite) : \A rec \in Records(Read(p)) :
                         Present(rec[1]) => Accepts(rec[2], Read(rec[1]))
                    /\ \A p \in kit.code : Accepts(Sealed(p), Read(p))
  BY DEF EveryPinAccepted
<1>1. /\ Content("work", MapPath) = work[MapPath].data
      /\ Content("work", PinsPath).state = "relocated"
      /\ Content("work", PinsPath).pins = {<<MapPath, work[MapPath].data>>}
      /\ Entries(Content("work", MapPath)) =
           {<<Bytes(p, "original"), Latest(p)>> : p \in kit.derived}
             \cup {<<Bytes(p, "shipped"), made[p].now>> : p \in Changed \ kit.derived}
  BY MapWritten
<1>2. Records(Content("work", PinsPath)) = {<<MapPath, Content("work", MapPath)>>}
  BY <1>1 DEF Records
<1>3. ASSUME NEW e \in Entries(Content("work", MapPath)), NEW f \in Entries(Content("work", MapPath)), e[1] = f[1]
      PROVE  e = f
  <2>1. \A p, q, s, u : Bytes(p, s) = Bytes(q, u) => p = q /\ s = u
    BY DEF Bytes
  <2>2. ASSUME NEW x \in Entries(Content("work", MapPath))
        PROVE  \E p : \/ p \in kit.derived /\ x[1] = Bytes(p, "original") /\ x = <<x[1], Latest(p)>>
                      \/ p \notin kit.derived /\ x[1] = Bytes(p, "shipped") /\ x = <<x[1], made[p].now>>
    <3>1. CASE x \in {<<Bytes(p, "original"), Latest(p)>> : p \in kit.derived}
      <4>1. PICK p \in kit.derived : x = <<Bytes(p, "original"), Latest(p)>>
        BY <3>1
      <4> QED BY <4>1
    <3>2. CASE x \in {<<Bytes(p, "shipped"), made[p].now>> : p \in Changed \ kit.derived}
      <4>1. PICK p \in Changed \ kit.derived : x = <<Bytes(p, "shipped"), made[p].now>>
        BY <3>2
      <4> QED BY <4>1
    <3> QED BY <1>1, <3>1, <3>2
  <2>3. PICK p : \/ p \in kit.derived /\ e[1] = Bytes(p, "original") /\ e = <<e[1], Latest(p)>>
                 \/ p \notin kit.derived /\ e[1] = Bytes(p, "shipped") /\ e = <<e[1], made[p].now>>
    BY <2>2
  <2>4. PICK q : \/ q \in kit.derived /\ f[1] = Bytes(q, "original") /\ f = <<f[1], Latest(q)>>
                 \/ q \notin kit.derived /\ f[1] = Bytes(q, "shipped") /\ f = <<f[1], made[q].now>>
    BY <2>2
  <2>5. p = q
    BY <1>3, <2>1, <2>3, <2>4
  <2> QED BY <1>3, <2>3, <2>4, <2>5
<1>4. ASSUME NEW p \in kit.code PROVE Accepts(Sealed(p), Read(p))
  <2>1. RelTypes /\ kit \in Kits
    BY DEF RelInv, RelTypes
  <2>2. /\ p \in (Range(kit.rewrite) \cup Range(kit.copy) \cup kit.plain) \ (Range(kit.external) \cup {PinsPath, SealPath, MapPath})
        /\ Needed \subseteq Range(kit.external)
        /\ DOMAIN payload = Range(kit.rewrite) \cup Range(kit.copy) \cup kit.plain \cup {MapPath}
    BY <1>4, <2>1, KitPins, LeafIs
  <2>3. p \in DOMAIN payload \ Needed /\ p \notin {MapPath, PinsPath, SealPath} /\ RealOf(p) = p
    BY <2>1, <2>2, RealFile DEF Files
  <2>4. Read(p) = Want(p)
    BY <2>3, ReadIs
  <2>5. Sealed(p) = Bytes(p, Frozen(p))
    BY DEF Sealed, Frozen
  <2> QED BY <2>3, <2>4, <2>5, FrozenAccepted
<1> QED BY <1>2, <1>3, <1>4, RecordsAccepted

(* Every pin the loaders may check accepts the file it now finds, whatever *)
(* was killed and rerun before: the records of the relocated files, those  *)
(* that pin one another included, the constants in sources nobody          *)
(* rewrites, the map's own pin and the seal's pins (relocate.py, run, and  *)
(* derived_pins.py).                                                       *)
THEOREM PinsAccepted == DSpec => []EveryPinAccepted
<1>1. DInit => RelInv /\ PinInv
  <2> SUFFICES ASSUME DInit PROVE PinInv
    BY RelStarts
  <2>1. todo = <<>> /\ made = <<>> /\ rphase = "idle"
    BY DEF DInit, RInit
  <2>2. DOMAIN made = {} /\ DOMAIN todo = {} /\ ~Ran
    BY <2>1 DEF Ran
  <2> QED BY <2>1, <2>2 DEF PinInv, Stacked, MadeInv, LateInv, Over
<1>2. RelInv /\ PinInv /\ [DNext]_dvars => (RelInv /\ PinInv)'
  BY RelHolds, PinsHold
<1>3. RelInv /\ PinInv => EveryPinAccepted
  BY PinsAre
<1> QED BY <1>1, <1>2, <1>3, PTL DEF DSpec

===============================================================================
