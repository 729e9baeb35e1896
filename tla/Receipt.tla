-------------------------------- MODULE Receipt --------------------------------
(***************************************************************************)
(* compare of run_1080_f0.py, which both drivers call: it checks a receipt *)
(* of rows against the reference table.  A row is abstracted to its launch *)
(* number; bad is the set of launches whose hashes differ from the table,  *)
(* with Last + 1 for the final image.                                      *)
(***************************************************************************)
EXTENDS Naturals, Sequences, FiniteSets

CONSTANT Last  \* the last launch of a frame, 157 in the code

ASSUME LastAssumption == Last \in Nat

Frames   == {0, 1}
Launches == 0 .. Last

(* 4 for an incomplete receipt: not exactly the launches 0 .. stop in this *)
(* order, or another number in result.json; 2 for a launch that differs;   *)
(* 3 for the final image, which only a full run has.                       *)
CompareReceipt(seen, bad, launches, stop) ==
  IF seen # [i \in 1 .. stop + 1 |-> i - 1] \/ launches # stop + 1 THEN 4
  ELSE IF \E l \in 0 .. stop : l \in bad THEN 2
  ELSE IF stop >= Last /\ Last + 1 \in bad THEN 3 ELSE 0
===============================================================================
