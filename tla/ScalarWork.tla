------------------------------ MODULE ScalarWork ------------------------------
(***************************************************************************)
(* The scalar work of the executors: the launches whose tasks add up halves *)
(* in a shared buffer, and the rows, pixels and halves that one task passes *)
(* through a second form of the same arithmetic.  Neither reads the other's *)
(* state, so a behaviour follows one of them and leaves the other idle.     *)
(***************************************************************************)
EXTENDS StagedReduce, ScalarTwins

VARIABLE follows  \* the one followed

wvars == <<follows, rvars, vars>>

NoLaunch ==
  /\ launch = [admitted |-> FALSE] /\ rev = FALSE /\ main = "idle" /\ failed = FALSE
  /\ round = 0 /\ left = {} /\ cta = <<>> /\ turn = <<>> /\ pos = <<>> /\ micro = <<>> /\ reg = <<>>
  /\ acc = <<>> /\ written = <<>> /\ cover = <<>> /\ red = <<>> /\ buffer = <<>> /\ output = <<>>
NoJob ==
  /\ job = [kind |-> "none"] /\ at = "done" /\ error = None
  /\ row = <<>> /\ cached = <<>> /\ k = 0 /\ total = <<>> /\ sums = <<>> /\ codes = <<>>

WInit == \/ follows = "launch" /\ RInit /\ NoJob
         \/ follows = "job" /\ SInit /\ NoLaunch
WNext == /\ UNCHANGED follows
         /\ \/ follows = "launch" /\ RNext /\ UNCHANGED vars
            \/ follows = "job" /\ SNext /\ UNCHANGED rvars
WSpec == WInit /\ [][WNext]_wvars
===============================================================================
