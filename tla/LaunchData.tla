------------------------------ MODULE LaunchData ------------------------------
(***************************************************************************)
(* What a launch works with besides its tasks: the tail's registry of raw  *)
(* tables, the compact noise tables, the templates of ffn_contract, the    *)
(* allocation counters of the module, the byte layouts the executors hand  *)
(* on to one another and the windows they cut an image into.  None of them *)
(* reads another one's state, so a behaviour follows one of them and       *)
(* leaves the rest idle.                                                   *)
(***************************************************************************)
EXTENDS ReachRegistry, AllocCounters, CompactNoise, ContractTemplates,
        TokenLayouts, TokenWindows

VARIABLE part  \* the one followed

lvars == <<part, vars, avars, nvars, tvars, layout, image>>

Idle(P, I, none) == (part = P /\ I) \/ (part # P /\ none)

LDInit ==
  /\ part \in {"registry", "counters", "noise", "templates", "layout", "windows"}
  /\ Init /\ AInit
  /\ Idle("noise", NInit, file = <<>> /\ checked = 0 /\ cursor = 0 /\ verdict = "none")
  /\ Idle("templates", TInit,
          /\ given = [rows |-> 1] /\ band = 0 /\ reverse = FALSE /\ place = <<>> /\ tile = <<>>
          /\ written = {} /\ covered = {} /\ mixed = FALSE /\ verdictOf = "none")
  /\ Idle("layout", LInit, layout = [of |-> "none"])
  /\ Idle("windows", WInit, image = [by |-> "none", W |-> 1, H |-> 1])

LDNext == /\ UNCHANGED <<part, layout, image>>
          /\ \/ part = "registry" /\ Next /\ UNCHANGED <<avars, nvars, tvars>>
             \/ part = "counters" /\ ANext /\ UNCHANGED <<vars, nvars, tvars>>
             \/ part = "noise" /\ NNext /\ UNCHANGED <<vars, avars, tvars>>
             \/ part = "templates" /\ TNext /\ UNCHANGED <<vars, avars, nvars>>

LDSpec == LDInit /\ [][LDNext]_lvars
===============================================================================
