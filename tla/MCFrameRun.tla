------------------------------ MODULE MCFrameRun ------------------------------
(***************************************************************************)
(* Three kinds of sessions: one launch of every small role layout, called  *)
(* twice; the two static pools once; three calls of four launches in three *)
(* frames of which two launches have the same parameters throughout.       *)
(***************************************************************************)
EXTENDS FrameRun

MCFrame  == 0 .. 2
MCLaunch == {"L3", "L26", "L58", "L100", "L155"}
MCOwner  == ("L3" :> "tin" @@ "L26" :> "split16" @@ "L58" :> "vit" @@ "L100" :> "entry" @@ "L155" :> "outtail")
MCParam  == [f \in MCFrame |-> [l \in MCLaunch |-> IF l \in {"L3", "L155"} THEN f ELSE 0]]
MCModules == <<"entry", "tin", "split16", "outtail">>

Role(p, k) == [ptr |-> p, len |-> k, ok |-> TRUE]
Program(f, i, o, z, r) == [family |-> f, pool |-> FALSE, ins |-> i, outs |-> o, zstore |-> z, rels |-> r]

Ins  == {<<Role(Base, 2)>>, <<Role(Base + 1, 1), Role(Base, 1)>>, <<Role(Base - 1, 1)>>}
Outs == {Role(Base + i, k) : i \in 0 .. Size, k \in 1 .. 2}
          \cup {Role(Base, Word - 1), [Role(Base + 1, 1) EXCEPT !.ok = FALSE]}
Rels == {<<>>, <<Role(Base + 1, 1)>>, <<Role(Word - 1, 1)>>}

Layouts == {Program(f, i, <<a, b>>, <<>>, r) : f \in {"split16", "tin", "entry"}, i \in Ins, a \in Outs, b \in Outs, r \in Rels}
           \cup {Program("vit", i, <<a, b>>, z, <<>>) : i \in Ins, a \in Outs \cup {Role(Base, 3)}, b \in Outs, z \in {<<>>, <<0, 1>>, <<1, 0>>}}
Plain   == Program("split16", <<Role(Base, 1)>>, <<Role(Base + 1, 1)>>, <<>>, <<>>)
Pooled  == {[Plain EXCEPT !.family = "vit", !.pool = TRUE],
            [Plain EXCEPT !.family = "outtail", !.pool = TRUE, !.outs = <<>>]}

LaunchFor(f) == CHOOSE l \in MCLaunch : MCOwner[l] = f

MCSessions ==
  {[pool |-> FALSE, calls |-> 2, frames |-> {0}, progs |-> (LaunchFor(p.family) :> p)] : p \in Layouts}
  \cup {[pool |-> TRUE, calls |-> 1, frames |-> {0}, progs |-> (LaunchFor(p.family) :> p)] : p \in Pooled}
  \cup {[pool |-> FALSE, calls |-> 3, frames |-> MCFrame, progs |-> [l \in MCLaunch \ {"L100"} |-> Plain]]}
=============================================================================
