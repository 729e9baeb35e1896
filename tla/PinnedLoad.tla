------------------------------ MODULE PinnedLoad ------------------------------
(***************************************************************************)
(* How a file of the relocated tree is read against its pin, while the     *)
(* user may edit the file in place (an installed input is a hard link to   *)
(* the user's own file).  The readers of the code differ in what they      *)
(* check and in which order:                                               *)
(*   "once"    verified of bridge.py: the bytes read are the bytes hashed; *)
(*   "pinned"  pinned_file of entry_assets.py: stat, hash, read, stat;     *)
(*   "narrow"  read_narrow of g0b_maps.py: stat, hash, read and hash the   *)
(*             members, stat;                                              *)
(*   "keyed"   load of plan_runtime_merged.py: hash, read, and the plan    *)
(*             key over what was read;                                     *)
(*   "twice"   verified of devkit_worker.py: hash, then read;              *)
(*   "module"  module of identity.py and bridge.py: hash, execute, hash.   *)
(***************************************************************************)
EXTENDS Relocate

VARIABLE reader  \* [path, left, stamp, data, ok]: left is what it still does

Styles == {"once", "pinned", "narrow", "keyed", "twice", "module"}
Order(style) == CASE style = "once"   -> <<"read", "check">>
                  [] style = "pinned" -> <<"stat", "hash", "read", "restat">>
                  [] style = "narrow" -> <<"stat", "hash", "read", "check", "restat">>
                  [] style = "keyed"  -> <<"hash", "read", "check">>
                  [] style = "twice"  -> <<"hash", "read">>
                  [] style = "module" -> <<"hash", "read", "hash">>

NoReader == [style |-> "none", path |-> <<>>, left |-> <<>>, stamp |-> 0,
             data |-> Bytes(<<>>, "missing"), ok |-> FALSE]
Open(style, p) ==
  reader' = [NoReader EXCEPT !.style = style, !.path = p, !.left = Order(style), !.ok = TRUE]

Data  == Read(reader.path)
(* The user's file has one time stamp, a copy keeps its own. *)
Stamp == IF Node(reader.path).is = "hard" THEN user[reader.path].stamp ELSE 0

Does(op)   == reader.left # <<>> /\ Head(reader.left) = op
Onward(r)   == [r EXCEPT !.left = Tail(@)]
Refuse(r)  == [r EXCEPT !.left = <<>>, !.ok = FALSE]
Expected   == Bytes(reader.path, "supplied")
Verify(d)  == IF Accepts(Expected, d) THEN Onward(reader) ELSE Refuse(reader)

Stat   == Does("stat") /\ reader' = [Onward(reader) EXCEPT !.stamp = Stamp]
Hash   == Does("hash") /\ reader' = Verify(Data)
Take   == Does("read") /\ reader' = [Onward(reader) EXCEPT !.data = Data]
Check  == Does("check") /\ reader' = Verify(reader.data)
Restat_Skipped == Does("restat") /\ reader' = Onward(reader)
(* ENTRY_ASSET_CHANGED_DURING_LOAD, NARROW_MAP_CHANGED *)
Restat == Does("restat") /\ reader' = IF Stamp = reader.stamp THEN Onward(reader) ELSE Refuse(reader)
LoadStep == Stat \/ Hash \/ Take \/ Check \/ Restat

Loaded == reader.ok /\ reader.left = <<>>

(* What a load hands on are the bytes the pin names, although the file may *)
(* be edited, and edited back, between any two accesses; the readers that  *)
(* hash the file but not what they read, nor look at its time stamp, do    *)
(* not promise it.                                                         *)
LoadedIsPinned == Loaded /\ reader.style \notin {"twice", "module"} => Accepts(Expected, reader.data)
===============================================================================
