------------------------------- MODULE LaunchIO -------------------------------
(***************************************************************************)
(* How one native launch reads and writes the workspace, a bytearray the   *)
(* caller owns.  The owners follow one plan, told by a program of roles:   *)
(* read the inputs, compute into private memory, copy the outputs back     *)
(* role by role, zero the release words, report what was written.          *)
(* They differ in what is checked before the work and what only when its   *)
(* turn comes: tin checks its first output early, every other output of    *)
(* every owner is checked after the computation and after the roles before *)
(* it were written.  outtail writes textures and nothing of the workspace. *)
(*                                                                         *)
(* An input counts as read where its range is checked.  L100 of entry and  *)
(* L155 read through a pointer until the computation ends, and nothing     *)
(* else writes the cells meanwhile.                                        *)
(*                                                                         *)
(* A cell is the unit of the smallest role.  A role is [ptr, len, ok]:     *)
(* ptr and len are machine words, ok is whatever else the role is refused  *)
(* for (a result of the wrong size, a pooled size that does not divide).   *)
(* Computed bytes are told apart by their role, their place, and the       *)
(* inputs they were computed from.                                         *)
(***************************************************************************)
EXTENDS Integers, FiniteSets, SequencesExt

CONSTANTS Size,  \* cells of the workspace
          Base,  \* its device address
          Word   \* 2^64, scaled down

\* geo2::configure refuses a workspace that ends at or past the last address.
ASSUME IOAssumption == /\ Size \in Nat \ {0} /\ Base \in Nat \ {0} /\ Word \in Nat
                       /\ Base <= Word - 1 - Size

VARIABLES ws,     \* the cells
          size,   \* the current length of the bytearray
          prog,   \* the roles of the launch that runs
          io,     \* where the launch is
          role,   \* the next role to read, then the next piece to write
          snap,   \* the inputs copied so far
          wrote,  \* written_ranges
          moved,  \* the bytearray was resized under the launch
          wild,   \* history: a native access left the bytearray
          before  \* history: the cells when the launch began

iovars == <<ws, size, prog, io, role, snap, wrote, moved, wild, before>>

Idle == [family |-> "none", pool |-> FALSE, ins |-> <<>>, outs |-> <<>>, zstore |-> <<>>, rels |-> <<>>]

Old(c)  == [out |-> -1, cell |-> c, of |-> <<>>]
Zero    == [out |-> 0, cell |-> 0, of |-> <<>>]

IOInit == /\ ws = [c \in 0 .. Size - 1 |-> Old(c)]
          /\ size = Size
          /\ prog = Idle /\ io = "out" /\ role = 1
          /\ snap = <<>> /\ wrote = <<>>
          /\ moved = FALSE /\ wild = FALSE
          /\ before = ws

-----------------------------------------------------------------------------
(* ptr<base || ptr-base>n || len>n-(ptr-base), in unsigned words: no sum   *)
(* that could wrap is formed.                                              *)
InSpan(r)     == r.ptr >= Base /\ r.ptr - Base <= size /\ r.len <= size - (r.ptr - Base)
(* The same question in the integers of Python. *)
InRange(r)    == LET off == r.ptr - Base IN off >= 0 /\ r.len >= 0 /\ off + r.len <= size
Fits(r)       == IF prog.family = "vit" THEN InRange(r) ELSE InSpan(r)

Cells(r)       == {((r.ptr - Base) % Word) + k : k \in 0 .. r.len - 1}
Contents(w, r) == [c \in Cells(r) \cap DOMAIN w |-> w[c]]
(* C++ keeps the address and length it took on entry; Python asks again.   *)
Stray(r) == prog.family # "vit" /\ (moved \/ ~(Cells(r) \subseteq 0 .. size - 1))

(* What is written, in order: the outputs, for the padded adapter the four *)
(* zero bytes of each zstore right after the first output, the releases.   *)
(* A role is reported as it is written; the zstores are reported together, *)
(* after the last, as one range from the lowest on (tells).                *)
Extent(r)    == [off |-> r.ptr - Base, bytes |-> r.len]
Piece(r, j)  == [ptr |-> r.ptr, len |-> r.len, ok |-> r.ok, out |-> j, tells |-> <<Extent(r)>>]
ZStores(p)   == LET first == p.outs[1]
                    least == Min(ToSet(p.zstore))
                IN  [j \in 1 .. Len(p.zstore) |->
                       [ptr |-> first.ptr + p.zstore[j], len |-> 1, out |-> 0,
                        ok |-> p.zstore[j] + 1 <= first.len,
                        tells |-> IF j < Len(p.zstore) THEN <<>>
                                  ELSE <<[off |-> first.ptr - Base + least, bytes |-> Len(p.zstore)]>>]]
Pieces(p)    == LET outs == [j \in 1 .. Len(p.outs) |-> Piece(p.outs[j], j)]
                    rels == [j \in 1 .. Len(p.rels) |-> Piece(p.rels[j], 0)]
                IN  IF p.zstore = <<>> THEN outs \o rels
                    ELSE <<outs[1]>> \o ZStores(p) \o Tail(outs) \o rels
Stamp(p, c, s)   == IF p.out = 0 THEN Zero ELSE [out |-> p.out, cell |-> c, of |-> s]
Overlay(w, p, s) == [c \in DOMAIN w |-> IF c \in Cells(p) THEN Stamp(p, c, s) ELSE w[c]]

(* The lengths cannot change while a view of the bytearray exists: tin and *)
(* entry hold one, backend_abi holds one for every native owner, and the   *)
(* ViT adapter runs without.                                               *)
Pinned_OwnOnly(p) == p.family \in {"tin", "entry"}
Pinned(p)         == p.family # "vit"

-----------------------------------------------------------------------------
Enter(p) == /\ io = "out"
            /\ prog' = p /\ io' = "read" /\ role' = 1
            /\ snap' = <<>> /\ wrote' = <<>> /\ moved' = FALSE /\ before' = ws
            /\ UNCHANGED <<ws, size, wild>>

Early == prog.family = "tin" => Fits(prog.outs[1])

ReadRole == /\ io = "read" /\ Early
            /\ role <= Len(prog.ins) /\ Fits(prog.ins[role])
            /\ snap' = Append(snap, Contents(ws, prog.ins[role]))
            /\ wild' = (wild \/ Stray(prog.ins[role]))
            /\ role' = role + 1
            /\ UNCHANGED <<ws, size, prog, io, wrote, moved, before>>

(* A role outside, or a weight slice or a parameter that is refused.       *)
ReadFails == /\ io = "read"
             /\ \/ ~Early
                \/ role <= Len(prog.ins) /\ ~Fits(prog.ins[role])
                \/ role > Len(prog.ins)
             /\ io' = "raised" /\ role' = 1
             /\ UNCHANGED <<ws, size, prog, snap, wrote, moved, wild, before>>

StartCompute == /\ io = "read" /\ Early /\ role > Len(prog.ins)
                /\ io' = "compute" /\ role' = 1
                /\ UNCHANGED <<ws, size, prog, snap, wrote, moved, wild, before>>

(* The workers run without the interpreter lock; another thread may try to *)
(* shorten the bytearray, which an existing view turns into a BufferError. *)
Resize == /\ io = "compute" /\ ~Pinned(prog) /\ ~moved /\ size > 1
          /\ size' = size - 1 /\ moved' = TRUE
          /\ ws' = [c \in 0 .. size - 2 |-> ws[c]]
          /\ UNCHANGED <<prog, io, role, snap, wrote, wild, before>>

Computed == /\ io = "compute"
            /\ io' = "publish"
            /\ UNCHANGED <<ws, size, prog, role, snap, wrote, moved, wild, before>>

ComputeFails == /\ io = "compute"
                /\ io' = "raised"
                /\ UNCHANGED <<ws, size, prog, role, snap, wrote, moved, wild, before>>

Publish_Rereads ==
  /\ io = "publish" /\ role <= Len(Pieces(prog))
  /\ LET p == Pieces(prog)[role]
     IN  /\ Fits(p) /\ p.ok
         /\ ws' = Overlay(ws, p, [j \in DOMAIN prog.ins |-> Contents(ws, prog.ins[j])])
         /\ wrote' = wrote \o p.tells
         /\ wild' = (wild \/ Stray(p))
  /\ role' = role + 1
  /\ UNCHANGED <<size, prog, io, snap, moved, before>>
Publish ==
  /\ io = "publish" /\ role <= Len(Pieces(prog))
  /\ LET p == Pieces(prog)[role]
     IN  /\ Fits(p) /\ p.ok
         /\ ws' = Overlay(ws, p, snap)
         /\ wrote' = wrote \o p.tells
         /\ wild' = (wild \/ Stray(p))
  /\ role' = role + 1
  /\ UNCHANGED <<size, prog, io, snap, moved, before>>

(* The roles before the one that is refused stay written. *)
PublishFails == /\ io = "publish" /\ role <= Len(Pieces(prog))
                /\ LET p == Pieces(prog)[role] IN ~(Fits(p) /\ p.ok)
                /\ io' = "raised"
                /\ UNCHANGED <<ws, size, prog, role, snap, wrote, moved, wild, before>>

Return == /\ io = "publish" /\ role > Len(Pieces(prog))
          /\ io' = "returned"
          /\ UNCHANGED <<ws, size, prog, role, snap, wrote, moved, wild, before>>

Leave == /\ io \in {"returned", "raised"}
         /\ io' = "out" /\ prog' = Idle
         /\ UNCHANGED <<ws, size, role, snap, wrote, moved, wild, before>>

IOStep == ReadRole \/ ReadFails \/ StartCompute \/ Resize \/ Publish \/ PublishFails \/ Return

-----------------------------------------------------------------------------
(* The workspace after the first k pieces: each cell as the last of them   *)
(* that covers it left it, every output computed from what the inputs were *)
(* when the launch began; the cells all the pieces cover; and those the    *)
(* reported ranges do.                                                     *)
Inputs     == [j \in DOMAIN prog.ins |-> Contents(before, prog.ins[j])]
Upon(k, c) == {j \in 1 .. k : c \in Cells(Pieces(prog)[j])}
After(k)   == [c \in DOMAIN before |-> IF Upon(k, c) = {} THEN before[c]
                                       ELSE Stamp(Pieces(prog)[Max(Upon(k, c))], c, Inputs)]
Written    == {c \in 0 .. Size - 1 : \E k \in 1 .. Len(Pieces(prog)) : c \in Cells(Pieces(prog)[k])}
Spans(e, c) == e.off <= c /\ c < e.off + e.bytes
Reported   == {c \in 0 .. Size - 1 : \E k \in 1 .. Len(wrote) : Spans(wrote[k], c)}

(* A launch may update its inputs in place, and a late role may be refused *)
(* or the computation may throw.  At every moment the workspace is the one *)
(* it found with the first pieces written over it, in order and all        *)
(* computed from the inputs it found; nothing is written before the        *)
(* computation ended well, and a launch that returns wrote every piece and *)
(* reports exactly the bytes it wrote.                                     *)
PublishedPrefix ==
  io # "out" /\ ~moved =>
    /\ ws = After(IF io = "read" THEN 0 ELSE role - 1)
    /\ io \in {"read", "compute"} => wrote = <<>>
    /\ io = "returned" => role > Len(Pieces(prog)) /\ Reported = Written

(* No native access leaves the bytearray, whatever the words of a role     *)
(* hold and even if another thread tries to resize it meanwhile.           *)
NoWildAccess == ~wild
=============================================================================
