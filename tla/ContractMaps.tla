----------------------------- MODULE ContractMaps -----------------------------
(***************************************************************************)
(* ffn_contract takes its maps and templates from files, and admits only   *)
(* those that agree with the geometry it computes itself                   *)
(* (validate_native_maps, parse_program).  So the geometry decides which   *)
(* CTA stores what: this module builds the stage program of a number of    *)
(* tokens.                                                                 *)
(*                                                                         *)
(* Tokens are counted in rows of 16.  Two halves of Rows rows make a band; *)
(* a CTA is a band and one of the groups of columns, its warps a half and  *)
(* one of the pairs.  A cell is what a warp stores of one row, in the      *)
(* buffer as in the output; the four quads and 32 lanes inside it follow   *)
(* each other in both.                                                     *)
(***************************************************************************)
EXTENDS Integers, Sequences

CONSTANTS Rows  \* rows of a half: 4
ASSUME RowsAssumption == Rows \in Nat \ {0}

Absent == -1

Bands(t)    == (t + 2 * Rows - 1) \div (2 * Rows)
(* tokens % 32, nc = 8 * bands, and the extents of the roles. *)
Admitted(t, ctas, groups) == t > 0 /\ t % 2 = 0 /\ ctas = groups * Bands(t)

Band(t, c)  == c % Bands(t)
Group(t, c) == c \div Bands(t)
Half(y, pairs) == y \div pairs

(* native_template_class: the stores of an upper half past the tokens are  *)
(* masked.                                                                 *)
Masked(t, c, h) == h = 1 /\ 2 * Rows * Band(t, c) + Rows >= t
(* The predicate and the address of bufstore, red, bufload and outstore.   *)
Live(t, c, h)   == 2 * Rows * Band(t, c) + Rows * h < t
Address(t, groups, pairs, c, y, row) ==
  LET h == Half(y, pairs)
  IN  IF ~Live(t, c, h) THEN Absent
      ELSE (((Band(t, c) * 2 + h) * Rows + row) * groups + Group(t, c)) * pairs + (y % pairs)
Extent(t, groups, pairs) == t * groups * pairs
=============================================================================
