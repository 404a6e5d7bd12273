---------------------------- MODULE MCPlacePlan -----------------------------
(***************************************************************************)
(* Pools of three holes (equal sizes, a one-word remainder, an exact fit)  *)
(* and plans that fit, need several holes, do not reach their target from  *)
(* a hole, are longer in a hole than at base 0, need a relocation, or      *)
(* cannot be resolved.                                                     *)
(***************************************************************************)
EXTENDS PlacePlan

At(kind, v) == [kind |-> kind, v |-> v]

Op(kind, t, r, inv) ==
  [kind |-> kind, size |-> 4, target |-> t, range |-> r, invertible |-> inv,
   orig |-> -1, orig_target |-> 0, source |-> "changed", orig_size |-> 4,
   enc |-> 4, has_reloc |-> TRUE]

Plain == Op("plain", At("absolute", 0), 0, FALSE)
Cond(t) == Op("branch", t, 8, TRUE)
Jump(t) == Op("branch", t, 32, FALSE)

Plan(os, ss) == [ops |-> os, starts |-> ss]

MCPlans ==
  { Plan(<<Plain, Cond(At("block", 1))>>, <<1>>),
    Plan(<<Cond(At("block", 2)), Jump(At("block", 1)), Plain>>, <<1, 3>>),
    Plan(<<Jump(At("absolute", 60))>>, <<1>>),
    Plan(<<Cond(At("absolute", 4))>>, <<1>>),
    Plan(<<Plain, Jump(At("symbol", 1))>>, <<1, 2>>),
    Plan(<<Op("page", At("absolute", 64), 0, FALSE)>>, <<1>>),
    Plan(<<Cond(At("constant", 1))>>, <<1, 2>>),
    Plan(<<Op("page", At("constant", 1), 0, FALSE)>>, <<1>>),
    Plan(<<>>, <<>>) }

Hl(a, n) == [va |-> a, size |-> n]

MCPools ==
  { <<Hl(12, 9), Hl(40, 12), Hl(24, 9)>>,
    <<Hl(60, 6), Hl(20, 8)>> }

MCPlacements == {<<>>}
MCSymAddr == <<-1>>
MCNeedsReloc == {1}
=============================================================================
