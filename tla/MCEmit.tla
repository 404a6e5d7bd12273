------------------------------- MODULE MCEmit -------------------------------
(***************************************************************************)
(* A scaled-down ISA: 4-byte instructions, a short branch reaching 8       *)
(* bytes, a long one 16, a widened one of 8 bytes.                         *)
(*                                                                         *)
(* Fresh plans have four ops over three blocks, one of which may be empty, *)
(* laid out in all three ways: a branch sits in range, at either end of    *)
(* its range, or goes out of range when another is widened.  Lifted plans  *)
(* are a function of up to four ops at address 8, put back there or moved: *)
(* ops keep or lose their source, references keep or change their target,  *)
(* and removing or widening an op moves the ones behind it.                *)
(***************************************************************************)
EXTENDS Emit

At(kind, v) == [kind |-> kind, v |-> v]

Op(kind, t, r, inv, orig, tgt, src) ==
  [kind |-> kind, size |-> 4, target |-> t, range |-> r, invertible |-> inv,
   orig |-> orig, orig_target |-> tgt, source |-> src, orig_size |-> 4,
   enc |-> 4, has_reloc |-> TRUE]

Plain(orig) == Op("plain", At("absolute", 0), 0, FALSE, orig, 0, "same")
Placeholder(orig) == [Plain(orig) EXCEPT !.source = "undecodable"]
Cond(t, orig, tgt) == Op("branch", t, 8, TRUE, orig, tgt, "same")
Jump(t, orig, tgt) == Op("branch", t, 16, FALSE, orig, tgt, "same")

\* What may stand at the place of the source instruction at address a.
OpsFrom(a) ==
  { Plain(a), Plain(-1), Placeholder(a),
    Cond(At("block", 1), a, 8), Cond(At("block", 2), a, 16),
    Cond(At("absolute", 24), a, 24), Cond(At("absolute", 2), -1, 0),
    Jump(At("block", 2), a, 16),
    Op("page", At("absolute", 24), 0, FALSE, a, 24, "same") }

RelocOps ==
  { Jump(At("symbol", 1), 8, 0), Jump(At("symbol", 1), 8, 12), Cond(At("symbol", 1), -1, 0),
    [Cond(At("symbol", 2), -1, 0) EXCEPT !.has_reloc = FALSE],
    Cond(At("symbol", 3), -1, 0), Jump(At("symbol", 4), 12, 20),
    Op("page", At("symbol", 1), 0, FALSE, -1, 0, "same"), Plain(12) }

\* The last of four.
LastOps(a) == {Plain(-1), Placeholder(a), Cond(At("block", 1), a, 8), Jump(At("block", 2), a, 16)}

\* The third source instruction may have been removed.
LiftedPlans ==
  {[ops |-> <<a, b, c, d>>, starts |-> s] :
      a \in OpsFrom(8), b \in OpsFrom(12), c \in OpsFrom(16), d \in LastOps(20),
      s \in {<<1, 3>>}}
    \cup {[ops |-> <<a, b, d>>, starts |-> s] :
            a \in OpsFrom(8), b \in OpsFrom(12), d \in OpsFrom(20),
            s \in {<<1, 3>>, <<1, 4>>}}
    \cup {[ops |-> <<a, b>>, starts |-> <<1, 2>>] : a, b \in RelocOps}

\* Plans with branches inside the plan, and to an address behind it.
InnerOps ==
  {Plain(-1), Jump(At("block", 1), -1, 0), Cond(At("absolute", 28), -1, 0)}
    \cup {Cond(At("block", b), -1, 0) : b \in 1 .. 3}

\* Symbols, constants, page references and branches without a range.
OddOps ==
  { Plain(-1), Jump(At("symbol", 4), -1, 0), Cond(At("symbol", 5), -1, 0),
    Cond(At("symbol", 3), -1, 0), Cond(At("constant", 1), -1, 0),
    Op("page", At("symbol", 5), 0, FALSE, -1, 0, "same"),
    Op("page", At("absolute", 26), 0, FALSE, -1, 0, "same"),
    Op("branch", At("block", 2), 0, TRUE, -1, 0, "same") }

MCPlans ==
  LiftedPlans
    \cup [ops : [1 .. 4 -> InnerOps], starts : {<<1, 2, 4>>, <<1, 1, 3>>, <<1, 4, 5>>}]
    \cup [ops : [1 .. 2 -> OddOps], starts : {<<1, 2>>}]

MCPlacements == {<<>>, <<20, 0, 8>>, <<0, 30, 4>>, <<24, 0>>}

\* A relocated symbol out of short reach, one without a mapping, an undefined symbol
\* without and one with a stub, a symbol far away.
MCSymAddr == <<12, 4, -1, 20, 44>>
MCNeedsReloc == {1, 2, 3}
=============================================================================
