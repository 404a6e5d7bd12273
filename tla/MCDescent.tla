----------------------------- MODULE MCDescent ------------------------------
(***************************************************************************)
(* Every fixed-width program of three words over all instruction kinds,    *)
(* and every Thumb-like program of three halfwords over a few of them.     *)
(***************************************************************************)
EXTENDS Descent

Insn(k, t, s) == [kind |-> k, target |-> t, size |-> s]

Targets(n) == 0 .. n

Words(n) ==
  {Insn(k, t, 1) : k \in Targeted, t \in Targets(n)}
  \cup {Insn(k, 0, 1) : k \in (Kinds \ Targeted) \cup {"Error"}}

\* Few enough kinds for halfwords and two-halfword instructions to mix.
Halfwords(n) ==
  {Insn(k, t, 1) : k \in {"Jump"}, t \in 0 .. n - 1}
  \cup {Insn("ConditionalJump", t, 2) : t \in 0 .. n - 1}
  \cup {Insn("Fall", 0, 1), Insn("Fall", 0, 2), Insn("Return", 0, 1), Insn("Error", 0, 1)}

\* A two-unit instruction needs two units.
Fits(p, n) == \A a \in 0 .. n - 1 : a + p[a].size <= n

MCPrograms == [0 .. 2 -> Words(3)] \cup {p \in [0 .. 2 -> Halfwords(3)] : Fits(p, 3)}
MCEntryLists == { <<0>>, <<2, 0>>, <<1, 1, 7>>, <<-1>> }
=============================================================================
