---------------------------- MODULE ControlFlow -----------------------------
(***************************************************************************)
(* What an instruction does to the program counter (mc/control_flow.rs).   *)
(* An instruction is its kind, its direct target (meaningless for kinds    *)
(* without one) and its size; the fallthrough of every kind is the address *)
(* just past the instruction.  "Error" stands for bytes that do not decode. *)
(***************************************************************************)
EXTENDS Integers

Targeted == {"Jump", "ConditionalJump", "Call"}

Kinds == Targeted \cup {"Fall", "Return", "IndirectJump", "IndirectCall", "Trap"}

Instruction == [kind : Kinds \cup {"Error"}, target : Int, size : Nat \ {0}]

is_terminator(insn) == insn.kind # "Fall"

has_fallthrough(insn) == insn.kind \notin {"Jump", "Return", "IndirectJump"}

\* The statically known target: none or one.
direct_target(insn) == IF insn.kind \in Targeted THEN {insn.target} ELSE {}
=============================================================================
