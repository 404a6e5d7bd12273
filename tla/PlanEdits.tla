------------------------------ MODULE PlanEdits -----------------------------
(***************************************************************************)
(* The editable plan (rewrite/plan.rs, rewrite/ir.rs) and the AArch64      *)
(* macro fusion it runs (isa/aarch64/fusion.rs).  The graph of Cfg is      *)
(* lifted into blocks of ops with symbolic targets; adrp and its companion *)
(* become one macro op; then the caller edits the plan by source address.  *)
(*                                                                         *)
(* An instruction of a slice has, besides the fields Cfg reads, a mnemonic *)
(* mn ("adrp", "add", "mov", "ldst" or "other"), registers rd and rn, and  *)
(* an immediate imm; the page of an adrp is its target.                    *)
(***************************************************************************)
EXTENDS Cfg

CONSTANTS
  Inputs,      \* what may be lifted: see InputOK
  SymbolIds,
  PageSize,
  NewTargets   \* targets a caller redirects to; Container::symbol panics on an unknown id

Target == [kind : {"block", "symbol", "absolute"}, v : Nat]

At(kind, v) == [kind |-> kind, v |-> v]

Mnemonics == {"adrp", "add", "mov", "ldst", "other"}

PcRelativeRelocs == {"Branch", "AdrpPage21"}

LiftRelocs == PcRelativeRelocs \cup {"AddPageOffset12", "LoadStorePageOffset12"}

\* Where a relocation of a kind may sit, and what the bytes there hold: nothing
\* before the link, the low bits of the address it names after one.
RelocFits(in, r, insn) ==
  /\ insn.mn \in CASE r.kind = "AdrpPage21"            -> {"adrp"}
                   [] r.kind = "AddPageOffset12"       -> {"add", "mov"}
                   [] r.kind = "LoadStorePageOffset12" -> {"ldst"}
                   [] r.kind = "Branch"                -> {"other"}
  /\ LET sym == in.symbols[r.symbol]
         to  == (IF sym.undefined THEN sym.stub ELSE sym.address) + r.addend
     IN r.kind \in {"AddPageOffset12", "LoadStorePageOffset12"} =>
          insn.imm \in {0, to % PageSize}

\* The container: its symbols, the relocations of all its sections in order, the
\* address of the section that is lifted and that of the others, whether it will
\* be relinked and whether it is Mach-O or ELF.  A section with a container is
\* AArch64 code, a word for each instruction; in a linked Mach-O image no
\* relocation of it is left.  An input whose container is false is lifted without
\* one.
InputOK(in) ==
  /\ SliceOK(in.slice)
  /\ \A i \in DOMAIN in.slice :
       /\ in.slice[i].mn \in Mnemonics
       /\ in.slice[i].kind \in Targeted => in.slice[i].mn = "other"
       /\ in.slice[i].imm \in Int
       /\ in.slice[i].mn = "adrp" => in.slice[i].target % PageSize = 0
       /\ in.slice[i].mn = "mov" => in.slice[i].imm = 0
  /\ in.base \in Nat /\ in.others \in Nat
  /\ in.container \in BOOLEAN /\ in.relocatable \in BOOLEAN /\ in.macho \in BOOLEAN
  /\ in.relocatable => in.container
  /\ in.container => \A i \in DOMAIN in.slice :
                       in.slice[i].address = in.base + (i - 1) /\ in.slice[i].size = 1
  /\ DOMAIN in.symbols = SymbolIds
  /\ \A s \in SymbolIds : in.symbols[s].address \in Nat /\ in.symbols[s].stub \in Nat \cup {-1}
  /\ Len(in.relocs) \in Nat /\ DOMAIN in.relocs = 1 .. Len(in.relocs)
  /\ \A i \in DOMAIN in.relocs : in.relocs[i].symbol \in SymbolIds
  /\ in.macho /\ ~in.relocatable =>
       \A i \in DOMAIN in.relocs : in.relocs[i].kind \notin LiftRelocs
  /\ \A i \in DOMAIN in.relocs : \A n \in DOMAIN in.slice :
       LET r == in.relocs[i] IN
       (/\ r.section = "text" /\ r.kind \in LiftRelocs
        /\ in.slice[n].address = in.base + r.offset) => RelocFits(in, r, in.slice[n])
  /\ in.edits \in Nat

ASSUME PlanAssumption ==
  /\ \A in \in Inputs : InputOK(in)
  /\ SymbolIds \subseteq Nat
  /\ PageSize \in Nat \ {0}
  /\ NewTargets \subseteq {t \in Target : t.kind = "symbol" => t.v \in SymbolIds}

VARIABLES
  input,     \* the member of Inputs being edited
  plan,      \* one sequence of ops per block
  log,       \* edits so far: [edit, at, target, result]
  overlays,  \* byte runs to put over the emitted section: [va, len]
  container, \* symbols and relocations, as they are after a commit
  out        \* what the last emission produced

cfgVars == <<instructions, pc, index, leaders, blocks>>

planVars == <<cfgVars, input, plan, log, overlays, container, out>>

PlanInit ==
  /\ input \in Inputs
  /\ instructions = input.slice
  /\ CfgInit
  /\ plan = <<>> /\ log = <<>> /\ overlays = {}
  /\ container = [symbols |-> input.symbols, relocs |-> input.relocs]
  /\ out = <<>>

Symbol(s) == input.symbols[s]

-----------------------------------------------------------------------------
(* Lifting one instruction.                                                *)

SectionAddress(s) == IF s = "text" THEN input.base ELSE input.others

\* The lookup keeps the first relocation of those at the positions S of the list.
FirstReloc(S) == IF S = {} THEN {} ELSE {input.relocs[LowestOf(S)]}

\* build_pc_relative_relocation_lookup: the first relevant relocation at an
\* address, of whatever section is there; none without a container.
RelocAt(a) ==
  IF input.container
  THEN FirstReloc({n \in DOMAIN input.relocs :
                     LET r == input.relocs[n] IN
                     r.kind \in LiftRelocs /\ SectionAddress(r.section) + r.offset = a})
  ELSE {}

symbol_at_address(a) ==
  {s \in SymbolIds : ~Symbol(s).undefined /\ Symbol(s).address = a}

\* A block of this graph, else a symbol, else the bare address.
resolve_address(a) ==
  LET at == {b \in DOMAIN blocks : blocks[b].start = a}
      syms == IF input.container THEN symbol_at_address(a) ELSE {}
  IN IF at # {} THEN At("block", LowestOf(at))
     ELSE IF syms # {} THEN At("symbol", LowestOf(syms))
     ELSE At("absolute", a)

\* An adrp's page is not a reference to what happens to start on it.
PageTarget(insn) == At("absolute", insn.target)

lift_instruction(insn) ==
  LET ref  == IF insn.mn = "adrp" THEN "page"
              ELSE IF insn.kind \in Targeted THEN "branch" ELSE "none"
      syms == {r.symbol : r \in {r \in RelocAt(insn.address) : r.kind \in PcRelativeRelocs}}
  IN [op |-> "insn", mn |-> insn.mn, rd |-> insn.rd, rn |-> insn.rn, imm |-> insn.imm,
      ref |-> ref,
      target |-> IF ref = "none" THEN At("absolute", 0)
                 ELSE IF syms # {} THEN At("symbol", LowestOf(syms))
                 ELSE IF ref = "page" THEN PageTarget(insn)
                 ELSE resolve_address(insn.target),
      orig |-> insn.address, size |-> insn.size]

-----------------------------------------------------------------------------
(* Macro fusion.                                                           *)

\* The same register at the same width.
same_register(a, b) == a = b

\* The symbol both relocations of a pair name, when they are a matching pair.
macro_target_from_relocations(a, b, companionKind) ==
  {At("symbol", r.symbol) :
     r \in {r \in RelocAt(a.orig) :
              /\ r.kind = "AdrpPage21"
              /\ \E q \in RelocAt(b.orig) : q.kind = companionKind /\ q.symbol = r.symbol}}

\* Mutant: the companion's immediate is forgotten.
CombinedPageOnly(a, b) == {resolve_address(a.target.v)}

\* The address the pair computes, when the page is a plain address.
Combined(a, b) ==
  IF a.target.kind = "absolute" THEN {resolve_address(a.target.v + b.imm)} ELSE {}

try_fuse_adrp_add(a, b) ==
  LET imm   == IF b.mn = "mov" THEN 0 ELSE b.imm
      pair  == macro_target_from_relocations(a, b, "AddPageOffset12")
  IN IF \/ b.mn \notin {"add", "mov"}
        \/ ~same_register(a.rd, b.rd) \/ ~same_register(a.rd, b.rn)
        \/ imm < 0 \/ imm >= PageSize
     THEN {}
     ELSE IF a.target.kind = "symbol" /\ imm = 0 THEN {a.target}
     ELSE IF pair # {} THEN pair
     ELSE Combined(a, [b EXCEPT !.imm = imm])

try_fuse_adrp_ldst(a, b) ==
  IF b.mn = "ldst" /\ same_register(a.rd, b.rn)
  THEN macro_target_from_relocations(a, b, "LoadStorePageOffset12")
  ELSE {}

MacroOps(a, b) ==
  LET make(kind, targets) ==
        {[op |-> "macro", kind |-> kind, rd |-> a.rd, target |-> t,
          originals |-> <<a, b>>] : t \in targets}
      adds == make("LoadAddress", try_fuse_adrp_add(a, b))
  IN IF a.mn # "adrp" THEN {}
     ELSE IF adds # {} THEN adds
     ELSE make("AccessValue", try_fuse_adrp_ldst(a, b))

\* Every adrp is offered its successor, which the pair takes with it: ops[n] is
\* what the first n instructions have become.
fuse_macros(insns) ==
  LET macro(i) == IF i \in 1 .. Len(insns) - 1 THEN MacroOps(insns[i], insns[i + 1]) ELSE {}
      ops[n \in 0 .. Len(insns)] ==
        IF n = 0 THEN <<>>
        ELSE IF macro(n - 1) # {} THEN ops[n - 1]
        ELSE Append(ops[n - 1], IF macro(n) = {} THEN insns[n] ELSE CHOOSE m \in macro(n) : TRUE)
  IN ops[Len(insns)]

\* lift: one sequence of ops per block of the graph.
Lift ==
  /\ pc = "done"
  /\ plan' = [b \in DOMAIN blocks |->
                fuse_macros([i \in 1 .. blocks[b].last - blocks[b].first + 1 |->
                               lift_instruction(instructions[blocks[b].first + i - 1])])]
  /\ pc' = "edit"
  /\ UNCHANGED <<instructions, index, leaders, blocks, input, log, overlays, container, out>>

-----------------------------------------------------------------------------
(* Edits.  A place is a block and an index into its ops.                   *)

OriginalAddresses(op) ==
  IF op.op = "macro" THEN {op.originals[1].orig, op.originals[2].orig} ELSE {op.orig}

Places(p) == UNION {{<<b, i>> : i \in DOMAIN p[b]} : b \in DOMAIN p}

Before(x, y) == x[1] < y[1] \/ (x[1] = y[1] /\ x[2] <= y[2])

\* The first op, in plan order, that stands for an address; none or one.
locate(p, a) ==
  LET at == {x \in Places(p) : a \in OriginalAddresses(p[x[1]][x[2]])}
  IN {x \in at : \A y \in at : Before(x, y)}

OpAt(p, x) == p[x[1]][x[2]]

\* Splicing: the op at x is replaced by a sequence of ops.
Splice(p, x, ops) ==
  [p EXCEPT ![x[1]] = SubSeq(@, 1, x[2] - 1) \o ops \o SubSeq(@, x[2] + 1, Len(@))]

Ok(p) == [plan |-> p, result |-> "Ok"]

Err(p, e) == [plan |-> p, result |-> e]

Retarget(p, x, t) == [p EXCEPT ![x[1]] = [@ EXCEPT ![x[2]].target = t]]

redirect_branch(p, a, t) ==
  LET x == locate(p, a) IN
  IF x = {} THEN Err(p, "AddressNotFound")
  ELSE LET y == CHOOSE y \in x : TRUE
           o == OpAt(p, y)
       IN IF o.op # "insn" THEN Err(p, "NotAnInstruction")
          ELSE IF o.ref = "none" THEN Err(p, "NoBranchOperand")
          ELSE Ok(Retarget(p, y, t))

redirect_macro_target(p, a, t) ==
  LET x == locate(p, a) IN
  IF x = {} THEN Err(p, "AddressNotFound")
  ELSE LET y == CHOOSE y \in x : TRUE
       IN IF OpAt(p, y).op # "macro" THEN Err(p, "NotAMacro")
          ELSE Ok(Retarget(p, y, t))

\* Only a macro that begins at the address is split into its instructions.
unfuse_macro_at(p, a) ==
  LET begins == {x \in locate(p, a) :
                   OpAt(p, x).op = "macro" /\ OpAt(p, x).originals[1].orig = a}
  IN IF begins = {} THEN p
     ELSE LET x == CHOOSE x \in begins : TRUE IN Splice(p, x, OpAt(p, x).originals)

\* A caller's instruction has no source: a branch to t, or a plain one.
NewInsn(ref, t) ==
  [op |-> "insn", mn |-> "new", rd |-> "none", rn |-> "none", imm |-> 0,
   ref |-> ref, target |-> t, orig |-> -1, size |-> 1]

\* The split stays when the address turns out to have no instruction.
replace_instruction_at(p, a, insn) ==
  LET q == unfuse_macro_at(p, a)
      x == {y \in locate(q, a) : OpAt(q, y).op = "insn"}
  IN IF x = {} THEN Err(q, "AddressNotFound")
     ELSE Ok(Splice(q, CHOOSE y \in x : TRUE, <<insn>>))

\* Whatever the last op is, terminator or not.
replace_terminator(p, b, insn) ==
  IF b \notin DOMAIN p THEN Err(p, "UnknownBlock")
  ELSE IF p[b] = <<>> THEN Ok([p EXCEPT ![b] = <<insn>>])
  ELSE Ok(Splice(p, <<b, Len(p[b])>>, <<insn>>))

\* Mutant: the op is inserted again behind itself.
insert_after_keeps_source(p, a, insns) ==
  LET x == locate(p, a) IN
  IF x = {} THEN Err(p, "AddressNotFound")
  ELSE LET y == CHOOSE y \in x : TRUE IN Ok(Splice(p, y, <<OpAt(p, y), OpAt(p, y)>> \o insns))

insert_after_address(p, a, insns) ==
  LET x == locate(p, a) IN
  IF x = {} THEN Err(p, "AddressNotFound")
  ELSE LET y == CHOOSE y \in x : TRUE IN Ok(Splice(p, y, <<OpAt(p, y)>> \o insns))

remove_at_address(p, a) ==
  LET x == locate(p, a) IN
  IF x = {} THEN Err(p, "AddressNotFound")
  ELSE Ok(Splice(p, CHOOSE y \in x : TRUE, <<>>))

\* One edit, by its outcome r.
Apply(edit, a, t, r) ==
  /\ pc = "edit"
  /\ Len(log) < input.edits
  /\ plan' = r.plan
  /\ log' = Append(log, [edit |-> edit, at |-> a, target |-> t, result |-> r.result])
  /\ UNCHANGED <<cfgVars, input, overlays, container, out>>

NoTarget == At("absolute", 0)

\* Source addresses a caller may name, and one that is not in the slice.
Addresses == {instructions[i].address : i \in 1 .. N} \cup {input.base + N}

RedirectBranch ==
  \E a \in Addresses, t \in NewTargets :
    Apply("redirect_branch", a, t, redirect_branch(plan, a, t))

RedirectMacro ==
  \E a \in Addresses, t \in NewTargets :
    Apply("redirect_macro", a, t, redirect_macro_target(plan, a, t))

Replace ==
  \E a \in Addresses, t \in NewTargets :
    Apply("replace", a, t, replace_instruction_at(plan, a, NewInsn("branch", t)))

ReplaceTerminator ==
  \E b \in 1 .. Len(plan) + 1, t \in NewTargets :
    Apply("terminator", b, t, replace_terminator(plan, b, NewInsn("branch", t)))

InsertAfter ==
  \E a \in Addresses :
    Apply("insert", a, NoTarget, insert_after_address(plan, a, <<NewInsn("none", NoTarget)>>))

RemoveOp ==
  \E a \in Addresses : Apply("remove", a, NoTarget, remove_at_address(plan, a))

\* overlay_bytes: kept until the section is emitted.
OverlayBytes ==
  /\ pc = "edit"
  /\ Len(log) < input.edits
  /\ \E a \in Addresses, len \in 1 .. 2 :
       /\ overlays' = overlays \cup {[va |-> a, len |-> len]}
       /\ log' = Append(log, [edit |-> "overlay", at |-> a, target |-> NoTarget, result |-> "Ok"])
  /\ UNCHANGED <<cfgVars, input, plan, container, out>>

Edit ==
  \/ RedirectBranch \/ RedirectMacro \/ Replace \/ ReplaceTerminator
  \/ InsertAfter \/ RemoveOp \/ OverlayBytes

PlanStep == (CfgStep /\ UNCHANGED <<input, plan, log, overlays, container, out>>) \/ Lift \/ Edit
=============================================================================
