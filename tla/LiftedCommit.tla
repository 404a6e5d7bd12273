---------------------------- MODULE LiftedCommit ----------------------------
(***************************************************************************)
(* An edited plan is emitted: in place (commit_lifted_section), as a copy  *)
(* elsewhere (place_plan_in_holes and add_function_from_plan), or under a  *)
(* grown __TEXT, both for the lifted section and for a copy in the gap     *)
(* (commit_grown).  Macro ops are expanded by isa/aarch64/macro_emit.rs,   *)
(* and an emission in place replaces the section and its relocations       *)
(* (rewrite/commit.rs).  Branch widening is Layout's subject: here every   *)
(* branch reaches.  A word is its mnemonic, registers, immediate and the   *)
(* address its displacement reaches from where it was put; src is the      *)
(* source address it stands for, or -1.                                    *)
(***************************************************************************)
EXTENDS PlanEdits, SequencesExt

CONSTANTS
  FarBase,   \* where a copy goes
  Delta,     \* bytes inserted by a grow, a multiple of the page size
  Carved,    \* symbols of the gap, which do not shift
  VectorRegisters \* registers an access by relocation has no width for

ASSUME CommitAssumption ==
  FarBase \in Nat /\ Delta \in Nat /\ Delta % PageSize = 0 /\ Carved \subseteq SymbolIds

\* How the container is seen: the base that is laid out, how far the originals
\* moved, and whether a section starts at the base (the current section).
View(base, shift) == [base |-> base, shift |-> shift, current |-> base = input.base]

InPlace == View(input.base, 0)
Copied == View(FarBase, 0)
GrownText == View(input.base + Delta, Delta)
GrownGap == View(input.base, Delta)

\* Everything at or after the insertion point moves.
Moved(v, a) == IF a >= input.base THEN a + v.shift ELSE a

callable_address_of_symbol(v, s) ==
  IF Symbol(s).undefined THEN Symbol(s).stub
  ELSE IF s \in Carved THEN Symbol(s).address
  ELSE Moved(v, Symbol(s).address)

-----------------------------------------------------------------------------
(* Layout of a plan whose branches all reach.                              *)

OpSize(op) ==
  IF op.op = "macro" THEN op.originals[1].size + op.originals[2].size ELSE op.size

SizeOf(ops) ==
  LET size[n \in 0 .. Len(ops)] == IF n = 0 THEN 0 ELSE size[n - 1] + OpSize(ops[n])
  IN size[Len(ops)]

BlockAddress(p, v, b) == v.base + SizeOf(FlattenSeq(SubSeq(p, 1, b - 1)))

\* An unknown block or an undefined symbol without a stub resolves to -1.
resolve_target(p, v, t) ==
  CASE t.kind = "block"    -> IF t.v \in DOMAIN p THEN BlockAddress(p, v, t.v) ELSE -1
    [] t.kind = "absolute" -> t.v
    [] t.kind = "symbol"   -> IF input.container THEN callable_address_of_symbol(v, t.v) ELSE -1

-----------------------------------------------------------------------------
(* Which references become relocations.  emit.rs and macro_emit.rs each    *)
(* have their own version; they differ where there is no current section,  *)
(* and macro_emit.rs knows no stub of a Mach-O image.                      *)

OtherSection(v, s) ==
  /\ v.current
  /\ Symbol(s).section \notin {"text", "none"}
  /\ input.base = 0

symbol_needs_relocation(v, s) ==
  IF Symbol(s).undefined THEN Symbol(s).stub = -1
  ELSE v.current /\ (Symbol(s).section_kind \/ OtherSection(v, s))

macro_symbol_needs_relocation(v, s) ==
  IF Symbol(s).undefined THEN Symbol(s).stub = -1 \/ input.macho
  ELSE Symbol(s).section_kind \/ OtherSection(v, s)

InsnRelocs(v, o) ==
  {s \in SymbolIds : /\ input.container /\ o.ref # "none" /\ o.target = At("symbol", s)
                     /\ symbol_needs_relocation(v, s)}

MacroRelocs(v, m) ==
  {s \in SymbolIds : /\ input.container /\ m.target = At("symbol", s)
                     /\ macro_symbol_needs_relocation(v, s)}

-----------------------------------------------------------------------------
(* Words.                                                                  *)

Page(a) == a - (a % PageSize)

Word(o, val) ==
  [mn |-> o.mn, rd |-> o.rd, rn |-> o.rn, imm |-> o.imm, val |-> val, src |-> o.orig]

\* What the container's bytes at a source address decode to.
SourceWord(a) ==
  LET insn == instructions[CHOOSE i \in 1 .. N : instructions[i].address = a]
  IN [mn |-> insn.mn, rd |-> insn.rd, rn |-> insn.rn, imm |-> insn.imm,
      val |-> insn.target, src |-> a]

InSource(a) == \E i \in 1 .. N : instructions[i].address = a

\* The bytes at o's source still decode to o, reference included.
StillDecodes(p, v, o) ==
  /\ InSource(o.orig)
  /\ LET w == SourceWord(o.orig)
     IN /\ o.mn = w.mn /\ o.rd = w.rd /\ o.rn = w.rn /\ o.imm = w.imm
        /\ o.ref # "none" => resolve_target(p, v, o.target) = w.val

Reloc(offset, kind, s) ==
  [section |-> "text", offset |-> offset, kind |-> kind, symbol |-> s, addend |-> 0]

Bytes(words, relocs) == [result |-> "Ok", words |-> words, relocs |-> relocs]

Failed(e) == [result |-> e, words |-> <<>>, relocs |-> <<>>]

emit_instruction(p, v, o, here) ==
  LET syms == InsnRelocs(v, o)
      to   == resolve_target(p, v, o.target)
  IN IF /\ ~(input.relocatable /\ syms # {})
        /\ input.container /\ o.orig # -1
        /\ StillDecodes(p, v, o)
        /\ o.ref # "none" => here = o.orig
     THEN Bytes(<<SourceWord(o.orig)>>, <<>>)
     ELSE IF syms # {}
     THEN Bytes(<<Word(o, IF o.ref = "page" THEN Page(here) ELSE here)>>,
                <<Reloc(here - v.base, IF o.ref = "page" THEN "AdrpPage21" ELSE "Branch",
                        LowestOf(syms))>>)
     ELSE IF o.ref = "none" THEN Bytes(<<Word(o, 0)>>, <<>>)
     ELSE IF to = -1 THEN Failed("Layout")
     ELSE IF o.ref = "page" /\ to # Page(to) THEN Failed("Encode")
     ELSE Bytes(<<Word(o, to)>>, <<>>)

\* Mutant: the copy is taken wherever the macro is emitted.
verbatim_macro_anywhere(p, v, m, here) ==
  /\ input.container
  /\ ~(input.relocatable /\ MacroRelocs(v, m) # {})
  /\ \A i \in 1 .. 2 : StillDecodes(p, v, m.originals[i])

\* Emitted at its own address, and its source instructions still decode to the
\* ones it was made from.  The macro's own target is not compared.
verbatim_macro(p, v, m, here) ==
  /\ here = m.originals[1].orig
  /\ input.container
  /\ ~(input.relocatable /\ MacroRelocs(v, m) # {})
  /\ \A i \in 1 .. 2 : StillDecodes(p, v, m.originals[i])

\* adrp and add that compute an address.
load_address_words(m, to) ==
  <<Word(m.originals[1], Page(to)),
    [Word(m.originals[2], 0) EXCEPT !.mn = "add", !.imm = to % PageSize]>>

PairRelocs(m, offset, kind, s) ==
  <<Reloc(offset, "AdrpPage21", s), Reloc(offset + m.originals[1].size, kind, s)>>

emit_load_address(p, v, m, here) ==
  LET syms == MacroRelocs(v, m)
      to   == resolve_target(p, v, m.target)
  IN IF syms # {}
     THEN Bytes([load_address_words(m, here) EXCEPT ![2].imm = 0],
                PairRelocs(m, here - v.base, "AddPageOffset12", LowestOf(syms)))
     ELSE IF to = -1 THEN Failed("MalformedMacro")
     ELSE Bytes(load_address_words(m, to), <<>>)

\* A relocation needs the width of the register that is loaded or stored.  Without
\* one the source operands are encoded again, the page as 0.
emit_access_value(p, v, m, here) ==
  LET syms == MacroRelocs(v, m)
      word(page) == <<Word(m.originals[1], page), Word(m.originals[2], 0)>>
  IN IF syms # {} /\ m.originals[2].rd \in VectorRegisters
     THEN Failed("NoRelocationForMnemonic")
     ELSE IF syms # {}
     THEN Bytes(word(Page(here)),
                PairRelocs(m, here - v.base, "LoadStorePageOffset12", LowestOf(syms)))
     ELSE Bytes(word(0), <<>>)

emit_macro(p, v, m, here) ==
     IF verbatim_macro(p, v, m, here)
     THEN Bytes([i \in 1 .. 2 |-> SourceWord(m.originals[i].orig)], <<>>)
     ELSE IF m.kind = "LoadAddress" THEN emit_load_address(p, v, m, here)
     ELSE emit_access_value(p, v, m, here)

\* emit: the ops in plan order; the first error ends it.  done[n] is what the
\* first n ops have become and the address behind them.
emit(p, v) ==
  LET ops == FlattenSeq(p)
      done[n \in 0 .. Len(ops)] ==
        IF n = 0 THEN [at |-> v.base, bytes |-> Bytes(<<>>, <<>>)]
        ELSE LET prev == done[n - 1]
                 this == IF ops[n].op = "macro" THEN emit_macro(p, v, ops[n], prev.at)
                         ELSE emit_instruction(p, v, ops[n], prev.at)
             IN [at |-> prev.at + OpSize(ops[n]),
                 bytes |-> IF prev.bytes.result # "Ok" THEN prev.bytes
                           ELSE IF this.result # "Ok" THEN this
                           ELSE Bytes(prev.bytes.words \o this.words,
                                      prev.bytes.relocs \o this.relocs)]
  IN done[Len(ops)].bytes

-----------------------------------------------------------------------------
(* The commits.                                                            *)

OverlayWord(a) ==
  [mn |-> "overlay", rd |-> "none", rn |-> "none", imm |-> a, val |-> 0, src |-> -1]

\* Mutant: an overlay that ends with the section does not fit.
ApplyOverlaysStrict(words) ==
  LET fit == {o \in overlays : o.va - input.base + o.len < Len(words)}
  IN [i \in DOMAIN words |->
        LET a == input.base + i - 1 IN
        IF \E o \in fit : a \in o.va .. o.va + o.len - 1 THEN OverlayWord(a) ELSE words[i]]

\* Overlays replace emitted bytes; one that does not fit is passed over.
ApplyOverlays(words) ==
  LET fit == {o \in overlays : o.va - input.base + o.len <= Len(words)}
  IN [i \in DOMAIN words |->
        LET a == input.base + i - 1 IN
        IF \E o \in fit : a \in o.va .. o.va + o.len - 1 THEN OverlayWord(a) ELSE words[i]]

\* The relocations of the other sections, in order.
OtherSections(relocs) ==
  LET kept[n \in 0 .. Len(relocs)] ==
        IF n = 0 THEN <<>>
        ELSE IF relocs[n].section = "text" THEN kept[n - 1]
        ELSE Append(kept[n - 1], relocs[n])
  IN kept[Len(relocs)]

\* The id a relocation is pushed with.
WithId(r, id) ==
  [section |-> r.section, offset |-> r.offset, kind |-> r.kind, symbol |-> r.symbol,
   addend |-> r.addend, id |-> id]

\* Mutant: relocations of the old bytes stay.
commit_relocations_kept(relocs, emitted) ==
  relocs \o [i \in DOMAIN emitted |-> WithId(emitted[i], Len(relocs) + i - 1)]

\* The section's relocations are dropped and the emitted ones appended; each new
\* one's id is the length of the list it is pushed on.
commit_relocations(relocs, emitted) ==
  LET kept == OtherSections(relocs)
  IN kept \o [i \in DOMAIN emitted |-> WithId(emitted[i], Len(kept) + i - 1)]

\* What came of an emission e whose words are stored as words.
Record(v, mode, p, e, words) ==
  out' = <<[mode |-> mode, view |-> v, plan |-> p, result |-> e.result,
            words |-> words, relocs |-> e.relocs]>>

\* commit_lifted_section and commit_to_container.
Commit ==
  /\ pc = "edit" /\ input.container
  /\ \E e \in {emit(plan, InPlace)} :
       /\ Record(InPlace, "commit", plan, e, ApplyOverlays(e.words))
       /\ container' = IF e.result # "Ok" THEN container
                       ELSE [container EXCEPT !.relocs = commit_relocations(@, e.relocs)]
  /\ pc' = "committed"
  /\ UNCHANGED <<instructions, index, leaders, blocks, input, plan, log, overlays>>

\* Nobody relocates code that is placed outside its section: it is refused.
WithoutRelocations(e) ==
  IF e.relocs = <<>> THEN e ELSE Failed("AppendNeedsUnsupportedRelocation")

\* A copy of the plan emitted elsewhere, with or without a container.
EmitCopy ==
  /\ pc = "edit"
  /\ \E e \in {WithoutRelocations(emit(plan, Copied))} :
       Record(Copied, "copy", plan, e, e.words)
  /\ pc' = "committed"
  /\ UNCHANGED <<instructions, index, leaders, blocks, input, plan, log, overlays, container>>

Bump(t) == IF t.kind = "absolute" /\ t.v >= input.base THEN At("absolute", t.v + Delta) ELSE t

\* The absolute targets of a plan follow the shift; the source instructions a
\* macro keeps do not.
shift_plan_absolute_targets(p) ==
  [b \in DOMAIN p |->
     [i \in DOMAIN p[b] |->
        IF p[b][i].op = "insn" /\ p[b][i].ref = "none" THEN p[b][i]
        ELSE [p[b][i] EXCEPT !.target = Bump(@)]]]

\* commit_grown, of a Mach-O image: the lifted section at its new base, whose
\* relocations nobody applies, or a copy in the gap.
EmitGrown(v, mode) ==
  /\ pc = "edit" /\ input.container /\ input.macho /\ ~input.relocatable
  /\ \E q \in {shift_plan_absolute_targets(plan)} :
       \E e \in {IF mode = "grown_text" THEN emit(q, v) ELSE WithoutRelocations(emit(q, v))} :
         Record(v, mode, q, e, IF mode = "grown_text" THEN ApplyOverlays(e.words) ELSE e.words)
  /\ pc' = "committed"
  /\ UNCHANGED <<instructions, index, leaders, blocks, input, plan, log, overlays, container>>

EmitGrownText == EmitGrown(GrownText, "grown_text")

EmitGrownGap == EmitGrown(GrownGap, "grown_gap")

Committed == pc = "committed" /\ UNCHANGED planVars

CommitNext ==
  \/ PlanStep \/ Commit \/ EmitCopy \/ EmitGrownText \/ EmitGrownGap \/ Committed

CommitSpec == PlanInit /\ [][CommitNext]_planVars

-----------------------------------------------------------------------------
(* Properties.                                                             *)

Outs == {o \in {out[n] : n \in DOMAIN out} : o.result = "Ok"}

Succeeded(edits) == {e \in {log[n] : n \in DOMAIN log} : e.edit \in edits /\ e.result = "Ok"}

\* An edit that may change the length of the code succeeded; replace_terminator
\* puts one instruction in the place of a whole macro.
Resized == Succeeded({"insert", "remove", "terminator"}) # {}

WordsFor(o, a) == {k \in DOMAIN o.words : o.words[k].src = a}

RelocsOn(o, k) == {r \in {o.relocs[n] : n \in DOMAIN o.relocs} : r.offset = k - 1}

\* An adrp and a companion that uses its register, by their addresses, before
\* anything else writes it.
Pairs ==
  {ij \in (1 .. N) \X (1 .. N) :
     LET i == ij[1] j == ij[2] IN
     /\ i < j /\ instructions[i].mn = "adrp"
     /\ instructions[j].mn \in {"add", "mov", "ldst"}
     /\ instructions[j].rn = instructions[i].rd
     /\ \A k \in i + 1 .. j - 1 : instructions[k].rd # instructions[i].rd}

\* What a pair of words refers to: an address, a symbol, or nothing sensible
\* because only half of it is relocated.
Refers(page, low, R, Q) ==
  IF R = {} /\ Q = {} THEN <<"address", page + low, 0>>
  ELSE IF \E r \in R, q \in Q : r.symbol = q.symbol /\ r.addend = q.addend
  THEN LET r == CHOOSE r \in R : TRUE IN <<"symbol", r.symbol, r.addend>>
  ELSE <<"broken", 0, 0>>

\* The relocation that the section has at an address.
OwnRelocAt(a) ==
  IF input.container
  THEN FirstReloc({n \in DOMAIN input.relocs :
                     LET r == input.relocs[n] IN
                     r.kind \in LiftRelocs /\ r.section = "text" /\ input.base + r.offset = a})
  ELSE {}

SourceRefers(i, j) ==
  Refers(instructions[i].target, instructions[j].imm,
         OwnRelocAt(instructions[i].address), OwnRelocAt(instructions[j].address))

\* The relocations of a word that somebody applies: the linker those of an object,
\* nobody those of a final image, where the word stays as it was emitted.
AppliedTo(o, k) == IF input.relocatable THEN RelocsOn(o, k) ELSE {}

EmittedRefers(o, i, j) ==
  {Refers(o.words[k].val, o.words[l].imm, AppliedTo(o, k), AppliedTo(o, l)) :
     k \in WordsFor(o, instructions[i].address), l \in WordsFor(o, instructions[j].address)}

FusedInto(p, i) ==
  {m \in UNION {{p[b][n] : n \in DOMAIN p[b]} : b \in DOMAIN p} :
     m.op = "macro" /\ m.originals[1].orig = instructions[i].address}

BlocksAt(a) == {b \in DOMAIN blocks : blocks[b].start = a}

\* A reference to a symbol: the address where it, or its stub, is after the
\* emission o, and in an object also a relocation that names it.
ToSymbol(o, s, addend) ==
  LET at == IF Symbol(s).undefined THEN Moved(o.view, Symbol(s).stub)
            ELSE callable_address_of_symbol(o.view, s)
  IN {<<"address", at + addend, 0>>}
     \cup (IF input.relocatable THEN {<<"symbol", s, addend>>} ELSE {})

\* Where a reference of the source should point after the emission o.  Only a
\* symbolic one follows a block of the plan.
Wanted(o, ref, symbolic) ==
  IF ref[1] = "symbol" THEN ToSymbol(o, ref[2], ref[3])
  ELSE LET a == ref[2]
           b == IF symbolic THEN BlocksAt(a) ELSE {}
           s == IF symbolic /\ input.container THEN symbol_at_address(a) ELSE {}
       IN IF b # {} THEN {<<"address", BlockAddress(o.plan, o.view, LowestOf(b)), 0>>}
          ELSE IF s # {} THEN UNION {ToSymbol(o, t, 0) : t \in s}
          ELSE {<<"address", Moved(o.view, a), 0>>}

Untouched(i) == \A e \in Succeeded({"redirect_branch", "redirect_macro"}) : e.at # instructions[i].address

\* The cases in which the code does lose a reference.  A relocation of another
\* section is taken for the instruction's.
Misattributed(i) == RelocAt(instructions[i].address) # OwnRelocAt(instructions[i].address)

AddendDropped(i) == \E r \in OwnRelocAt(instructions[i].address) : r.addend # 0

\* Of an adrp and a companion that are not in one macro, only the adrp's
\* relocation comes back.
LoneCompanion(o, i, j) ==
  /\ SourceRefers(i, j)[1] # "address"
  /\ \A m \in FusedInto(o.plan, i) : m.originals[2].orig # instructions[j].address

FoldedAccess(o, i) ==
  \E m \in FusedInto(o.plan, i) : m.kind = "AccessValue" /\ MacroRelocs(o.view, m) = {}

\* A bare page is shifted by where the page is, not by where the reference goes.
AcrossInsert(o, i, j) ==
  /\ o.view.shift > 0 /\ FusedInto(o.plan, i) = {}
  /\ LET page == instructions[i].target
         low  == instructions[j].imm
     IN (page < input.base) # (page + low < input.base)

AtHome(o, a) == \E k \in WordsFor(o, a) : o.view.base + k - 1 = a

\* A macro at its own address is copied, although what it refers to moved: with
\* the image behind the gap, or with a block behind an insertion or a removal.
CopiedStale(o, i, j) ==
  /\ o.mode = "grown_gap" \/ Resized
  /\ FusedInto(o.plan, i) # {}
  /\ AtHome(o, instructions[i].address) \/ AtHome(o, instructions[j].address)

\* The reference became a relocation that nobody applies to a final image, as in
\* adrp #0 or a branch to itself.
Unapplied(o, a) == ~input.relocatable /\ \E k \in WordsFor(o, a) : RelocsOn(o, k) # {}

LosesReference(o, i, j) ==
  \/ Misattributed(i) \/ Misattributed(j)
  \/ Unapplied(o, instructions[i].address) \/ Unapplied(o, instructions[j].address)
  \/ AddendDropped(i) \/ LoneCompanion(o, i, j) \/ FoldedAccess(o, i)
  \/ AcrossInsert(o, i, j) \/ CopiedStale(o, i, j)

\* An adrp pair nobody edited still refers to what it referred to.
PairsKeepTheirReference ==
  \A o \in Outs : \A ij \in Pairs :
    LET i == ij[1] j == ij[2] IN
    (/\ SourceRefers(i, j)[1] # "broken"
     /\ Untouched(i) /\ Untouched(j)) =>
      \/ EmittedRefers(o, i, j) \subseteq Wanted(o, SourceRefers(i, j), FusedInto(o.plan, i) # {})
      \/ LosesReference(o, i, j)

\* What a direct branch word refers to.
BranchRefers(o, k) ==
  IF AppliedTo(o, k) = {} THEN <<"address", o.words[k].val, 0>>
  ELSE LET r == CHOOSE r \in AppliedTo(o, k) : TRUE IN <<"symbol", r.symbol, r.addend>>

BranchSource(i) ==
  LET R == OwnRelocAt(instructions[i].address) IN
  IF R = {} THEN <<"address", instructions[i].target, 0>>
  ELSE LET r == CHOOSE r \in R : TRUE IN <<"symbol", r.symbol, r.addend>>

\* A branch nobody edited still goes where it went: to the block, the symbol or
\* the address, as far as that moved.
BranchesKeepTheirTarget ==
  \A o \in Outs : \A i \in 1 .. N :
    (/\ instructions[i].kind \in Targeted
     /\ Untouched(i) /\ ~AddendDropped(i) /\ ~Misattributed(i)
     /\ ~Unapplied(o, instructions[i].address)) =>
      \A k \in WordsFor(o, instructions[i].address) :
        BranchRefers(o, k) \in Wanted(o, BranchSource(i), TRUE)

\* Lifting, fusion and expansion are transparent: what nobody edited still refers
\* to what it referred to, through the edits around it and emission in place, as a
\* copy or under a grow, but for the named cases (plan.rs lift_instruction
\* and resolve_address, isa/aarch64/fusion.rs and macro_emit.rs, editor.rs
\* shift_plan_absolute_targets and commit_grown).
ReferencesSurvive == PairsKeepTheirReference /\ BranchesKeepTheirTarget

\* The fused pair that a redirect names by either address.
RedirectedPairs(o, e) ==
  {ij \in Pairs : /\ FusedInto(o.plan, ij[1]) # {}
                 /\ e.at \in {instructions[ij[1]].address, instructions[ij[2]].address}
                 /\ ij[2] = ij[1] + 1}

\* What a redirected op refers to.
RedirectedRefers(o, e) ==
  IF e.edit = "redirect_branch"
  THEN {BranchRefers(o, k) : k \in WordsFor(o, e.at)}
  ELSE UNION {EmittedRefers(o, ij[1], ij[2]) : ij \in RedirectedPairs(o, e)}

NewReference(o, t) ==
  IF t.kind = "symbol" /\ input.container THEN ToSymbol(o, t.v, 0)
  ELSE {<<"address",
          resolve_target(o.plan, o.view, IF o.view.shift > 0 THEN Bump(t) ELSE t), 0>>}

LastRedirectAt(e) ==
  \A n \in DOMAIN log :
    log[n] = e => \A m \in n + 1 .. Len(log) :
      ~(log[m].edit = e.edit /\ log[m].result = "Ok")

RedirectEffective(o, e) == RedirectedRefers(o, e) \subseteq NewReference(o, e.target)

\* The macro landed at its own address and its bytes were copied from the source.
CopiedAtHome(o, e) ==
  /\ e.edit = "redirect_macro"
  /\ \E m \in UNION {FusedInto(o.plan, i) : i \in 1 .. N} :
       /\ e.at \in OriginalAddresses(m)
       /\ \E k \in WordsFor(o, m.originals[1].orig) :
            o.view.base + k - 1 = m.originals[1].orig /\ o.words[k] = SourceWord(m.originals[1].orig)

\* The folded form of an access ignores the macro's target.
FoldedAccessRedirect(o, e) ==
  \E i \in 1 .. N : /\ FoldedAccess(o, i)
                     /\ e.at \in {instructions[i].address, instructions[i].address + 1}

\* The new reference became a relocation that nobody applies to a final image.
UnappliedRedirect(o, e) ==
  IF e.edit = "redirect_branch" THEN Unapplied(o, e.at)
  ELSE \E ij \in RedirectedPairs(o, e) : \E i \in {ij[1], ij[2]} : Unapplied(o, instructions[i].address)

\* A grow moves the stub of an import, and the op goes to where it was.
StubLeftBehind(o, e) ==
  LET t == e.target IN
  /\ t.kind = "symbol" /\ Symbol(t.v).undefined
  /\ Moved(o.view, Symbol(t.v).stub) # Symbol(t.v).stub

\* A redirect that returned Ok decides what the emitted op refers to, for every
\* later edit of other ops and every kind of emission, unless the macro's source
\* bytes are copied, its folded access ignores the target, the target became a
\* relocation of a final image, or it is the stub of an import under a grow
\* (plan.rs redirect_branch and redirect_macro_target).
RedirectsTakeEffect ==
  \A o \in Outs : \A e \in Succeeded({"redirect_branch", "redirect_macro"}) :
    (LastRedirectAt(e) /\ overlays = {}) =>
      \/ RedirectEffective(o, e)
      \/ CopiedAtHome(o, e) \/ FoldedAccessRedirect(o, e)
      \/ UnappliedRedirect(o, e) \/ StubLeftBehind(o, e)

\* redirect_macro_target_at "change[s] a macro's target" (README.md): the
\* committed section refers to the new one.
MacroRedirectsTakeEffect ==
  \A o \in Outs : \A e \in Succeeded({"redirect_macro"}) :
    (/\ o.mode = "commit" /\ LastRedirectAt(e) /\ overlays = {}
     /\ ~FoldedAccessRedirect(o, e) /\ ~UnappliedRedirect(o, e)) =>
      RedirectEffective(o, e)

\* Ops that come from the source stay in source order and stand for each address
\* once, whatever sequence of splits, insertions, removals and replacements was
\* made, so an address never names the wrong op (plan.rs locate).
SourceOrderKept ==
  pc = "edit" =>
    \A x, y \in Places(plan) :
      (x # y /\ Before(x, y)) =>
        \A a \in OriginalAddresses(OpAt(plan, x)) \ {-1},
           c \in OriginalAddresses(OpAt(plan, y)) \ {-1} : a < c

\* An overlay replaces exactly the code that was at its address, as long as no
\* edit changed the length of what comes before (editor.rs
\* commit_lifted_section and emit_lifted_section_shifted, which pass over an
\* overlay that does not fit).
OverlaysLand ==
  \A o \in Outs :
    (o.mode \in {"commit", "grown_text"} /\ ~Resized) =>
      \A v \in overlays :
        v.va + v.len <= input.base + N =>
          \A a \in v.va .. v.va + v.len - 1 : WordsFor(o, a) = {}

\* The instructions a relocation of a kind can patch.
Patchable(kind) ==
  CASE kind = "AdrpPage21"            -> {"adrp"}
    [] kind = "AddPageOffset12"       -> {"add", "mov"}
    [] kind = "LoadStorePageOffset12" -> {"ldst"}
    [] kind = "Branch"                -> {"other", "new"}

\* After a commit the section's relocations are those of the new bytes: each
\* sits on an instruction it can patch (or under an overlay), is found by its
\* own id, and the other sections keep theirs (commit.rs).
RelocationsFitTheBytes ==
  \A o \in Outs : o.mode = "commit" =>
    /\ \A n \in DOMAIN container.relocs :
         LET r == container.relocs[n] IN
         r.section = "text" =>
           /\ r.id = n - 1
           /\ r.offset + 1 \in DOMAIN o.words
           /\ o.words[r.offset + 1].mn \in Patchable(r.kind) \cup {"overlay"}
    /\ OtherSections(container.relocs) = OtherSections(input.relocs)
=============================================================================
