------------------------------- MODULE MCPlan -------------------------------
(***************************************************************************)
(* Three families of inputs.  Graph inputs: every slice of up to three     *)
(* instructions over every kind, the first one or two units long, with     *)
(* targets inside the slice, inside an instruction and outside; they are   *)
(* lifted and copied, never edited.  Image inputs: slices with an adrp, of *)
(* a final image, whose page and companion vary.  Object inputs: the same  *)
(* in a relocatable object whose relocations vary.                         *)
(***************************************************************************)
EXTENDS LiftedCommit

Base == 10

Insn(mn, kind, t, rd, rn, imm, size) ==
  [mn |-> mn, kind |-> kind, target |-> t, rd |-> rd, rn |-> rn, imm |-> imm, size |-> size]

Placed(s, base) ==
  [i \in DOMAIN s |->
     s[i] @@ [address |-> base + (IF i = 1 THEN 0 ELSE s[1].size + i - 2)]]

Plain(kind, t, size) == Insn("other", kind, t, "none", "none", 0, size)
Fall == Plain("Fall", 0, 1)
Jump(t) == Plain("Jump", t, 1)
Cond(t) == Plain("ConditionalJump", t, 1)
Adrp(page) == Insn("adrp", "Fall", page, "x0", "none", 0, 1)
Add(r, imm) == Insn("add", "Fall", 0, r, r, imm, 1)
Mov == Insn("mov", "Fall", 0, "x0", "x0", 0, 1)
Ldst(imm) == Insn("ldst", "Fall", 0, "x1", "x0", imm, 1)
VectorLdst == Insn("ldst", "Fall", 0, "q1", "x0", 0, 1)

Bodies ==
  {<<k, t>> : k \in Targeted, t \in Base - 1 .. Base + 3}
  \cup {<<k, 0>> : k \in Kinds \ Targeted}

GraphSlices ==
  {<<>>}
  \cup {Placed(<<Plain(b[1], b[2], n)>>, Base) : b \in Bodies, n \in 1 .. 2}
  \cup {Placed(<<Plain(b[1], b[2], n), Plain(c[1], c[2], 1)>>, Base) :
          b \in Bodies, c \in Bodies, n \in 1 .. 2}
  \cup {Placed(<<Plain(b[1], b[2], n), Plain(c[1], c[2], 1), Plain(d[1], d[2], 1)>>, Base) :
          b \in Bodies, c \in Bodies, d \in Bodies, n \in 1 .. 2}

ImageSlices ==
  UNION {{Placed(<<a, b, c>>, Base), Placed(<<c, a, b>>, Base)} :
           a \in {Adrp(8), Adrp(12), Adrp(20)},
           b \in {Add("x0", 0), Add("x0", 1), Add("w0", 1), Mov, Ldst(3), Fall},
           c \in {Fall, Jump(12), Jump(20), Cond(21), Add("x0", 2)}}

\* Edited twice: a pair that reaches a symbol, one that reaches its own code,
\* one that is not fused, and branches in and out.
TwiceSlices ==
  {Placed(<<Adrp(20), Add("x0", 1), Jump(12)>>, Base),
   Placed(<<Adrp(8), Add("x0", 2), Jump(10)>>, Base),
   Placed(<<Cond(21), Adrp(12), Ldst(0)>>, Base)}

ObjectSlices ==
  {Placed(<<Adrp(0), b, c>>, 0) :
     b \in {Add("x0", 0), Mov, Ldst(0), VectorLdst, Fall}, c \in {Fall, Jump(2), Add("x0", 0)}}

\* f is in the text, d in another section, u is undefined, sec names a section,
\* gap is a function placed in the gap of a grow, plt an import with a stub.
Sym(a, section, undef, stub, isSection) ==
  [address |-> a, section |-> section, undefined |-> undef, stub |-> stub,
   section_kind |-> isSection]

ImageSymbols ==
  <<Sym(12, "text", FALSE, -1, FALSE), Sym(21, "data", FALSE, -1, FALSE),
    Sym(0, "none", TRUE, -1, FALSE), Sym(20, "data", FALSE, -1, TRUE),
    Sym(10, "none", FALSE, -1, FALSE), Sym(0, "none", TRUE, 30, FALSE)>>

ObjectSymbols ==
  [ImageSymbols EXCEPT ![1].address = 2, ![2].address = 1, ![4].address = 0, ![6].stub = -1]

Reloc12(mn) == IF mn = "ldst" THEN "LoadStorePageOffset12" ELSE "AddPageOffset12"

RelocOn(at, kind, s, addend) ==
  [section |-> "text", offset |-> at, kind |-> kind, symbol |-> s, addend |-> addend]

DataReloc == [RelocOn(1, "Absolute", 2, 0) EXCEPT !.section = "data"]

Numbered(s) == [i \in DOMAIN s |-> s[i] @@ [id |-> i - 1]]

\* A pair for one symbol on the adrp and a companion, among those of a data
\* section, with and without an addend; a branch may have one too, and an addend,
\* and a section at the same address one of its own.
ObjectRelocs(slice) ==
  LET companions == {j \in {1, 2} : slice[j + 1].mn \in {"add", "ldst"}}
      branch(t, n) == IF slice[3].kind = "Jump" THEN <<RelocOn(2, "Branch", t, n)>> ELSE <<>>
  IN {Numbered(<<DataReloc, RelocOn(0, "AdrpPage21", s, n),
                 RelocOn(j, Reloc12(slice[j + 1].mn), s, n), DataReloc>> \o branch(t, 0)) :
        s \in 1 .. 4, t \in {1, 2, 3}, n \in {0, 2}, j \in companions}
     \cup {Numbered(<<RelocOn(0, "AdrpPage21", s, 0)>> \o branch(s, n)) :
             s \in {1, 2}, n \in {0, 1}}
     \cup {Numbered(<<RelocOn(0, "AdrpPage21", s, 0), RelocOn(1, Reloc12(slice[2].mn), s, 0),
                      RelocOn(2, Reloc12(slice[3].mn), s, 0)>>) :
             s \in {x \in {2, 3} : companions = {1, 2}}}
     \cup {Numbered(<<[RelocOn(0, "AdrpPage21", 1, 0) EXCEPT !.section = "cold"],
                      RelocOn(0, "AdrpPage21", 2, 0), RelocOn(1, Reloc12(slice[2].mn), 2, 0)>>) :
             j \in companions \ {2}}
     \cup {Numbered(<<[RelocOn(2, "Branch", 1, 0) EXCEPT !.section = "cold"]>> \o branch(2, 0)) :
             n \in {1} \cap DOMAIN branch(2, 0)}

\* The other sections of an object are at 0 too.
Input(slice, base, con, rel, macho, syms, relocs, edits) ==
  [slice |-> slice, base |-> base, others |-> 2 * base, container |-> con, relocatable |-> rel,
   macho |-> macho, symbols |-> syms, relocs |-> relocs, edits |-> edits]

\* An ELF image that kept its relocations.
LinkedInputs ==
  {Input(Placed(<<Adrp(20), b, c>>, Base), Base, TRUE, FALSE, FALSE, ImageSymbols,
         Numbered(<<RelocOn(0, "AdrpPage21", 2, 0), RelocOn(1, Reloc12(b.mn), 2, 0)>>), 1) :
     b \in {Add("x0", 1), Ldst(1)}, c \in {Fall, Jump(11), Ldst(1)}}

MCInputs ==
  {Input(s, Base, FALSE, FALSE, FALSE, ImageSymbols, <<>>, 0) : s \in GraphSlices}
  \cup {Input(s, Base, TRUE, FALSE, m, ImageSymbols, <<>>, 1) : s \in ImageSlices, m \in BOOLEAN}
  \cup {Input(s, Base, c, FALSE, TRUE, ImageSymbols, <<>>, 2) : s \in TwiceSlices, c \in BOOLEAN}
  \cup UNION {{Input(s, 0, TRUE, TRUE, FALSE, ObjectSymbols, r, 1) : r \in ObjectRelocs(s)} : s \in ObjectSlices}
  \cup LinkedInputs

MCNewTargets == {At("absolute", 24), At("symbol", 2), At("symbol", 3), At("symbol", 6),
                 At("block", 1)}
=============================================================================
