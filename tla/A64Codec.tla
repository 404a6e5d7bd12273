------------------------------ MODULE A64Codec ------------------------------
(***************************************************************************)
(* Decoding and encoding one AArch64 instruction                           *)
(* (src/isa/aarch64/mod.rs, table.rs, isa_impl.rs) as emission uses them   *)
(* (src/rewrite/emit.rs): a word is decoded where it stands; where the     *)
(* layout places it, it is copied, encoded again from its operands, or     *)
(* widened to an inverted branch over a far one.                           *)
(***************************************************************************)
EXTENDS A64Operand, SequencesExt

CONSTANTS
  Opcodes,     \* the rows of the opcode table, each with its index
  Probes,      \* the instruction words to decode
  Home,        \* the address a word is decoded at
  Places       \* the addresses it may be emitted at

VARIABLES
  word,        \* the original word
  place,       \* where it is emitted
  decoded,     \* DecodedInstruction, or a failure
  emitted,     \* the words emitted, none after an EncodeError
  stage        \* "fetched" | "decoded" | "moved" | "changed" | "widened" | "undecodable"

vars == <<word, place, decoded, emitted, stage>>

-----------------------------------------------------------------------------
(* match_opcode *)

system_op_fields(w) == Numbers(w, SysOpFields)

\* is_bitfield_alias: the mask of the bit-field rows, 0x7f800000.
is_bitfield_alias(row) == row.mask = Hex(\h7f80, 0)

alias_applies(w, row) ==
  LET immr == Fld(w, 16, 6)  imms == Fld(w, 10, 6) IN
  CASE row.name \in InsertAliases -> imms < immr
    [] row.name \in ExtractAliases -> imms >= immr
    [] row.name = "lsl" /\ is_bitfield_alias(row) -> imms + 1 = immr
    [] row.name \in {"lsr", "asr"} /\ is_bitfield_alias(row) -> imms = bitfield_max(w)
    [] row.name = "ror" /\ row.class = "Extract" -> rn(w) = rm(w)
    [] row.name \in {"sxtl", "sxtl2", "uxtl", "uxtl2"} -> FALSE
    [] row.name \in {"cinc", "cinv"} /\ row.class = "Condsel" -> rn(w) = rm(w) /\ rn(w) # 31
    [] row.name = "cneg" /\ row.class = "Condsel" -> rn(w) = rm(w)
    [] row.name = "at" -> system_op_fields(w) \in DOMAIN SysOpNames.SysregAt
    [] row.name = "dc" -> system_op_fields(w) \in DOMAIN SysOpNames.SysregDc
    [] row.name = "ic" -> system_op_fields(w) \in DOMAIN SysOpNames.SysregIc
    [] row.name = "tlbi" -> system_op_fields(w) \in DOMAIN SysOpNames.SysregTlbi
    [] row.class \in {"Asisdlse", "Asisdlsep"} -> simd_ldst_list_digit(w) = StructureDigit(row.name)
    [] OTHER -> TRUE

is_variable_shift_alias(current, candidate) ==
  <<current, candidate>> \in {<<"lslv", "lsl">>, <<"lsrv", "lsr">>, <<"asrv", "asr">>, <<"rorv", "ror">>}

\* Whether a later row of the table displaces the best one so far.
should_replace_match(current, candidate) ==
  IF candidate.weight # current.weight THEN candidate.weight > current.weight
  ELSE IF candidate.conv # current.conv
  THEN candidate.conv /\ (current.alias \/ candidate.class = current.class)
  ELSE \/ candidate.conv
       \/ is_variable_shift_alias(current.name, candidate.name)
       \/ current.name = "sys" /\ candidate.name \in {"at", "dc", "ic", "tlbi"}
       \/ /\ current.name \in {"umov", "ins"}
          /\ candidate.name = "mov" /\ candidate.class = "Asimdins"
       \/ ~candidate.alias /\ current.alias

\* Rows that bits 28:24 of a word leave possible: only an index into the table.
Possible ==
  [g \in 0..31 |->
     {row \in Opcodes :
        /\ row.ones \cap (24..28) \subseteq Put(g, 24, 5)
        /\ row.zeros \cap Put(g, 24, 5) = {}}]

\* The rows that match w.
Matches(w) ==
  {row \in Possible[Fld(w, 24, 5)] :
     row.ones \subseteq w /\ row.zeros \cap w = {} /\ alias_applies(w, row)}

\* The row the scan of the matching rows ends on, none when there are none.
match_opcode(w) ==
  FoldLeft(LAMBDA best, row :
             IF best = <<>> \/ should_replace_match(best[1], row) THEN <<row>> ELSE best,
           <<>>, SetToSortSeq(Matches(w), LAMBDA r, s : r.index < s.index))

-----------------------------------------------------------------------------
(* decode_instruction and encode_instruction *)

Undecodable == [ok |-> FALSE, name |-> "", operands |-> <<>>, class |-> "", kinds |-> <<>>]

Decoded(row, ops) ==
  IF \E n \in 1..Len(ops) : ops[n].t = "InvalidOperand" THEN Undecodable
  ELSE [ok |-> TRUE, name |-> row.name, operands |-> ops, class |-> row.class, kinds |-> row.kinds]

DecodeAs(pc, w, match) ==
  IF match = <<>> THEN Undecodable
  ELSE LET row == match[1] IN
       Decoded(row, [n \in 1..Len(row.kinds) |-> decode_operand(row.kinds[n], w, pc, row, n - 1)])

decode_instruction(pc, w) == DecodeAs(pc, w, match_opcode(w))

\* A mutant: no alias has anything to put back.
alias_implicit_nothing(name, ops) == Ok({})

\* Fields an alias leaves out of its operands.
alias_implicit_bits(name, ops) ==
  CASE name = "cinc" ->
         IF Len(ops) < 2 \/ ~IsReg(ops[2], {"W", "X"}) THEN Err
         ELSE Ok(Put(ops[2].index, 16, 5))
    [] name \in {"sxtb", "sxth", "uxtb", "uxth"} ->
         IF ops = <<>> \/ ops[1].t # "Register" THEN Err
         ELSE Ok(Bit(ops[1].class = "X", 22))
    [] OTHER -> Ok({})

OrInto(bits, e) == When(e.ok, bits \cup e.bits)

\* Operands are or-ed into the base opcode from left to right.
EncodeRow(row, ops, pc) ==
  FoldLeft(LAMBDA acc, n :
             IF acc.ok THEN OrInto(acc.bits, encode_operand(row.kinds[n], ops[n], acc.bits, pc, row))
             ELSE acc,
           Ok(row.base), [n \in 1..Len(ops) |-> n])

opcodes_for_mnemonic(name) == {row \in Opcodes : row.name = name}

\* The first candidate whose operand encoders all accepted and whose mask the
\* word still satisfies.
FirstAccepted(implicit, candidates) ==
  LET Fits(c) == c.word.ok /\ (c.word.bits \cup implicit.bits) \cap c.row.mask = c.row.ones
      First(fitting) == CHOOSE c \in fitting : \A other \in fitting : c.row.index <= other.row.index
  IN  IF implicit.ok /\ \E c \in candidates : Fits(c)
      THEN Ok(First({c \in candidates : Fits(c)}).word.bits \cup implicit.bits)
      ELSE Err

encode_instruction(name, ops, pc) ==
  FirstAccepted(alias_implicit_bits(name, ops),
                {[row |-> row, word |-> EncodeRow(row, ops, pc)] :
                   row \in {r \in opcodes_for_mnemonic(name) : Len(r.kinds) = Len(ops)}})

-----------------------------------------------------------------------------
(* Emission *)

OneWord(e) == IF e.ok THEN <<e.bits>> ELSE <<>>

IsPcRel(o) == o.t \in {"BranchTarget", "PageTarget"}     \* pcrel_kind

\* A mutant: source bytes are never copied.
verbatim_never(d, to) == FALSE

\* The original word stands for an unmodified instruction at its own address,
\* and anywhere when no operand of it is PC-relative.
verbatim_bytes(d, to) ==
  to = Home \/ \A n \in 1..Len(d.operands) : ~IsPcRel(d.operands[n])

emit_instruction(d, w, to) ==
  IF verbatim_bytes(d, to) THEN <<w>>
  ELSE OneWord(encode_instruction(d.name, d.operands, to))

\* Inverse pairs; the relation is symmetric.
InversePairs ==
  {<<"beq", "bne">>, <<"bcs", "bcc">>, <<"bmi", "bpl">>, <<"bvs", "bvc">>, <<"bhi", "bls">>,
   <<"bge", "blt">>, <<"bgt", "ble">>, <<"cbz", "cbnz">>, <<"tbz", "tbnz">>}
Widenable == UNION {{p[1], p[2]} : p \in InversePairs}
invert_conditional_branch(name) ==
  CHOOSE other \in Widenable : {<<name, other>>, <<other, name>>} \cap InversePairs # {}

TwoWords(first, second) ==
  IF first.ok /\ second.ok THEN <<first.bits, second.bits>> ELSE <<>>

\* The inverted branch, over the eight bytes of the widened form.
Skip(d, here) ==
  encode_instruction(invert_conditional_branch(d.name),
                     [n \in 1..Len(d.operands) |->
                        IF d.operands[n].t = "BranchTarget" THEN Branch(here + 8) ELSE d.operands[n]],
                     here)

\* A mutant: the far branch is encoded for the address of the first.
encode_widened_from_here(d, here, far) ==
  TwoWords(Skip(d, here), encode_instruction("b", <<Branch(far)>>, here))

\* The inverted branch skips over an unconditional branch to the far target.
encode_widened_conditional(d, here, far) ==
  TwoWords(Skip(d, here), encode_instruction("b", <<Branch(far)>>, here + 4))

\* pc_relative_target: the position of the operand that refers to an address.
Target(d) == CHOOSE n \in 1..Len(d.operands) : IsPcRel(d.operands[n])

-----------------------------------------------------------------------------

Init ==
  /\ word \in Probes
  /\ place = Home
  /\ decoded = Undecodable
  /\ emitted = <<>>
  /\ stage = "fetched"

Decode ==
  /\ stage = "fetched"
  /\ decoded' = decode_instruction(Home, word)
  /\ stage' = IF decoded'.ok THEN "decoded" ELSE "undecodable"
  /\ UNCHANGED <<word, place, emitted>>

\* An instruction no pass touched, at any address.
EmitUnmodified ==
  /\ stage = "decoded"
  /\ \E to \in Places :
       /\ place' = to
       /\ emitted' = emit_instruction(decoded, word, to)
  /\ stage' = "moved"
  /\ UNCHANGED <<word, decoded>>

\* An instruction a pass put there with these operands: no source bytes to copy.
EmitChanged ==
  /\ stage = "decoded"
  /\ emitted' = OneWord(encode_instruction(decoded.name, decoded.operands, Home))
  /\ stage' = "changed"
  /\ UNCHANGED <<word, place, decoded>>

\* A conditional branch the layout gave the widened form.
EmitWidened ==
  /\ stage = "decoded"
  /\ decoded.name \in Widenable
  /\ \E to \in Places :
       /\ place' = to
       /\ emitted' = encode_widened_conditional(decoded, to, decoded.operands[Target(decoded)].target)
  /\ stage' = "widened"
  /\ UNCHANGED <<word, decoded>>

Next == Decode \/ EmitUnmodified \/ EmitChanged \/ EmitWidened

Spec == Init /\ [][Next]_vars
-----------------------------------------------------------------------------
(* Properties *)

Class(d) == d.class
Kinds(d) == Range(d.kinds)
SameMeaning(d, e) == e.ok /\ e.name = d.name /\ e.operands = d.operands

\* The architecture's reach of each PC-relative operand, in units of the field.
Reaches(d, from) ==
  LET o == d.operands[Target(d)]
      Within(distance, bits) == distance >= -(2^bits) /\ distance < 2^bits
  IN  CASE "AddrAdrp" \in Kinds(d)    -> Within(o.page - (from \div PageSize), 20)
        [] "AddrPcrel21" \in Kinds(d) -> Within(o.target - from, 20)
        [] "AddrPcrel14" \in Kinds(d) -> Within(o.target - from, 15)
        [] "AddrPcrel19" \in Kinds(d) -> Within(o.target - from, 20)
        [] "AddrPcrel26" \in Kinds(d) -> Within(o.target - from, 27)

\* Literal loads of a 64-bit or a SIMD register, whose width encode_rt_register
\* and encode_ft_register do not put where the literal form keeps it.
WideLiteralLoad(d) ==
  /\ Class(d) = "Loadlit" /\ d.name = "ldr"
  /\ d.operands[1].class # "W"

\* MovedReferencesLand: an unmodified PC-relative instruction emitted at another
\* address refers to the address it referred to, and is refused only when the
\* field cannot reach it (or it is a wide literal load): emit_instruction with
\* encode_pcrel, encode_pcrel21 and encode_adrp at both ends of their ranges.
MovedReferencesLand ==
  stage = "moved" /\ (\E n \in 1..Len(decoded.operands) : IsPcRel(decoded.operands[n])) =>
    IF emitted = <<>> THEN ~Reaches(decoded, place) \/ WideLiteralLoad(decoded)
    ELSE \E d \in {decode_instruction(place, emitted[1])} :
           d.ok /\ d.operands[Target(d)] = decoded.operands[Target(decoded)]

\* MovedKeepsMeaning: an unmodified instruction decodes, where it is emitted, to
\* the mnemonic and operands it was lifted with.  Literal loads into SIMD
\* registers and b.nv are the exceptions: the SIMD width is read from a bit of
\* the offset, and the never condition is encoded as eq.
MovedKeepsMeaning ==
  stage = "moved" /\ emitted # <<>> =>
    \/ SameMeaning(decoded, decode_instruction(place, emitted[1]))
    \/ WideLiteralLoad(decoded)
    \/ decoded.name = "b.c"

\* MovedLiteralLoadsKeepTheirRegister: a literal load that is emitted elsewhere
\* still loads the register it loaded, at that width (emit_instruction falls
\* back to encode_instruction for every PC-relative operand).
MovedLiteralLoadsKeepTheirRegister ==
  stage = "moved" /\ emitted # <<>> /\ Class(decoded) = "Loadlit" =>
    SameMeaning(decoded, decode_instruction(place, emitted[1]))

\* Forms whose operands do not carry all that the encoder needs.
NotRepresentable(d) ==
  \/ WideLiteralLoad(d)
  \/ "Em" \in Kinds(d)                              \* by-element size 0 and 3
  \/ {"Ft2", "AddrSimm7"} \subseteq Kinds(d)         \* offset scaled for D pairs only
  \/ {"SimdAddrPost", "LvtAl"} \subseteq Kinds(d)
  \/ <<d.name, Class(d)>> \in
       {<<"b.c", "Condbranch">>, <<"dup", "Asimdins">>, <<"mov", "LogShift">>,
        <<"fmov", "Asimdimm">>, <<"cneg", "Condsel">>, <<"cinv", "Condsel">>, <<"ror", "Extract">>}
  \/ d.name = "add" /\ d.operands[3] = Imm(0)       \* add #0, lsl 12 becomes mov
  \/ d.name \in InsertAliases /\ 31 \notin word /\ 21 \in word    \* unallocated

\* ReencodingKeepsMeaning: encoding the operands of a decoded instruction yields
\* a word that decodes to the same mnemonic and operands, outside the forms
\* above: the row encode_instruction takes, its aliases' implicit fields and the
\* row match_opcode prefers agree over the whole table.
ReencodingKeepsMeaning ==
  stage = "changed" /\ emitted # <<>> =>
    \/ SameMeaning(decoded, decode_instruction(place, emitted[1]))
    \/ NotRepresentable(decoded)

\* Condition of a branch word: for b.cond the low bit of cond, for cbz, cbnz,
\* tbz and tbnz bit 24, tells a branch from its inverse.
SenseBit(d) == IF Class(d) = "Condbranch" THEN 0 ELSE 24

\* WidenedBranchesAgree: the widened form tests what the original tested with the
\* opposite sense, skips itself when that holds and otherwise branches to the
\* original target (encode_widened_conditional).
WidenedBranchesAgree ==
  stage = "widened" /\ emitted # <<>> =>
    \E d1 \in {decode_instruction(place, emitted[1])} :
    \E d2 \in {decode_instruction(place + 4, emitted[2])} :
      LET sense == {SenseBit(decoded)}
          offset == IF Class(decoded) = "Testbranch" THEN 5..18 ELSE 5..23
      IN  /\ d1.ok /\ d2.ok
          /\ emitted[1] \ offset = ((word \ offset) \ sense) \cup (sense \ word)
          /\ d1.operands[Target(d1)] = Branch(place + 8)
          /\ d2.name = "b" /\ d2.operands[1] = decoded.operands[Target(decoded)]
=============================================================================
