----------------------------- MODULE A64Operand -----------------------------
(***************************************************************************)
(* The AArch64 operand codec (src/isa/aarch64/operand.rs): for each        *)
(* operand kind of the opcode table, the decoder that reads an operand     *)
(* from an instruction word and the encoder that returns the bits an       *)
(* operand contributes to one.  A row of the table is a record with name,  *)
(* class, base, mask, kinds and the alias flags.  Operands are records     *)
(* tagged with the constructor of DecodedOperand; 64-bit immediates are    *)
(* bit sets and page targets are split into page and offset, so that no    *)
(* integer passes 2^31.                                                    *)
(***************************************************************************)
EXTENDS Words, TLC, Sequences

CONSTANT PageSize    \* granule of adrp

Reg(class, index) == [t |-> "Register", class |-> class, index |-> index]
Imm(v)  == [t |-> "Immediate", v |-> v]
Wide(b) == [t |-> "Immediate64", b |-> b]
Shifted(v, s) == [t |-> "ShiftedImmediate", v |-> v, shift |-> s]
VReg(i, a) == [t |-> "VectorRegister", index |-> i, arrangement |-> a]
VElem(i, e, s) == [t |-> "VectorElement", index |-> i, element |-> e, size |-> s]
VList(f, c, a, e) ==
  [t |-> "VectorList", first |-> f, count |-> c, arrangement |-> a, element |-> e]
System(v) == [t |-> "System", v |-> v]
None == -1              \* an absent list element or register-offset shift
Memory(base, offset, mode) ==
  [t |-> "Memory", base |-> base, offset |-> offset, mode |-> mode]
ImmOffset(v) == [k |-> "Immediate", v |-> v]
RegOffset(r, s) == [k |-> "Register", register |-> r, shift |-> s]
NoOffset == [k |-> "None"]

rd(w) == Fld(w, 0, 5)
rn(w) == Fld(w, 5, 5)
rm(w) == Fld(w, 16, 5)
rt2(w) == Fld(w, 10, 5)

IsReg(o, classes) == o.t = "Register" /\ o.index <= 31 /\ o.class \in classes
IsImm(o, values) == o.t = "Immediate" /\ o.v \in values

-----------------------------------------------------------------------------
(* General-purpose registers. *)

w_reg(i) == Reg("W", i)
x_reg(i) == Reg("X", i)
gp_reg(i, w) == IF 31 \in w THEN x_reg(i) ELSE w_reg(i)
gp_or_sp(i, w) == Reg(IF 31 \in w THEN "XOrSp" ELSE "WOrSp", i)
x_or_sp(i) == Reg("XOrSp", i)
lse_pair_reg(i, w) == IF 30 \in w THEN x_reg(i) ELSE w_reg(i)

is_casp(name) == name \in {"casp", "caspa", "caspl", "caspal"}
is_crc32(name) ==
  name \in {"crc32b", "crc32h", "crc32w", "crc32x",
            "crc32cb", "crc32ch", "crc32cw", "crc32cx"}
is_32_bit_crc32_source(name) ==
  is_crc32(name) /\ name \notin {"crc32x", "crc32cx"}
has_32_bit_multiply_inputs(name) ==
  name \in {"smaddl", "smsubl", "smull", "smnegl",
            "umaddl", "umsubl", "umull", "umnegl"}

\* Trailing zeros of imm5 select the element size: B, H, S, otherwise D.
ElementSizes == <<"B", "H", "S", "D">>
element_size_from_imm5(imm5) ==
  IF imm5 % 2 = 1 THEN "B" ELSE IF imm5 % 4 = 2 THEN "H"
  ELSE IF imm5 % 8 = 4 THEN "S" ELSE "D"
element_size_shift(size) ==
  CASE size = "B" -> 0 [] size = "H" -> 1 [] size = "S" -> 2 [] size = "D" -> 3

rd_reg(w, row) ==
  CASE row.name \in {"adr", "adrp"} -> x_reg(rd(w))
    [] is_crc32(row.name) -> w_reg(rd(w))
    [] row.name \in {"mov", "umov", "smov"} /\ row.class = "Asimdins" ->
         IF element_size_from_imm5(Fld(w, 16, 5)) = "D" THEN x_reg(rd(w)) ELSE w_reg(rd(w))
    [] OTHER -> gp_reg(rd(w), w)

rn_reg(w, row) ==
  IF has_32_bit_multiply_inputs(row.name) \/ is_crc32(row.name)
  THEN w_reg(rn(w)) ELSE gp_reg(rn(w), w)

rm_reg(w, row) ==
  IF has_32_bit_multiply_inputs(row.name) \/ is_32_bit_crc32_source(row.name)
  THEN w_reg(rm(w)) ELSE gp_reg(rm(w), w)

rs_reg(w, row) == IF is_casp(row.name) THEN lse_pair_reg(rm(w), w) ELSE w_reg(rm(w))

\* Access width of a single SIMD and FP load or store: class and log2 bytes.
fp_ldst_width(w) ==
  LET sel == (IF 23 \in w THEN 4 ELSE 0) + Fld(w, 30, 2)
  IN  IF sel <= 3 THEN <<(<<"B", "H", "S", "D">>)[sel + 1], sel>> ELSE <<"Q", 4>>
fp_ldst_reg(i, w) == Reg(fp_ldst_width(w)[1], i)
fp_reg(i, w) == Reg(IF Fld(w, 22, 2) = 1 THEN "D" ELSE "S", i)
fp_load_store_reg(i, w) ==
  Reg(CASE Fld(w, 30, 2) = 0 -> "S" [] Fld(w, 30, 2) = 1 -> "D" [] OTHER -> "Q", i)

PairClasses == {"LdstnapairOffs", "LdstpairOff", "LdstpairIndexed"}
SingleClasses == {"LdstImm9", "LdstPos", "LdstRegoff", "LdstUnscaled"}

ft_reg(i, w, row) ==
  IF row.class \in PairClasses THEN fp_load_store_reg(i, w) ELSE fp_ldst_reg(i, w)

rt_reg(w, row) ==
  LET i == rd(w)  size == Fld(w, 30, 2) IN
  CASE is_casp(row.name) -> lse_pair_reg(i, w)
    [] row.name \in {"cbz", "cbnz"} -> gp_reg(i, w)
    [] row.name \in {"str", "ldr"} /\ Fld(w, 26, 6) = 61 -> fp_ldst_reg(i, w)
    [] row.name = "ldr" /\ size = 0 -> w_reg(i)
    [] row.name \in {"str", "ldr", "stur", "ldur"} /\ size = 2 -> w_reg(i)
    [] row.name \in {"strb", "ldrb", "strh", "ldrh", "sturb", "ldurb", "sturh", "ldurh"} ->
         w_reg(i)
    [] OTHER -> x_reg(i)

encode_gp_register(o, at) ==
  When(IsReg(o, {"W", "X"}), Bit(o.class = "X", 31) \cup Put(o.index, at, 5))

encode_rd_register(o, row) ==
  CASE row.class = "Asimdins" /\ row.name \in {"mov", "smov", "umov"} ->
         When(IsReg(o, {"W", "X"}), Bit(o.class = "X", 30) \cup Put(o.index, 0, 5))
    [] row.class = "Pcreladdr" -> When(IsReg(o, {"X"}), Put(o.index, 0, 5))
    [] OTHER -> encode_gp_register(o, 0)

\* Index 31 is the zero register in W and X and the stack pointer in WOrSp and
\* XOrSp: the zero register is refused so that another row takes it.
encode_gp_or_sp_register(o, at) ==
  When(/\ IsReg(o, {"W", "X", "WOrSp", "XOrSp"})
       /\ o.index = 31 => o.class \in {"WOrSp", "XOrSp"},
       Bit(o.class \in {"X", "XOrSp"}, 31) \cup Put(o.index, at, 5))

encode_status_register(o, row) ==
  IF is_casp(row.name)
  THEN When(IsReg(o, {"W", "X"}) /\ o.index <= 30,
            Bit(o.class = "X", 30) \cup Put(o.index, 16, 5))
  ELSE When(IsReg(o, {"W"}), Put(o.index, 16, 5))

encode_rt_sys_register(o) == When(IsReg(o, {"X"}), Put(o.index, 0, 5))

encode_rt_register(o, row) ==
  LET signed == row.name \in {"ldrsw", "ldrsh", "ldrsb"} /\ row.class \in SingleClasses
      size == CASE row.class = "Testbranch" -> {}
                [] row.class \in {"Ldstexcl", "LseAtomic"} -> Bit(o.class = "X", 30)
                [] row.class \in SingleClasses /\ signed -> {}
                [] row.class \in SingleClasses /\ ~signed ->
                     Bit(o.class \in {"X", "D"}, 30) \cup Bit(o.class \in {"S", "D"}, 31)
                [] OTHER -> Bit(o.class = "X", 31)
      classes == CASE row.class \in SingleClasses /\ signed ->
                        {"B", "H", "S", "D", "Q", "W", "X", "WOrSp", "XOrSp"}
                   [] row.class \in SingleClasses /\ ~signed -> {"W", "X", "S", "D"}
                   [] OTHER -> {"W", "X"}
  IN  When(IsReg(o, classes), size \cup Put(o.index, 0, 5))

encode_pair_register(o) == When(o.t = "Register" /\ o.index \in 1..31, {})

-----------------------------------------------------------------------------
(* Shifted and extended registers. *)

Extends == <<"Uxtb", "Uxth", "Uxtw", "Uxtx", "Sxtb", "Sxth", "Sxtw", "Sxtx">>
Shifts == <<"Lsl", "Lsr", "Asr", "Ror">>
Pos(seq, x) == CHOOSE i \in 1..Len(seq) : seq[i] = x

rm_extended(w) ==
  LET e == Extends[Fld(w, 13, 3) + 1]
  IN  [t |-> "ExtendedRegister", extend |-> e, amount |-> Fld(w, 10, 3),
       register |-> IF e \in {"Uxtx", "Sxtx"} THEN x_reg(rm(w)) ELSE w_reg(rm(w))]

encode_rm_extended(o) ==
  When(/\ o.t = "ExtendedRegister"
       /\ o.amount <= 4
       /\ IsReg(o.register, {IF o.extend \in {"Uxtx", "Sxtx"} THEN "X" ELSE "W"}),
       Put(o.register.index, 16, 5) \cup Put(Pos(Extends, o.extend) - 1, 13, 3)
         \cup Put(o.amount, 10, 3))

rm_shifted(w) ==
  [t |-> "ShiftedRegister", register |-> gp_reg(rm(w), w),
   kind |-> Shifts[Fld(w, 22, 2) + 1], amount |-> Fld(w, 10, 6)]

encode_rm_shifted(o) ==
  When(/\ o.t = "ShiftedRegister"
       /\ IsReg(o.register, {"W", "X"})
       /\ o.amount <= (IF o.register.class = "W" THEN 31 ELSE 63),
       Put(o.register.index, 16, 5) \cup Put(Pos(Shifts, o.kind) - 1, 22, 2)
         \cup Put(o.amount, 10, 6))

-----------------------------------------------------------------------------
(* Floating-point, SIMD scalar and vector registers. *)

encode_fp_register(o, at) ==
  When(IsReg(o, {"S", "D"}), Bit(o.class = "D", 22) \cup Put(o.index, at, 5))

encode_ft_register(o, row, at) ==
  CASE row.class \in PairClasses ->
         When(IsReg(o, {"S", "D"}), Bit(o.class = "D", 30) \cup Put(o.index, at, 5))
    [] row.class \in SingleClasses ->
         When(IsReg(o, {"S", "D"}), {31} \cup Bit(o.class = "D", 30) \cup Put(o.index, at, 5))
    [] OTHER -> encode_fp_register(o, at)

simd_scalar_reg(i, w, row) ==
  Reg(IF row.class = "Asimdimm" THEN "D" ELSE ElementSizes[Fld(w, 22, 2) + 1], i)

encode_simd_scalar_register(o, row, at) ==
  IF row.class = "Asimdimm" THEN When(IsReg(o, {"D"}), Put(o.index, at, 5))
  ELSE When(IsReg(o, {"B", "H", "S", "D"}),
            Put(element_size_shift(o.class), 22, 2) \cup Put(o.index, at, 5))

\* Arrangements, indexed by 2 * size + q.
Arrangements == <<"B8", "B16", "H4", "H8", "S2", "S4", "D1", "D2">>
vector_arrangement_from_parts(q, size) == Arrangements[2 * size + q + 1]
vector_arrangement_bits(a) ==
  [q |-> (Pos(Arrangements, a) - 1) % 2, size |-> (Pos(Arrangements, a) - 1) \div 2]
vector_arrangement(w) == vector_arrangement_from_parts(Fld(w, 30, 1), Fld(w, 22, 2))
arrangement_from_element_size_and_q(size, w) ==
  vector_arrangement_from_parts(Fld(w, 30, 1), element_size_shift(size))

\* log2 of the element bytes that immh selects in a vector shift.
ShiftSize(immh) == IF immh = 1 THEN 0 ELSE IF immh \in 2..3 THEN 1
                   ELSE IF immh \in 4..7 THEN 2 ELSE 3
vector_shift_element_width(immh) == 8 * 2^ShiftSize(immh)

simd_modified_immediate_arrangement(w) ==
  LET q == Fld(w, 30, 1)  cmode == Fld(w, 12, 4) IN
  CASE cmode \in 8..11 -> vector_arrangement_from_parts(q, 1)
    [] cmode = 14 /\ 29 \notin w -> vector_arrangement_from_parts(q, 0)
    [] cmode = 15 /\ 29 \in w -> "D2"
    [] OTHER -> vector_arrangement_from_parts(q, 2)

shll_arrangement(w) ==
  CASE Fld(w, 22, 2) = 0 -> "H8" [] Fld(w, 22, 2) = 1 -> "S4" [] OTHER -> "D2"

vector_reg(i, w, row) ==
  VReg(i, CASE row.class = "Asimdimm" -> simd_modified_immediate_arrangement(w)
            [] row.class = "Asimdins" /\ row.name = "dup" ->
                 arrangement_from_element_size_and_q(element_size_from_imm5(Fld(w, 16, 5)), w)
            [] row.class = "Asimdshf" ->
                 vector_arrangement_from_parts(Fld(w, 30, 1), ShiftSize(Fld(w, 19, 4)))
            [] row.class \notin {"Asimdimm", "Asimdshf"} /\ row.name = "shll" ->
                 shll_arrangement(w)
            [] OTHER -> vector_arrangement(w))

encode_vector_register(o, row, at) ==
  LET parts == vector_arrangement_bits(o.arrangement)
      selector ==
        CASE row.name = "shll" -> {}
          [] row.name # "shll" /\ row.class = "Asimdimm" ->
               Put(CASE parts.size = 0 -> 14 [] parts.size = 1 -> 8 [] OTHER -> 0, 12, 4)
                 \cup Put(parts.q, 30, 1)
          [] row.class = "Asimdins" /\ row.name = "dup" -> Put(parts.q, 30, 1)
          [] row.class = "Asimdshf" -> Put(2^parts.size, 19, 4) \cup Put(parts.q, 30, 1)
          [] OTHER -> Put(parts.q, 30, 1) \cup Put(parts.size, 22, 2)
  IN  When(o.t = "VectorRegister" /\ o.index <= 31, selector \cup Put(o.index, at, 5))

encode_vector_d1(o, at) ==
  When(o.t = "VectorElement" /\ o.index <= 31 /\ o.element = 1 /\ o.size = "D",
       Put(o.index, at, 5))

ed(w) ==
  LET imm5 == Fld(w, 16, 5)  size == element_size_from_imm5(imm5)
  IN  VElem(rd(w), imm5 \div 2^(element_size_shift(size) + 1), size)

\* In ins and mov between elements the source index is in imm4.
uses_source_imm4(row) == row.kinds # <<>> /\ row.kinds[1] = "Ed"

en(w, row) ==
  LET imm5 == Fld(w, 16, 5)  size == element_size_from_imm5(imm5)
      shift == element_size_shift(size)
  IN  VElem(rn(w), IF uses_source_imm4(row) THEN Fld(w, 11, 4) \div 2^shift
                   ELSE imm5 \div 2^(shift + 1), size)

em(w) ==
  LET size == IF Fld(w, 22, 2) = 1 THEN "H" ELSE "S"
      h == Fld(w, 11, 1)  l == Fld(w, 21, 1)  m == Fld(w, 20, 1)
  IN  VElem(rm(w), IF size = "H" THEN 4 * h + 2 * l + m ELSE 2 * h + l, size)

\* Element indices that fit a 128-bit register.
Lanes(size) == 16 \div 2^element_size_shift(size)

encode_imm5_element(o) ==
  LET s == element_size_shift(o.size)
  IN  When(o.element < Lanes(o.size), Put(2^s + o.element * 2^(s + 1), 16, 5))

encode_em_element(o) ==
  LET s == element_size_shift(o.size)
      hlm == o.element * 2^(s - 1)
  IN  When(o.size # "B" /\ o.element < Lanes(o.size),
           Put(s, 22, 2) \cup Put(hlm \div 4, 11, 1) \cup Put(hlm \div 2, 21, 1)
             \cup Put(hlm, 20, 1))

encode_vector_element(k, o, row, at) ==
  LET s == element_size_shift(o.size)
      lane == CASE k = "Em" -> encode_em_element(o)
                [] k = "En" /\ uses_source_imm4(row) ->
                     \* the u8 element is shifted into the word unmasked
                     Ok({16 + s} \cup Put(o.element, 11 + s, 8))
                [] OTHER -> encode_imm5_element(o)
  IN  IF o.t = "VectorElement" /\ o.index <= 31
      THEN When(lane.ok, lane.bits \cup Put(o.index, at, 5))
      ELSE Err

-----------------------------------------------------------------------------
(* Vector lists. *)

\* opcode[15:12] of the multiple-structure forms: registers and structure.
simd_ldst_list_count(w) ==
  LET op == Fld(w, 12, 4) IN
  CASE op \in {0, 2} -> 4 [] op \in {4, 6} -> 3 [] op = 7 -> 1 [] op \in {8, 10} -> 2
    [] OTHER -> 0
simd_ldst_list_digit(w) ==
  LET op == Fld(w, 12, 4) IN
  CASE op = 0 -> 4 [] op = 4 -> 3 [] op = 8 -> 2 [] op \in {2, 6, 7, 10} -> 1
    [] OTHER -> 0

\* The trailing digit of ld1..ld4 and st1..st4.
StructureDigit(name) ==
  CASE name \in {"ld2", "st2"} -> 2 [] name \in {"ld3", "st3"} -> 3
    [] name \in {"ld4", "st4"} -> 4 [] OTHER -> 1

vector_list(w) == VList(rn(w), Fld(w, 13, 2) + 1, vector_arrangement(w), None)
simd_ldst_list(w) ==
  VList(rd(w), IF simd_ldst_list_count(w) = 0 THEN 1 ELSE simd_ldst_list_count(w),
        vector_arrangement_from_parts(Fld(w, 30, 1), Fld(w, 10, 2)), None)

simd_ldst_element(w) ==
  LET q == Fld(w, 30, 1)  s == Fld(w, 12, 1)  size == Fld(w, 10, 2) IN
  CASE size = 3 -> [size |-> "B", element |-> 8 * q + 4 * s + 3]
    [] size = 2 -> [size |-> "H", element |-> 4 * q + 2 * s + Fld(w, 11, 1)]
    [] size = 0 -> [size |-> "S", element |-> 2 * q + s]
    [] size = 1 -> [size |-> "D", element |-> q]

simd_ldst_element_list(w, row) ==
  LET e == simd_ldst_element(w)
  IN  VList(rd(w), StructureDigit(row.name),
            vector_arrangement_from_parts(0, element_size_shift(e.size)), e.element)

IsList(o) == o.t = "VectorList" /\ o.first <= 31 /\ o.count \in 1..4

encode_vector_list(o, row, at) ==
  LET parts == vector_arrangement_bits(o.arrangement)
      digit == StructureDigit(row.name)
      opcode == CASE digit = 2 -> 8 [] digit = 3 -> 4 [] digit = 4 -> 0
                  [] digit = 1 -> (<<7, 10, 6, 2>>)[o.count]
  IN  When(IsList(o) /\ o.element = None,
           Put(parts.q, 30, 1) \cup Put(o.first, at, 5)
             \cup IF at = 0 THEN Put(parts.size, 10, 2) \cup Put(opcode, 12, 4)
                  ELSE Put(parts.size, 22, 2) \cup Put(o.count - 1, 13, 2))

encode_vector_list_all_lanes(o) ==
  LET parts == vector_arrangement_bits(o.arrangement)
  IN  When(IsList(o) /\ o.element = None,
           Put(parts.q, 30, 1) \cup Put(parts.size, 10, 2) \cup Put(o.first, 0, 5))

encode_simd_ldst_element(size, e) ==
  CASE size = "B" -> [q |-> e \div 8, s |-> (e \div 4) % 2, size |-> 3]
    [] size = "H" -> [q |-> e \div 4, s |-> (e \div 2) % 2, size |-> 2]
    [] size = "S" -> [q |-> e \div 2, s |-> e % 2, size |-> 0]
    [] size = "D" -> [q |-> e, s |-> 0, size |-> 1]

encode_vector_element_list(o) ==
  LET size == ElementSizes[vector_arrangement_bits(o.arrangement).size + 1]
      lane == encode_simd_ldst_element(size, o.element)
  IN  When(IsList(o) /\ o.element # None /\ o.element < Lanes(size),
           Put(lane.q, 30, 1) \cup Put(lane.s, 12, 1) \cup Put(lane.size, 10, 2)
             \cup Bit(o.count = 2, 14) \cup Bit(o.count = 4, 15) \cup Put(o.first, 0, 5))

-----------------------------------------------------------------------------
(* Immediates. *)

\* Immediates that are a plain unsigned field: first bit and width.
RawFields ==
  [Immr |-> <<16, 6>>, Imms |-> <<10, 6>>, Exc |-> <<5, 16>>, Uimm3Op1 |-> <<16, 3>>,
   Uimm3Op2 |-> <<5, 3>>, Uimm4 |-> <<8, 4>>, Idx |-> <<11, 4>>, CcmpImm |-> <<16, 5>>,
   Nzcv |-> <<0, 4>>]
encode_raw_immediate(o, at, bits) == When(IsImm(o, 0..(2^bits - 1)), Put(o.v, at, bits))
\* Idx loses its top bit in the 64-bit form.
raw_immediate(k, w) ==
  Imm(Fld(w, RawFields[k][1], IF k = "Idx" /\ 30 \notin w THEN 3 ELSE RawFields[k][2]))

aimm(w) == Imm(Fld(w, 10, 12) * (IF 22 \in w THEN 4096 ELSE 1))
encode_aimm(o) ==
  IF IsImm(o, 0..4095) THEN Ok(Put(o.v, 10, 12))
  ELSE When(o.t = "Immediate" /\ o.v > 0 /\ o.v % 4096 = 0 /\ o.v \div 4096 <= 4095,
            {22} \cup Put(o.v \div 4096, 10, 12))

half(w) == Shifted(Fld(w, 5, 16), 16 * Fld(w, 21, 2))
encode_half(o) ==
  When(o.t = "ShiftedImmediate" /\ o.v \in 0..65535 /\ o.shift % 16 = 0 /\ o.shift <= 48,
       Put(o.v, 5, 16) \cup Put(o.shift \div 16, 21, 2))

\* movz and movn as mov: a 64-bit value; a 32-bit movn is sign extended.
imm_mov(w) ==
  LET shifted == Shl(Put(Fld(w, 5, 16), 0, 16), 16 * Fld(w, 21, 2))
      low == (0..31) \ shifted
  IN  Wide(IF Fld(w, 29, 2) # 0 THEN shifted
           ELSE IF 31 \in w THEN (0..63) \ shifted
           ELSE low \cup IF 31 \in low THEN 32..63 ELSE {})

\* Base rows have bit 31 clear, so the width follows from the value alone.
encode_imm_mov(o, row) ==
  LET is32 == /\ 31 \notin row.base
              /\ (o.b \cap (32..63) = {} \/ (31..63) \subseteq o.b)
      width == IF is32 THEN 32 ELSE 64
      wanted == o.b \cap (0..(width - 1))
      value == IF Fld(row.base, 29, 2) = 0 THEN (0..(width - 1)) \ wanted ELSE wanted
      shifts == {s \in {0, 16, 32, 48} : s < width /\ value \subseteq s..(s + 15)}
      first == CHOOSE s \in shifts : \A q \in shifts : s <= q
  IN  When(o.t = "Immediate64" /\ Fld(row.base, 29, 2) \in {0, 2} /\ shifts # {},
           Put(first \div 16, 21, 2) \cup {i - first + 5 : i \in value})

\* Bit-field moves.  The insert aliases hold the negated lsb in immr.
InsertAliases == {"bfi", "ubfiz", "sbfiz"}
ExtractAliases == {"ubfx", "sbfx", "bfxil"}
bitfield_max(w) == IF 31 \in w THEN 63 ELSE 31
bitfield_imm(w, row) ==
  LET max == bitfield_max(w)  immr == Fld(w, 16, 6) IN
  Imm(CASE row.name = "lsl" -> max - Fld(w, 10, 6)
        [] row.name \in InsertAliases ->
             IF max + 1 >= immr THEN (max + 1 - immr) % (max + 1) ELSE max + 1 - immr
        [] OTHER -> immr)
encode_bitfield_imm(o, row, w) ==
  LET max == bitfield_max(w)
      immr == IF row.name \in InsertAliases \cup {"lsl"} THEN (max + 1 - o.v) % (max + 1)
              ELSE o.v
      imms == CASE row.name = "lsl" -> max - o.v
                [] row.name \in {"lsr", "asr"} -> max
                [] OTHER -> 0
  IN  When(IsImm(o, 0..max), Bit(max = 63, 22) \cup Put(immr, 16, 6) \cup Put(imms, 10, 6))
bitfield_width(w, row) ==
  Imm(Fld(w, 10, 6) + 1 - IF row.name \in ExtractAliases THEN Fld(w, 16, 6) ELSE 0)
encode_bitfield_width(o, row, w) ==
  LET max == bitfield_max(w)
      imms == o.v - 1 + IF row.name \in ExtractAliases THEN Fld(w, 16, 6) ELSE 0
  IN  When(IsImm(o, 1..(max + 1)) /\ imms <= max, Put(imms, 10, 6))

\* The bitmask immediate of c = N:immr:imms, as a 64-bit pattern: a run of ones
\* rotated right in an element of 2^len bits, the element repeated.
LogicalPattern(c) ==
  LET imms == c % 64  immr == (c \div 64) % 64  n == c \div 4096
      inverted == n * 64 + (63 - imms)
      len == IF inverted = 0 THEN -1
             ELSE CHOOSE b \in 0..6 : 2^b <= inverted /\ inverted < 2^(b + 1)
      size == 2^len
      s == imms % size  r == immr % size
      element == {(i + size - r) % size : i \in 0..s}
  IN  IF len = -1 \/ s = size - 1 THEN <<>>
      ELSE <<{i \in 0..63 : (i % size) \in element}>>

\* Every pattern, indexed by N:immr:imms.
LogicalPatterns == [c \in 0..8191 |-> LogicalPattern(c)]
Narrow(p, w) == IF p = <<>> \/ 31 \in w THEN p ELSE <<p[1] \cap (0..31)>>
logical_immediate(w) == Narrow(LogicalPatterns[Fld(w, 10, 13)], w)
\* The encoder tries N, immr and imms in order and takes the first match.
encode_logical_immediate(o, w) ==
  LET fits == {c \in 0..8191 : Narrow(LogicalPatterns[c], w) = <<o.b>>}
  IN  When(o.t = "Immediate64" /\ fits # {},
           Put(CHOOSE c \in fits : \A d \in fits : c <= d, 10, 13))

bit_num(w) == Imm(32 * Fld(w, 31, 1) + Fld(w, 19, 5))
encode_bit_num(o) == When(IsImm(o, 0..63), Bit(o.v >= 32, 31) \cup Put(o.v, 19, 5))
uimm7(w) == Imm(8 * Fld(w, 8, 4) + Fld(w, 5, 3))
encode_uimm7(o) == When(IsImm(o, 0..127), Put(o.v \div 8, 8, 4) \cup Put(o.v, 5, 3))
fbits(w) == Imm(64 - Fld(w, 10, 6))
encode_fbits(o) == When(IsImm(o, 1..64), Put(64 - o.v, 10, 6))
shll_imm(w) == Imm(8 * 2^Fld(w, 22, 2))
encode_shll_immediate(o) ==
  When(IsImm(o, {8, 16, 32}), Put(CASE o.v = 8 -> 0 [] o.v = 16 -> 1 [] OTHER -> 2, 22, 2))

\* Vector shifts: immh:immb is offset by the element width it selects.
imm_vlsl(w) == Imm(Fld(w, 16, 7) - vector_shift_element_width(Fld(w, 19, 4)))
imm_vlsr(w) == Imm(2 * vector_shift_element_width(Fld(w, 19, 4)) - Fld(w, 16, 7))
encode_vector_shift_immediate(o, w, right) ==
  LET width(i) == vector_shift_element_width(i \div 8)
      had == Fld(w, 19, 4)
      fits == {i \in 8..127 :
                 /\ had # 0 => width(i) = vector_shift_element_width(had)
                 /\ o.v = IF right THEN 2 * width(i) - i ELSE i - width(i)}
  IN  When(o.t = "Immediate" /\ fits # {}, Put(CHOOSE i \in fits : \A j \in fits : i <= j, 16, 7))

\* The 8-bit floating-point immediate as its value in 128ths; "0.0" is apart.
fpimm8(i) ==
  LET e == IF (i \div 64) % 2 = 0 THEN ((i \div 16) % 4) + 1 ELSE ((i \div 16) % 4) - 3
  IN  (IF i >= 128 THEN -1 ELSE 1) * (16 + (i % 16)) * 2^(e + 3)
Float(v) == [t |-> "FloatImmediate", v |-> v]
fp_immediate_bits(v) == {i \in 0..255 : fpimm8(i) = v}
encode_fp_immediate(o, at) ==
  When(o.t = "FloatImmediate" /\ fp_immediate_bits(o.v) # {},
       Put(CHOOSE i \in fp_immediate_bits(o.v) : TRUE, at, 8))

simd_imm8(w) == 32 * Fld(w, 16, 3) + Fld(w, 5, 5)
encode_simd_imm8(i) == Put(i \div 32, 16, 3) \cup Put(i, 5, 5)
simd_imm(w) ==
  IF 29 \in w /\ Fld(w, 12, 4) = 14
  THEN Wide({i \in 0..63 : (simd_imm8(w) \div 2^(i \div 8)) % 2 = 1})
  ELSE Imm(simd_imm8(w))
encode_simd_immediate(o) ==
  LET byte(b) == (8 * b)..(8 * b + 7)
      set == {b \in 0..7 : byte(b) \subseteq o.b}
      imm8 == Fld(set, 0, 8)
  IN  IF o.t = "Immediate64"
      THEN When(\A b \in 0..7 : b \in set \/ byte(b) \cap o.b = {},
                {29} \cup Put(14, 12, 4) \cup encode_simd_imm8(imm8))
      ELSE When(IsImm(o, 0..255), encode_simd_imm8(o.v))
encode_simd_fp_immediate(o, w) ==
  LET f == encode_fp_immediate(o, 0)
  IN  When(f.ok, Bit(30 \in w, 29) \cup Put(15, 12, 4) \cup encode_simd_imm8(Fld(f.bits, 0, 8)))
simd_imm_sft(w) ==
  LET cmode == Fld(w, 12, 4)
  IN  Shifted(simd_imm8(w), CASE cmode \in {2, 3, 10, 11} -> 8 [] cmode \in {4, 5} -> 16
                              [] cmode \in {6, 7} -> 24 [] OTHER -> 0)
encode_simd_shifted_immediate(o) ==
  When(o.t = "ShiftedImmediate" /\ o.v \in 0..255 /\ o.shift \in {0, 8, 16, 24},
       encode_simd_imm8(o.v) \cup Put(2 * (o.shift \div 8), 12, 4))

-----------------------------------------------------------------------------
(* Conditions and system operands.  A system operand is the tuple of what its *)
(* text names: a mnemonic, or a prefix and the numbers printed after it.      *)

Conditions == <<"eq", "ne", "hs", "lo", "mi", "pl", "vs", "vc",
                "hi", "ls", "ge", "lt", "gt", "le", "al", "nv">>
Flip(code) == IF code % 2 = 0 THEN code + 1 ELSE code - 1
condition(w, inverted) ==
  LET code == Fld(w, 12, 4)
  IN  [t |-> "Condition", v |-> Conditions[(IF inverted THEN Flip(code) ELSE code) + 1]]
encode_condition(o, inverted) ==
  LET code == Pos(Conditions, o.v) - 1
  IN  When(o.t = "Condition", Put(IF inverted THEN Flip(code) ELSE code, 12, 4))

BarrierNames ==
  1 :> "oshld" @@ 2 :> "oshst" @@ 3 :> "osh" @@ 5 :> "nshld" @@ 6 :> "nshst" @@ 7 :> "nsh" @@
  9 :> "ishld" @@ 10 :> "ishst" @@ 11 :> "ish" @@ 13 :> "ld" @@ 14 :> "st" @@ 15 :> "sy"
\* pld, pli and pst for L1 to L3, keep and strm; policies 6 and 7 are numbers.
PrefetchNames ==
  [c \in {x \in 0..23 : x % 8 < 6} |->
     <<(<<"pld", "pli", "pst">>)[(c \div 8) + 1], ((c % 8) \div 2) + 1, c % 2>>]

\* A code printed by name when it has one and as a number otherwise.
Named(names, code) ==
  System(IF code \in DOMAIN names THEN <<"name", names[code]>> ELSE <<"#", code>>)
CodeOf(names, o, limit) ==
  IF o.t # "System" THEN {}
  ELSE IF o.v[1] = "name" THEN {c \in DOMAIN names : names[c] = o.v[2]}
  ELSE {c \in 0..limit : o.v = <<"#", c>>}
EncodeNamed(names, o, at, bits) ==
  LET codes == CodeOf(names, o, 2^bits - 1)
  IN  When(codes # {}, Put(CHOOSE c \in codes : TRUE, at, bits))

barrier(w) == Named(BarrierNames, Fld(w, 8, 4))
barrier_isb(w) == Named(15 :> "sy", Fld(w, 8, 4))
prfop(w) == Named(PrefetchNames, rd(w))
encode_barrier(o) == EncodeNamed(BarrierNames, o, 8, 4)
encode_barrier_isb(o) == EncodeNamed(15 :> "sy", o, 8, 4)
encode_prfop(o) == EncodeNamed(PrefetchNames, o, 0, 5)

\* Fields of a system operand: first bit and width of each number.
SysregFields == <<<<19, 2>>, <<16, 3>>, <<12, 4>>, <<8, 4>>, <<5, 3>>>>
SysOpFields == <<<<16, 3>>, <<12, 4>>, <<8, 4>>, <<5, 3>>>>
PstateFields == <<<<16, 3>>, <<5, 3>>>>
SysregNames ==
  <<3, 3, 4, 2, 0>> :> "NZCV" @@ <<3, 3, 13, 0, 2>> :> "TPIDR_EL0" @@
  <<3, 3, 14, 0, 2>> :> "CNTVCT_EL0"
PstateNames == <<3, 6>> :> "DAIFSet" @@ <<3, 7>> :> "DAIFClr"
SysOpNames ==
  [SysregAt |-> <<0, 7, 8, 0>> :> "s1e1r",
   SysregDc |-> <<3, 7, 4, 1>> :> "zva",
   SysregIc |-> <<3, 7, 5, 1>> :> "ivau" @@ <<0, 7, 5, 0>> :> "iallu",
   SysregTlbi |-> <<0, 8, 7, 5>> :> "vale1" @@ <<0, 8, 7, 0>> :> "vmalle1"]

Numbers(w, fields) == [i \in 1..Len(fields) |-> Fld(w, fields[i][1], fields[i][2])]
PutNumbers(v, fields) ==
  UNION {Put(v[i], fields[i][1], fields[i][2]) : i \in 1..Len(fields)}
SysText(names, w, fields) ==
  LET v == Numbers(w, fields)
  IN  System(IF v \in DOMAIN names THEN <<"name", names[v]>> ELSE <<"numbers", v>>)
EncodeSysText(names, o, fields) ==
  LET named == {v \in DOMAIN names : names[v] = o.v[2]}
      fits == \A i \in 1..Len(fields) : o.v[2][i] \in 0..(2^fields[i][2] - 1)
  IN  IF o.t # "System" THEN Err
      ELSE IF o.v[1] = "name"
      THEN When(named # {}, PutNumbers(CHOOSE v \in named : TRUE, fields))
      ELSE When(o.v[1] = "numbers" /\ Len(o.v[2]) = Len(fields) /\ fits,
                PutNumbers(o.v[2], fields))
coproc_register(w, at) == System(<<"c", Fld(w, at, 4)>>)
encode_coproc_register(o, at) ==
  When(o.t = "System" /\ o.v[1] = "c" /\ o.v[2] <= 15, Put(o.v[2], at, 4))

-----------------------------------------------------------------------------
(* PC-relative targets. *)

Branch(target) == [t |-> "BranchTarget", target |-> target]
PageTarget(page, off) == [t |-> "PageTarget", page |-> page, off |-> off]

\* Word-scaled branch fields: first bit and width.
BranchFields == [AddrPcrel14 |-> <<5, 14>>, AddrPcrel19 |-> <<5, 19>>, AddrPcrel26 |-> <<0, 26>>]
branch_target(k, pc, w) ==
  Branch(pc + 4 * sign_extend(Fld(w, BranchFields[k][1], BranchFields[k][2]), BranchFields[k][2]))
\* A mutant: the offset is truncated to its field.
encode_pcrel_unchecked(o, pc, at, bits) ==
  When(o.t = "BranchTarget", Put((o.target - pc) \div 4, at, bits))
encode_pcrel(o, pc, at, bits) ==
  LET imm == (o.target - pc) \div 4
  IN  When(/\ o.t = "BranchTarget"
           /\ (o.target - pc) % 4 = 0
           /\ imm >= -(2^(bits - 1)) /\ imm < 2^(bits - 1),
           Put(imm, at, bits))

imm21(w) == sign_extend(4 * Fld(w, 5, 19) + Fld(w, 29, 2), 21)
PutImm21(imm) == Put(imm, 29, 2) \cup Put(imm \div 4, 5, 19)
Fits21(imm) == imm >= -(2^20) /\ imm < 2^20
encode_pcrel21(o, pc) ==
  When(o.t = "BranchTarget" /\ Fits21(o.target - pc), PutImm21(o.target - pc))
adrp_target(pc, w) == PageTarget((pc \div PageSize) + imm21(w), 0)
encode_adrp(o, pc) ==
  LET imm == o.page - (pc \div PageSize)
  IN  When(o.t = "PageTarget" /\ o.off = 0 /\ Fits21(imm), PutImm21(imm))

-----------------------------------------------------------------------------
(* Memory operands. *)

IsBase(o) == o.t = "Memory" /\ IsReg(o.base, {"X", "XOrSp"})
HasImm(o) == o.offset.k = "Immediate"
BaseBits(o) == Put(o.base.index, 5, 5)
base(w) == x_or_sp(rn(w))

addr_simple(w) == Memory(base(w), NoOffset, "Offset")
encode_addr_simple(o) ==
  When(IsBase(o) /\ o.mode = "Offset" /\ o.offset.k = "None", BaseBits(o))

\* log2 of the access size: the V bit selects the SIMD and FP width.
AccessScale(w) == IF 26 \in w THEN fp_ldst_width(w)[2] ELSE Fld(w, 30, 2)
regoff_shift(w) == IF 12 \in w /\ AccessScale(w) # 0 THEN AccessScale(w) ELSE None
addr_regoff(w) == Memory(base(w), RegOffset(x_reg(rm(w)), regoff_shift(w)), "Offset")
\* The encoder writes option LSL and compares the shift with bits 31:30 only.
encode_addr_regoff(o, w) ==
  When(/\ IsBase(o) /\ o.mode = "Offset" /\ o.offset.k = "Register"
       /\ IsReg(o.offset.register, {"X"})
       /\ o.offset.shift \in {None, Fld(w, 30, 2)},
       BaseBits(o) \cup Put(o.offset.register.index, 16, 5) \cup {13, 14}
         \cup Bit(o.offset.shift # None, 12))

PairScale(w) == 2 + IF 26 \in w THEN Fld(w, 30, 2) ELSE Fld(w, 31, 1)
IndexMode(bits) == CASE bits = 1 -> "PostIndex" [] bits = 3 -> "PreIndex" [] OTHER -> "Offset"
addr_simm7(w) ==
  Memory(base(w), ImmOffset(sign_extend(Fld(w, 15, 7), 7) * 2^PairScale(w)),
         IndexMode(Fld(w, 23, 2)))
\* Scaled by eight whatever the register width.
encode_addr_simm7(o, row) ==
  LET imm == o.offset.v \div 8 IN
  When(/\ IsBase(o) /\ HasImm(o)
       /\ o.offset.v % 8 = 0 /\ imm >= -64 /\ imm < 64
       /\ \/ row.class \in {"LdstpairOff", "LdstnapairOffs"} /\ o.mode = "Offset"
          \/ row.class = "LdstpairIndexed" /\ o.mode \in {"PostIndex", "PreIndex"},
       BaseBits(o) \cup Put(imm, 15, 7) \cup Bit(o.mode = "PreIndex", 24))

addr_simm9(w) ==
  Memory(base(w), ImmOffset(sign_extend(Fld(w, 12, 9), 9)), IndexMode(Fld(w, 10, 2)))
encode_addr_simm9(o, row) ==
  When(/\ IsBase(o) /\ HasImm(o)
       /\ o.offset.v \in (-256)..255
       /\ \/ row.class = "LdstUnscaled" /\ o.mode = "Offset"
          \/ row.class = "LdstImm9" /\ o.mode \in {"PostIndex", "PreIndex"},
       BaseBits(o) \cup Put(o.offset.v, 12, 9) \cup Bit(o.mode = "PreIndex", 11))

addr_uimm12(w) == Memory(base(w), ImmOffset(Fld(w, 10, 12) * 2^AccessScale(w)), "Offset")
encode_addr_uimm12(o, w) ==
  LET unit == 2^Fld(w, 30, 2) IN
  When(/\ IsBase(o) /\ o.mode = "Offset" /\ HasImm(o)
       /\ o.offset.v >= 0 /\ o.offset.v % unit = 0 /\ o.offset.v \div unit <= 4095,
       BaseBits(o) \cup Put(o.offset.v \div unit, 10, 12))

simd_post_index_immediate(w, row) ==
  IF row.kinds # <<>> /\ row.kinds[1] = "Let"
  THEN StructureDigit(row.name) * 2^element_size_shift(simd_ldst_element(w).size)
  ELSE CASE Fld(w, 12, 4) = 12 -> 1 [] Fld(w, 12, 4) = 10 -> 32 [] OTHER -> 16
simd_addr_post(w, row) ==
  Memory(base(w), IF rm(w) = 31 THEN ImmOffset(simd_post_index_immediate(w, row))
                  ELSE RegOffset(x_reg(rm(w)), None), "PostIndex")
encode_simd_addr_post(o) ==
  When(/\ IsBase(o) /\ o.mode = "PostIndex"
       /\ \/ HasImm(o)
          \/ /\ o.offset.k = "Register" /\ o.offset.shift = None
             /\ IsReg(o.offset.register, {"X"}),
       BaseBits(o) \cup Put(IF HasImm(o) THEN 31 ELSE o.offset.register.index, 16, 5))

-----------------------------------------------------------------------------
(* OperandCodec: the dispatch on the operand kind.  Fields on which an earlier *)
(* operand of the same instruction has written are read from the word so far. *)

\* Register kinds: the first bit of the five-bit register number.
RegisterAt ==
  [Fd |-> 0, Fn |-> 5, Fm |-> 16, Fa |-> 10, Ft |-> 0, Ft2 |-> 10, Vd |-> 0, Vn |-> 5,
   Vm |-> 16, Sd |-> 0, Sn |-> 5, Sm |-> 16, VdD1 |-> 0, VnD1 |-> 5, Rt2 |-> 10, Ra |-> 10,
   Rn |-> 5, Rm |-> 16, RmLow |-> 0, RdSp |-> 0, RnSp |-> 5, Ed |-> 0, En |-> 5, Em |-> 16]

decode_register(k, w, row) ==
  LET i == Fld(w, RegisterAt[k], 5) IN
  CASE k = "Rn" -> rn_reg(w, row)
    [] k = "Rm" -> rm_reg(w, row)
    [] k \in {"RmLow", "Rt2"} -> x_reg(i)
    [] k = "Ra" -> gp_reg(i, w)
    [] k \in {"RdSp", "RnSp"} -> gp_or_sp(i, w)
    [] k \in {"Fd", "Fn", "Fm", "Fa"} -> fp_reg(i, w)
    [] k \in {"Ft", "Ft2"} -> ft_reg(i, w, row)
    [] k \in {"Vd", "Vn", "Vm"} -> vector_reg(i, w, row)
    [] k \in {"Sd", "Sn", "Sm"} -> simd_scalar_reg(i, w, row)
    [] k \in {"VdD1", "VnD1"} -> VElem(i, 1, "D")
    [] k = "Ed" -> ed(w)
    [] k = "En" -> en(w, row)
    [] k = "Em" -> em(w)

encode_register(k, o, row) ==
  LET at == RegisterAt[k] IN
  CASE k \in {"Rn", "Rm", "RmLow", "Rt2", "Ra"} -> encode_gp_register(o, at)
    [] k \in {"RdSp", "RnSp"} -> encode_gp_or_sp_register(o, at)
    [] k \in {"Fd", "Fn", "Fm", "Fa"} -> encode_fp_register(o, at)
    [] k \in {"Ft", "Ft2"} -> encode_ft_register(o, row, at)
    [] k \in {"Vd", "Vn", "Vm"} -> encode_vector_register(o, row, at)
    [] k \in {"Sd", "Sn", "Sm"} -> encode_simd_scalar_register(o, row, at)
    [] k \in {"VdD1", "VnD1"} -> encode_vector_d1(o, at)
    [] k \in {"Ed", "En", "Em"} -> encode_vector_element(k, o, row, at)

\* The register after an even one in a pair: operand 1 pairs with Rs, 3 with Rt.
pair_reg(w, i) ==
  lse_pair_reg((CASE i = 1 -> rm(w) [] i = 3 -> rd(w) [] OTHER -> 31) + 1, w)

\* OperandCodec::decode, for operand number i (from zero) of the row.
decode_operand(k, w, pc, row, i) ==
  CASE k \in DOMAIN RegisterAt -> decode_register(k, w, row)
    [] k \in DOMAIN RawFields -> raw_immediate(k, w)
    [] k \in DOMAIN BranchFields -> branch_target(k, pc, w)
    [] k \in DOMAIN SysOpNames -> SysText(SysOpNames[k], w, SysOpFields)
    [] k = "Rd" -> rd_reg(w, row)
    [] k = "Rt" -> rt_reg(w, row)
    [] k = "Rs" -> rs_reg(w, row)
    [] k = "RtSys" -> x_reg(rd(w))
    [] k = "Pairreg" -> pair_reg(w, i)
    [] k = "RmSft" -> rm_shifted(w)
    [] k = "RmExt" -> rm_extended(w)
    [] k = "Lvn" -> vector_list(w)
    [] k \in {"Lvt", "LvtAl"} -> simd_ldst_list(w)
    [] k = "Let" -> simd_ldst_element_list(w, row)
    [] k = "ImmVlsl" -> imm_vlsl(w)
    [] k = "ImmVlsr" -> imm_vlsr(w)
    [] k = "SimdImm" -> simd_imm(w)
    [] k = "SimdImmSft" -> simd_imm_sft(w)
    [] k = "SimdFpimm" -> Float(fpimm8(simd_imm8(w)))
    [] k = "ShllImm" -> shll_imm(w)
    [] k = "Imm0" -> Imm(0)
    [] k = "Aimm" -> aimm(w)
    [] k = "Limm" -> LET p == logical_immediate(w)
                     IN  IF p = <<>> THEN [t |-> "InvalidOperand"] ELSE Wide(p[1])
    [] k = "Half" -> half(w)
    [] k = "ImmMov" -> imm_mov(w)
    [] k = "Imm" -> bitfield_imm(w, row)
    [] k = "Width" -> bitfield_width(w, row)
    [] k = "BitNum" -> bit_num(w)
    [] k = "Uimm7" -> uimm7(w)
    [] k = "Cond" -> condition(w, FALSE)
    [] k = "Cond1" -> condition(w, TRUE)
    [] k = "Fpimm0" -> Float(0)
    [] k = "Fpimm" -> Float(fpimm8(Fld(w, 13, 8)))
    [] k = "Fbits" -> fbits(w)
    [] k = "AddrSimm7" -> addr_simm7(w)
    [] k \in {"AddrSimple", "SimdAddrSimple"} -> addr_simple(w)
    [] k = "AddrRegoff" -> addr_regoff(w)
    [] k = "AddrSimm9" -> addr_simm9(w)
    [] k = "AddrUimm12" -> addr_uimm12(w)
    [] k = "AddrPcrel21" -> Branch(pc + imm21(w))
    [] k = "AddrAdrp" -> adrp_target(pc, w)
    [] k = "SimdAddrPost" -> simd_addr_post(w, row)
    [] k = "Barrier" -> barrier(w)
    [] k = "BarrierIsb" -> barrier_isb(w)
    [] k = "BarrierPsb" -> System(<<"name", "csync">>)
    [] k = "Pstatefield" -> SysText(PstateNames, w, PstateFields)
    [] k = "Sysreg" -> SysText(SysregNames, w, SysregFields)
    [] k = "Cn" -> coproc_register(w, 12)
    [] k = "Cm" -> coproc_register(w, 8)
    [] k = "Prfop" -> prfop(w)
    [] OTHER -> [t |-> "Unimplemented"]

\* OperandCodec::encode: the bits operand o adds to the word so far.
encode_operand(k, o, w, pc, row) ==
  CASE k \in DOMAIN RegisterAt -> encode_register(k, o, row)
    [] k \in DOMAIN RawFields -> encode_raw_immediate(o, RawFields[k][1], RawFields[k][2])
    [] k \in DOMAIN BranchFields -> encode_pcrel(o, pc, BranchFields[k][1], BranchFields[k][2])
    [] k \in DOMAIN SysOpNames -> EncodeSysText(SysOpNames[k], o, SysOpFields)
    [] k = "Rd" -> encode_rd_register(o, row)
    [] k = "Rt" -> encode_rt_register(o, row)
    [] k = "Rs" -> encode_status_register(o, row)
    [] k = "RtSys" -> encode_rt_sys_register(o)
    [] k = "Pairreg" -> encode_pair_register(o)
    [] k = "RmSft" -> encode_rm_shifted(o)
    [] k = "RmExt" -> encode_rm_extended(o)
    [] k = "Lvn" -> encode_vector_list(o, row, 5)
    [] k = "Lvt" -> encode_vector_list(o, row, 0)
    [] k = "LvtAl" -> encode_vector_list_all_lanes(o)
    [] k = "Let" -> encode_vector_element_list(o)
    [] k = "ImmVlsl" -> encode_vector_shift_immediate(o, w, FALSE)
    [] k = "ImmVlsr" -> encode_vector_shift_immediate(o, w, TRUE)
    [] k = "SimdImm" -> encode_simd_immediate(o)
    [] k = "SimdImmSft" -> encode_simd_shifted_immediate(o)
    [] k = "SimdFpimm" -> encode_simd_fp_immediate(o, w)
    [] k = "ShllImm" -> encode_shll_immediate(o)
    [] k = "Imm0" -> When(IsImm(o, {0}), {})
    [] k = "Aimm" -> encode_aimm(o)
    [] k = "Limm" -> encode_logical_immediate(o, w)
    [] k = "Half" -> encode_half(o)
    [] k = "ImmMov" -> encode_imm_mov(o, row)
    [] k = "Imm" -> encode_bitfield_imm(o, row, w)
    [] k = "Width" -> encode_bitfield_width(o, row, w)
    [] k = "BitNum" -> encode_bit_num(o)
    [] k = "Uimm7" -> encode_uimm7(o)
    [] k = "Cond" -> encode_condition(o, FALSE)
    [] k = "Cond1" -> encode_condition(o, TRUE)
    [] k = "Fpimm0" -> When(o.t = "FloatImmediate" /\ o.v = 0, {})
    [] k = "Fpimm" -> encode_fp_immediate(o, 13)
    [] k = "Fbits" -> encode_fbits(o)
    [] k = "AddrSimm7" -> encode_addr_simm7(o, row)
    [] k \in {"AddrSimple", "SimdAddrSimple"} -> encode_addr_simple(o)
    [] k = "AddrRegoff" -> encode_addr_regoff(o, w)
    [] k = "AddrSimm9" -> encode_addr_simm9(o, row)
    [] k = "AddrUimm12" -> encode_addr_uimm12(o, w)
    [] k = "AddrPcrel21" -> encode_pcrel21(o, pc)
    [] k = "AddrAdrp" -> encode_adrp(o, pc)
    [] k = "SimdAddrPost" -> encode_simd_addr_post(o)
    [] k = "Barrier" -> encode_barrier(o)
    [] k = "BarrierIsb" -> encode_barrier_isb(o)
    [] k = "BarrierPsb" -> When(o.t = "System" /\ o.v = <<"name", "csync">>, {})
    [] k = "Pstatefield" -> EncodeSysText(PstateNames, o, PstateFields)
    [] k = "Sysreg" -> EncodeSysText(SysregNames, o, SysregFields)
    [] k = "Cn" -> encode_coproc_register(o, 12)
    [] k = "Cm" -> encode_coproc_register(o, 8)
    [] k = "Prfop" -> encode_prfop(o)
    [] OTHER -> Err
=============================================================================
