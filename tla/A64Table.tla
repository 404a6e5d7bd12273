------------------------------ MODULE A64Table ------------------------------
(***************************************************************************)
(* Rows of aarch64_opcode_table (src/isa/aarch64/table.rs), in the table's *)
(* order: which row a word matches depends on every other row.  One        *)
(* definition per stretch of an instruction class; a row is its mnemonic,  *)
(* base opcode and mask (as two halves each), operand kinds, and the two   *)
(* flags that the matcher reads.                                           *)
(***************************************************************************)
EXTENDS Words, Sequences, SequencesExt

\* Aarch64Opcode: ones and zeros are the bits the mask fixes.
Row(class, r) ==
  LET opcode == Hex(r[2], r[3])  mask == Hex(r[4], r[5])
  IN  [name |-> r[1], class |-> class, base |-> opcode, mask |-> mask,
       ones |-> opcode \cap mask, zeros |-> mask \ opcode, weight |-> Cardinality(mask),
       kinds |-> r[6], alias |-> "ALIAS" \in r[7], conv |-> "CONV" \in r[7]]
Rows(class, rows) == [i \in 1..Len(rows) |-> Row(class, rows[i])]

AddsubCarryRows == Rows("AddsubCarry", <<
  <<"adc", \h1a00, \h0000, \h7fe0, \hfc00, <<"Rd", "Rn", "Rm">>, {}>>,
  <<"adcs", \h3a00, \h0000, \h7fe0, \hfc00, <<"Rd", "Rn", "Rm">>, {}>>,
  <<"sbc", \h5a00, \h0000, \h7fe0, \hfc00, <<"Rd", "Rn", "Rm">>, {}>>,
  <<"ngc", \h5a00, \h03e0, \h7fe0, \hffe0, <<"Rd", "Rm">>, {"ALIAS"}>>,
  <<"sbcs", \h7a00, \h0000, \h7fe0, \hfc00, <<"Rd", "Rn", "Rm">>, {}>>,
  <<"ngcs", \h7a00, \h03e0, \h7fe0, \hffe0, <<"Rd", "Rm">>, {"ALIAS"}>>>>)

AddsubExtRows == Rows("AddsubExt", <<
  <<"add", \h0b20, \h0000, \h7fe0, \h0000, <<"RdSp", "RnSp", "RmExt">>, {}>>,
  <<"adds", \h2b20, \h0000, \h7fe0, \h0000, <<"Rd", "RnSp", "RmExt">>, {}>>,
  <<"cmn", \h2b20, \h001f, \h7fe0, \h001f, <<"RnSp", "RmExt">>, {"ALIAS"}>>,
  <<"sub", \h4b20, \h0000, \h7fe0, \h0000, <<"RdSp", "RnSp", "RmExt">>, {}>>,
  <<"subs", \h6b20, \h0000, \h7fe0, \h0000, <<"Rd", "RnSp", "RmExt">>, {}>>,
  <<"cmp", \h6b20, \h001f, \h7fe0, \h001f, <<"RnSp", "RmExt">>, {"ALIAS"}>>>>)

AddsubImmRows == Rows("AddsubImm", <<
  <<"add", \h1100, \h0000, \h7f00, \h0000, <<"RdSp", "RnSp", "Aimm">>, {}>>,
  <<"mov", \h1100, \h0000, \h7fff, \hfc00, <<"RdSp", "RnSp">>, {"ALIAS"}>>,
  <<"adds", \h3100, \h0000, \h7f00, \h0000, <<"Rd", "RnSp", "Aimm">>, {}>>,
  <<"cmn", \h3100, \h001f, \h7f00, \h001f, <<"RnSp", "Aimm">>, {"ALIAS"}>>,
  <<"sub", \h5100, \h0000, \h7f00, \h0000, <<"RdSp", "RnSp", "Aimm">>, {}>>,
  <<"subs", \h7100, \h0000, \h7f00, \h0000, <<"Rd", "RnSp", "Aimm">>, {}>>,
  <<"cmp", \h7100, \h001f, \h7f00, \h001f, <<"RnSp", "Aimm">>, {"ALIAS"}>>>>)

AddsubShiftRows == Rows("AddsubShift", <<
  <<"add", \h0b00, \h0000, \h7f20, \h0000, <<"Rd", "Rn", "RmSft">>, {}>>,
  <<"adds", \h2b00, \h0000, \h7f20, \h0000, <<"Rd", "Rn", "RmSft">>, {}>>,
  <<"cmn", \h2b00, \h001f, \h7f20, \h001f, <<"Rn", "RmSft">>, {"ALIAS"}>>,
  <<"sub", \h4b00, \h0000, \h7f20, \h0000, <<"Rd", "Rn", "RmSft">>, {}>>,
  <<"neg", \h4b00, \h03e0, \h7f20, \h03e0, <<"Rd", "RmSft">>, {"ALIAS"}>>,
  <<"subs", \h6b00, \h0000, \h7f20, \h0000, <<"Rd", "Rn", "RmSft">>, {}>>,
  <<"cmp", \h6b00, \h001f, \h7f20, \h001f, <<"Rn", "RmSft">>, {"ALIAS"}>>,
  <<"negs", \h6b00, \h03e0, \h7f20, \h03e0, <<"Rd", "RmSft">>, {"ALIAS"}>>>>)

AsimdallRows == Rows("Asimdall", <<
  <<"saddlv", \h0e30, \h3800, \hbf3f, \hfc00, <<"Fd", "Vn">>, {}>>,
  <<"smaxv", \h0e30, \ha800, \hbf3f, \hfc00, <<"Fd", "Vn">>, {}>>,
  <<"sminv", \h0e31, \ha800, \hbf3f, \hfc00, <<"Fd", "Vn">>, {}>>,
  <<"addv", \h0e31, \hb800, \hbf3f, \hfc00, <<"Fd", "Vn">>, {}>>,
  <<"uaddlv", \h2e30, \h3800, \hbf3f, \hfc00, <<"Fd", "Vn">>, {}>>,
  <<"umaxv", \h2e30, \ha800, \hbf3f, \hfc00, <<"Fd", "Vn">>, {}>>,
  <<"uminv", \h2e31, \ha800, \hbf3f, \hfc00, <<"Fd", "Vn">>, {}>>,
  <<"fmaxnmv", \h2e30, \hc800, \hbfbf, \hfc00, <<"Fd", "Vn">>, {}>>,
  <<"fmaxnmv", \h0e30, \hc800, \hbfff, \hfc00, <<"Fd", "Vn">>, {}>>,
  <<"fmaxv", \h2e30, \hf800, \hbfbf, \hfc00, <<"Fd", "Vn">>, {}>>,
  <<"fmaxv", \h0e30, \hf800, \hbfff, \hfc00, <<"Fd", "Vn">>, {}>>,
  <<"fminnmv", \h2eb0, \hc800, \hbfbf, \hfc00, <<"Fd", "Vn">>, {}>>,
  <<"fminnmv", \h0eb0, \hc800, \hbfff, \hfc00, <<"Fd", "Vn">>, {}>>,
  <<"fminv", \h2eb0, \hf800, \hbfbf, \hfc00, <<"Fd", "Vn">>, {}>>,
  <<"fminv", \h0eb0, \hf800, \hbfff, \hfc00, <<"Fd", "Vn">>, {}>>>>)

AsimddiffRows1 == Rows("Asimddiff", <<
  <<"saddl", \h0e20, \h0000, \hff20, \hfc00, <<"Vd", "Vn", "Vm">>, {}>>,
  <<"saddl2", \h4e20, \h0000, \hff20, \hfc00, <<"Vd", "Vn", "Vm">>, {}>>,
  <<"saddw", \h0e20, \h1000, \hff20, \hfc00, <<"Vd", "Vn", "Vm">>, {}>>,
  <<"saddw2", \h4e20, \h1000, \hff20, \hfc00, <<"Vd", "Vn", "Vm">>, {}>>,
  <<"ssubl", \h0e20, \h2000, \hff20, \hfc00, <<"Vd", "Vn", "Vm">>, {}>>,
  <<"ssubl2", \h4e20, \h2000, \hff20, \hfc00, <<"Vd", "Vn", "Vm">>, {}>>,
  <<"ssubw", \h0e20, \h3000, \hff20, \hfc00, <<"Vd", "Vn", "Vm">>, {}>>,
  <<"ssubw2", \h4e20, \h3000, \hff20, \hfc00, <<"Vd", "Vn", "Vm">>, {}>>,
  <<"addhn", \h0e20, \h4000, \hff20, \hfc00, <<"Vd", "Vn", "Vm">>, {}>>,
  <<"addhn2", \h4e20, \h4000, \hff20, \hfc00, <<"Vd", "Vn", "Vm">>, {}>>,
  <<"sabal", \h0e20, \h5000, \hff20, \hfc00, <<"Vd", "Vn", "Vm">>, {}>>,
  <<"sabal2", \h4e20, \h5000, \hff20, \hfc00, <<"Vd", "Vn", "Vm">>, {}>>,
  <<"subhn", \h0e20, \h6000, \hff20, \hfc00, <<"Vd", "Vn", "Vm">>, {}>>,
  <<"subhn2", \h4e20, \h6000, \hff20, \hfc00, <<"Vd", "Vn", "Vm">>, {}>>,
  <<"sabdl", \h0e20, \h7000, \hff20, \hfc00, <<"Vd", "Vn", "Vm">>, {}>>,
  <<"sabdl2", \h4e20, \h7000, \hff20, \hfc00, <<"Vd", "Vn", "Vm">>, {}>>,
  <<"smlal", \h0e20, \h8000, \hff20, \hfc00, <<"Vd", "Vn", "Vm">>, {}>>,
  <<"smlal2", \h4e20, \h8000, \hff20, \hfc00, <<"Vd", "Vn", "Vm">>, {}>>>>)

AsimddiffRows2 == Rows("Asimddiff", <<
  <<"sqdmlal", \h0e20, \h9000, \hff20, \hfc00, <<"Vd", "Vn", "Vm">>, {}>>,
  <<"sqdmlal2", \h4e20, \h9000, \hff20, \hfc00, <<"Vd", "Vn", "Vm">>, {}>>,
  <<"smlsl", \h0e20, \ha000, \hff20, \hfc00, <<"Vd", "Vn", "Vm">>, {}>>,
  <<"smlsl2", \h4e20, \ha000, \hff20, \hfc00, <<"Vd", "Vn", "Vm">>, {}>>,
  <<"sqdmlsl", \h0e20, \hb000, \hff20, \hfc00, <<"Vd", "Vn", "Vm">>, {}>>,
  <<"sqdmlsl2", \h4e20, \hb000, \hff20, \hfc00, <<"Vd", "Vn", "Vm">>, {}>>,
  <<"smull", \h0e20, \hc000, \hff20, \hfc00, <<"Vd", "Vn", "Vm">>, {}>>,
  <<"smull2", \h4e20, \hc000, \hff20, \hfc00, <<"Vd", "Vn", "Vm">>, {}>>,
  <<"sqdmull", \h0e20, \hd000, \hff20, \hfc00, <<"Vd", "Vn", "Vm">>, {}>>,
  <<"sqdmull2", \h4e20, \hd000, \hff20, \hfc00, <<"Vd", "Vn", "Vm">>, {}>>,
  <<"pmull", \h0e20, \he000, \hffe0, \hfc00, <<"Vd", "Vn", "Vm">>, {}>>,
  <<"pmull", \h0ee0, \he000, \hffe0, \hfc00, <<"Vd", "Vn", "Vm">>, {}>>,
  <<"pmull2", \h4e20, \he000, \hffe0, \hfc00, <<"Vd", "Vn", "Vm">>, {}>>,
  <<"pmull2", \h4ee0, \he000, \hffe0, \hfc00, <<"Vd", "Vn", "Vm">>, {}>>,
  <<"uaddl", \h2e20, \h0000, \hff20, \hfc00, <<"Vd", "Vn", "Vm">>, {}>>,
  <<"uaddl2", \h6e20, \h0000, \hff20, \hfc00, <<"Vd", "Vn", "Vm">>, {}>>,
  <<"uaddw", \h2e20, \h1000, \hff20, \hfc00, <<"Vd", "Vn", "Vm">>, {}>>,
  <<"uaddw2", \h6e20, \h1000, \hff20, \hfc00, <<"Vd", "Vn", "Vm">>, {}>>>>)

AsimddiffRows3 == Rows("Asimddiff", <<
  <<"usubl", \h2e20, \h2000, \hff20, \hfc00, <<"Vd", "Vn", "Vm">>, {}>>,
  <<"usubl2", \h6e20, \h2000, \hff20, \hfc00, <<"Vd", "Vn", "Vm">>, {}>>,
  <<"usubw", \h2e20, \h3000, \hff20, \hfc00, <<"Vd", "Vn", "Vm">>, {}>>,
  <<"usubw2", \h6e20, \h3000, \hff20, \hfc00, <<"Vd", "Vn", "Vm">>, {}>>,
  <<"raddhn", \h2e20, \h4000, \hff20, \hfc00, <<"Vd", "Vn", "Vm">>, {}>>,
  <<"raddhn2", \h6e20, \h4000, \hff20, \hfc00, <<"Vd", "Vn", "Vm">>, {}>>,
  <<"uabal", \h2e20, \h5000, \hff20, \hfc00, <<"Vd", "Vn", "Vm">>, {}>>,
  <<"uabal2", \h6e20, \h5000, \hff20, \hfc00, <<"Vd", "Vn", "Vm">>, {}>>,
  <<"rsubhn", \h2e20, \h6000, \hff20, \hfc00, <<"Vd", "Vn", "Vm">>, {}>>,
  <<"rsubhn2", \h6e20, \h6000, \hff20, \hfc00, <<"Vd", "Vn", "Vm">>, {}>>,
  <<"uabdl", \h2e20, \h7000, \hff20, \hfc00, <<"Vd", "Vn", "Vm">>, {}>>,
  <<"uabdl2", \h6e20, \h7000, \hff20, \hfc00, <<"Vd", "Vn", "Vm">>, {}>>,
  <<"umlal", \h2e20, \h8000, \hff20, \hfc00, <<"Vd", "Vn", "Vm">>, {}>>,
  <<"umlal2", \h6e20, \h8000, \hff20, \hfc00, <<"Vd", "Vn", "Vm">>, {}>>,
  <<"umlsl", \h2e20, \ha000, \hff20, \hfc00, <<"Vd", "Vn", "Vm">>, {}>>,
  <<"umlsl2", \h6e20, \ha000, \hff20, \hfc00, <<"Vd", "Vn", "Vm">>, {}>>,
  <<"umull", \h2e20, \hc000, \hff20, \hfc00, <<"Vd", "Vn", "Vm">>, {}>>,
  <<"umull2", \h6e20, \hc000, \hff20, \hfc00, <<"Vd", "Vn", "Vm">>, {}>>>>)

AsimdelemRows1 == Rows("Asimdelem", <<
  <<"smlal", \h0f00, \h2000, \hff00, \hf400, <<"Vd", "Vn", "Em">>, {}>>,
  <<"smlal2", \h4f00, \h2000, \hff00, \hf400, <<"Vd", "Vn", "Em">>, {}>>,
  <<"sqdmlal", \h0f00, \h3000, \hff00, \hf400, <<"Vd", "Vn", "Em">>, {}>>,
  <<"sqdmlal2", \h4f00, \h3000, \hff00, \hf400, <<"Vd", "Vn", "Em">>, {}>>,
  <<"smlsl", \h0f00, \h6000, \hff00, \hf400, <<"Vd", "Vn", "Em">>, {}>>,
  <<"smlsl2", \h4f00, \h6000, \hff00, \hf400, <<"Vd", "Vn", "Em">>, {}>>,
  <<"sqdmlsl", \h0f00, \h7000, \hff00, \hf400, <<"Vd", "Vn", "Em">>, {}>>,
  <<"sqdmlsl2", \h4f00, \h7000, \hff00, \hf400, <<"Vd", "Vn", "Em">>, {}>>,
  <<"mul", \h0f00, \h8000, \hbf00, \hf400, <<"Vd", "Vn", "Em">>, {}>>,
  <<"smull", \h0f00, \ha000, \hff00, \hf400, <<"Vd", "Vn", "Em">>, {}>>,
  <<"smull2", \h4f00, \ha000, \hff00, \hf400, <<"Vd", "Vn", "Em">>, {}>>,
  <<"sqdmull", \h0f00, \hb000, \hff00, \hf400, <<"Vd", "Vn", "Em">>, {}>>,
  <<"sqdmull2", \h4f00, \hb000, \hff00, \hf400, <<"Vd", "Vn", "Em">>, {}>>,
  <<"sqdmulh", \h0f00, \hc000, \hbf00, \hf400, <<"Vd", "Vn", "Em">>, {}>>,
  <<"sqrdmulh", \h0f00, \hd000, \hbf00, \hf400, <<"Vd", "Vn", "Em">>, {}>>,
  <<"fmla", \h0f80, \h1000, \hbf80, \hf400, <<"Vd", "Vn", "Em">>, {}>>,
  <<"fmla", \h0f00, \h1000, \hbfe0, \hfc00, <<"Vd", "Vn", "Em">>, {}>>,
  <<"fmls", \h0f80, \h5000, \hbf80, \hf400, <<"Vd", "Vn", "Em">>, {}>>>>)

AsimdelemRows2 == Rows("Asimdelem", <<
  <<"fmls", \h0f00, \h5000, \hbfe0, \hfc00, <<"Vd", "Vn", "Em">>, {}>>,
  <<"fmul", \h0f80, \h9000, \hbf80, \hf400, <<"Vd", "Vn", "Em">>, {}>>,
  <<"fmul", \h0f00, \h9000, \hbfe0, \hfc00, <<"Vd", "Vn", "Em">>, {}>>,
  <<"mla", \h2f00, \h0000, \hbf00, \hf400, <<"Vd", "Vn", "Em">>, {}>>,
  <<"umlal", \h2f00, \h2000, \hff00, \hf400, <<"Vd", "Vn", "Em">>, {}>>,
  <<"umlal2", \h6f00, \h2000, \hff00, \hf400, <<"Vd", "Vn", "Em">>, {}>>,
  <<"mls", \h2f00, \h4000, \hbf00, \hf400, <<"Vd", "Vn", "Em">>, {}>>,
  <<"umlsl", \h2f00, \h6000, \hff00, \hf400, <<"Vd", "Vn", "Em">>, {}>>,
  <<"umlsl2", \h6f00, \h6000, \hff00, \hf400, <<"Vd", "Vn", "Em">>, {}>>,
  <<"umull", \h2f00, \ha000, \hff00, \hf400, <<"Vd", "Vn", "Em">>, {}>>,
  <<"umull2", \h6f00, \ha000, \hff00, \hf400, <<"Vd", "Vn", "Em">>, {}>>,
  <<"fmulx", \h2f80, \h9000, \hbf80, \hf400, <<"Vd", "Vn", "Em">>, {}>>,
  <<"fmulx", \h2f00, \h9000, \hbfe0, \hfc00, <<"Vd", "Vn", "Em">>, {}>>,
  <<"sqrdmlah", \h2f00, \hd000, \hbf00, \hf400, <<"Vd", "Vn", "Em">>, {}>>,
  <<"sqrdmlsh", \h2f00, \hf000, \hbf00, \hf400, <<"Vd", "Vn", "Em">>, {}>>>>)

AsimdextRows == Rows("Asimdext", <<
  <<"ext", \h2e00, \h0000, \hbfe0, \h8400, <<"Vd", "Vn", "Vm", "Idx">>, {}>>>>)

AsimdimmRows == Rows("Asimdimm", <<
  <<"movi", \h0f00, \h0400, \hbff8, \h9c00, <<"Vd", "SimdImmSft">>, {}>>,
  <<"orr", \h0f00, \h1400, \hbff8, \h9c00, <<"Vd", "SimdImmSft">>, {}>>,
  <<"movi", \h0f00, \h8400, \hbff8, \hdc00, <<"Vd", "SimdImmSft">>, {}>>,
  <<"orr", \h0f00, \h9400, \hbff8, \hdc00, <<"Vd", "SimdImmSft">>, {}>>,
  <<"movi", \h0f00, \hc400, \hbff8, \hec00, <<"Vd", "SimdImmSft">>, {}>>,
  <<"movi", \h0f00, \he400, \hbff8, \hfc00, <<"Vd", "SimdImmSft">>, {}>>,
  <<"fmov", \h0f00, \hf400, \hbff8, \hfc00, <<"Vd", "SimdFpimm">>, {}>>,
  <<"fmov", \h0f00, \hfc00, \hbff8, \hfc00, <<"Vd", "SimdFpimm">>, {}>>,
  <<"mvni", \h2f00, \h0400, \hbff8, \h9c00, <<"Vd", "SimdImmSft">>, {}>>,
  <<"bic", \h2f00, \h1400, \hbff8, \h9c00, <<"Vd", "SimdImmSft">>, {}>>,
  <<"mvni", \h2f00, \h8400, \hbff8, \hdc00, <<"Vd", "SimdImmSft">>, {}>>,
  <<"bic", \h2f00, \h9400, \hbff8, \hdc00, <<"Vd", "SimdImmSft">>, {}>>,
  <<"mvni", \h2f00, \hc400, \hbff8, \hec00, <<"Vd", "SimdImmSft">>, {}>>,
  <<"movi", \h2f00, \he400, \hfff8, \hfc00, <<"Sd", "SimdImm">>, {}>>,
  <<"movi", \h6f00, \he400, \hfff8, \hfc00, <<"Vd", "SimdImm">>, {}>>,
  <<"fmov", \h6f00, \hf400, \hfff8, \hfc00, <<"Vd", "SimdFpimm">>, {}>>>>)

AsimdinsRows == Rows("Asimdins", <<
  <<"dup", \h0e00, \h0400, \hbfe0, \hfc00, <<"Vd", "En">>, {}>>,
  <<"dup", \h0e00, \h0c00, \hbfe0, \hfc00, <<"Vd", "Rn">>, {}>>,
  <<"smov", \h0e00, \h2c00, \hbfe0, \hfc00, <<"Rd", "En">>, {}>>,
  <<"umov", \h0e00, \h3c00, \hbfe0, \hfc00, <<"Rd", "En">>, {}>>,
  <<"mov", \h0e00, \h3c00, \hbfe0, \hfc00, <<"Rd", "En">>, {"ALIAS"}>>,
  <<"ins", \h4e00, \h1c00, \hffe0, \hfc00, <<"Ed", "Rn">>, {}>>,
  <<"mov", \h4e00, \h1c00, \hffe0, \hfc00, <<"Ed", "Rn">>, {"ALIAS"}>>,
  <<"ins", \h6e00, \h0400, \hffe0, \h8400, <<"Ed", "En">>, {}>>,
  <<"mov", \h6e00, \h0400, \hffe0, \h8400, <<"Ed", "En">>, {"ALIAS"}>>>>)

AsimdmiscRows1 == Rows("Asimdmisc", <<
  <<"rev64", \h0e20, \h0800, \hbf3f, \hfc00, <<"Vd", "Vn">>, {}>>,
  <<"rev16", \h0e20, \h1800, \hbf3f, \hfc00, <<"Vd", "Vn">>, {}>>,
  <<"saddlp", \h0e20, \h2800, \hbf3f, \hfc00, <<"Vd", "Vn">>, {}>>,
  <<"suqadd", \h0e20, \h3800, \hbf3f, \hfc00, <<"Vd", "Vn">>, {}>>,
  <<"cls", \h0e20, \h4800, \hbf3f, \hfc00, <<"Vd", "Vn">>, {}>>,
  <<"cnt", \h0e20, \h5800, \hbf3f, \hfc00, <<"Vd", "Vn">>, {}>>,
  <<"sadalp", \h0e20, \h6800, \hbf3f, \hfc00, <<"Vd", "Vn">>, {}>>,
  <<"sqabs", \h0e20, \h7800, \hbf3f, \hfc00, <<"Vd", "Vn">>, {}>>,
  <<"cmgt", \h0e20, \h8800, \hbf3f, \hfc00, <<"Vd", "Vn", "Imm0">>, {}>>,
  <<"cmeq", \h0e20, \h9800, \hbf3f, \hfc00, <<"Vd", "Vn", "Imm0">>, {}>>,
  <<"cmlt", \h0e20, \ha800, \hbf3f, \hfc00, <<"Vd", "Vn", "Imm0">>, {}>>,
  <<"abs", \h0e20, \hb800, \hbf3f, \hfc00, <<"Vd", "Vn">>, {}>>,
  <<"xtn", \h0e21, \h2800, \hff3f, \hfc00, <<"Vd", "Vn">>, {}>>,
  <<"xtn2", \h4e21, \h2800, \hff3f, \hfc00, <<"Vd", "Vn">>, {}>>,
  <<"sqxtn", \h0e21, \h4800, \hff3f, \hfc00, <<"Vd", "Vn">>, {}>>,
  <<"sqxtn2", \h4e21, \h4800, \hff3f, \hfc00, <<"Vd", "Vn">>, {}>>,
  <<"fcvtn", \h0e21, \h6800, \hffbf, \hfc00, <<"Vd", "Vn">>, {}>>,
  <<"fcvtn2", \h4e21, \h6800, \hffbf, \hfc00, <<"Vd", "Vn">>, {}>>>>)

AsimdmiscRows2 == Rows("Asimdmisc", <<
  <<"fcvtl", \h0e21, \h7800, \hffbf, \hfc00, <<"Vd", "Vn">>, {}>>,
  <<"fcvtl2", \h4e21, \h7800, \hffbf, \hfc00, <<"Vd", "Vn">>, {}>>,
  <<"frintn", \h0e21, \h8800, \hbfbf, \hfc00, <<"Vd", "Vn">>, {}>>,
  <<"frintn", \h0e79, \h8800, \hbfff, \hfc00, <<"Vd", "Vn">>, {}>>,
  <<"frintm", \h0e21, \h9800, \hbfbf, \hfc00, <<"Vd", "Vn">>, {}>>,
  <<"frintm", \h0e79, \h9800, \hbfff, \hfc00, <<"Vd", "Vn">>, {}>>,
  <<"fcvtns", \h0e21, \ha800, \hbfbf, \hfc00, <<"Vd", "Vn">>, {}>>,
  <<"fcvtns", \h0e79, \ha800, \hbfff, \hfc00, <<"Vd", "Vn">>, {}>>,
  <<"fcvtms", \h0e21, \hb800, \hbfbf, \hfc00, <<"Vd", "Vn">>, {}>>,
  <<"fcvtms", \h0e79, \hb800, \hbfff, \hfc00, <<"Vd", "Vn">>, {}>>,
  <<"fcvtas", \h0e21, \hc800, \hbfbf, \hfc00, <<"Vd", "Vn">>, {}>>,
  <<"fcvtas", \h0e79, \hc800, \hbfff, \hfc00, <<"Vd", "Vn">>, {}>>,
  <<"scvtf", \h0e21, \hd800, \hbfbf, \hfc00, <<"Vd", "Vn">>, {}>>,
  <<"scvtf", \h0e79, \hd800, \hbfbf, \hfc00, <<"Vd", "Vn">>, {}>>,
  <<"fcmgt", \h0ea0, \hc800, \hbfbf, \hfc00, <<"Vd", "Vn", "Fpimm0">>, {}>>,
  <<"fcmgt", \h0ef8, \hc800, \hbfff, \hfc00, <<"Vd", "Vn", "Fpimm0">>, {}>>,
  <<"fcmeq", \h0ea0, \hd800, \hbfbf, \hfc00, <<"Vd", "Vn", "Fpimm0">>, {}>>,
  <<"fcmeq", \h0ef8, \hd800, \hbfff, \hfc00, <<"Vd", "Vn", "Fpimm0">>, {}>>>>)

AsimdmiscRows3 == Rows("Asimdmisc", <<
  <<"fcmlt", \h0ea0, \he800, \hbfbf, \hfc00, <<"Vd", "Vn", "Fpimm0">>, {}>>,
  <<"fcmlt", \h0ef8, \he800, \hbfff, \hfc00, <<"Vd", "Vn", "Fpimm0">>, {}>>,
  <<"fabs", \h0ea0, \hf800, \hbfbf, \hfc00, <<"Vd", "Vn">>, {}>>,
  <<"fabs", \h0ef8, \hf800, \hbfff, \hfc00, <<"Vd", "Vn">>, {}>>,
  <<"frintp", \h0ea1, \h8800, \hbfbf, \hfc00, <<"Vd", "Vn">>, {}>>,
  <<"frintp", \h0ef9, \h8800, \hbfff, \hfc00, <<"Vd", "Vn">>, {}>>,
  <<"frintz", \h0ea1, \h9800, \hbfbf, \hfc00, <<"Vd", "Vn">>, {}>>,
  <<"frintz", \h0ef9, \h9800, \hbfff, \hfc00, <<"Vd", "Vn">>, {}>>,
  <<"fcvtps", \h0ea1, \ha800, \hbfbf, \hfc00, <<"Vd", "Vn">>, {}>>,
  <<"fcvtps", \h0ef9, \ha800, \hbfff, \hfc00, <<"Vd", "Vn">>, {}>>,
  <<"fcvtzs", \h0ea1, \hb800, \hbfbf, \hfc00, <<"Vd", "Vn">>, {}>>,
  <<"fcvtzs", \h0ef9, \hb800, \hbfff, \hfc00, <<"Vd", "Vn">>, {}>>,
  <<"urecpe", \h0ea1, \hc800, \hbfbf, \hfc00, <<"Vd", "Vn">>, {}>>,
  <<"frecpe", \h0ea1, \hd800, \hbfbf, \hfc00, <<"Vd", "Vn">>, {}>>,
  <<"frecpe", \h0ef9, \hd800, \hbfbf, \hfc00, <<"Vd", "Vn">>, {}>>,
  <<"rev32", \h2e20, \h0800, \hbf3f, \hfc00, <<"Vd", "Vn">>, {}>>,
  <<"uaddlp", \h2e20, \h2800, \hbf3f, \hfc00, <<"Vd", "Vn">>, {}>>,
  <<"usqadd", \h2e20, \h3800, \hbf3f, \hfc00, <<"Vd", "Vn">>, {}>>>>)

AsimdmiscRows4 == Rows("Asimdmisc", <<
  <<"clz", \h2e20, \h4800, \hbf3f, \hfc00, <<"Vd", "Vn">>, {}>>,
  <<"uadalp", \h2e20, \h6800, \hbf3f, \hfc00, <<"Vd", "Vn">>, {}>>,
  <<"sqneg", \h2e20, \h7800, \hbf3f, \hfc00, <<"Vd", "Vn">>, {}>>,
  <<"cmge", \h2e20, \h8800, \hbf3f, \hfc00, <<"Vd", "Vn", "Imm0">>, {}>>,
  <<"cmle", \h2e20, \h9800, \hbf3f, \hfc00, <<"Vd", "Vn", "Imm0">>, {}>>,
  <<"neg", \h2e20, \hb800, \hbf3f, \hfc00, <<"Vd", "Vn">>, {}>>,
  <<"sqxtun", \h2e21, \h2800, \hff3f, \hfc00, <<"Vd", "Vn">>, {}>>,
  <<"sqxtun2", \h6e21, \h2800, \hff3f, \hfc00, <<"Vd", "Vn">>, {}>>,
  <<"shll", \h2e21, \h3800, \hff3f, \hfc00, <<"Vd", "Vn", "ShllImm">>, {}>>,
  <<"shll2", \h6e21, \h3800, \hff3f, \hfc00, <<"Vd", "Vn", "ShllImm">>, {}>>,
  <<"uqxtn", \h2e21, \h4800, \hff3f, \hfc00, <<"Vd", "Vn">>, {}>>,
  <<"uqxtn2", \h6e21, \h4800, \hff3f, \hfc00, <<"Vd", "Vn">>, {}>>,
  <<"fcvtxn", \h2e61, \h6800, \hffff, \hfc00, <<"Vd", "Vn">>, {}>>,
  <<"fcvtxn2", \h6e61, \h6800, \hffff, \hfc00, <<"Vd", "Vn">>, {}>>,
  <<"frinta", \h2e21, \h8800, \hbfbf, \hfc00, <<"Vd", "Vn">>, {}>>,
  <<"frinta", \h2e79, \h8800, \hbfff, \hfc00, <<"Vd", "Vn">>, {}>>,
  <<"frintx", \h2e21, \h9800, \hbfbf, \hfc00, <<"Vd", "Vn">>, {}>>,
  <<"frintx", \h2e79, \h9800, \hbfff, \hfc00, <<"Vd", "Vn">>, {}>>,
  <<"fcvtnu", \h2e21, \ha800, \hbfbf, \hfc00, <<"Vd", "Vn">>, {}>>,
  <<"fcvtnu", \h2e79, \ha800, \hbfff, \hfc00, <<"Vd", "Vn">>, {}>>>>)

AsimdmiscRows5 == Rows("Asimdmisc", <<
  <<"fcvtmu", \h2e21, \hb800, \hbfbf, \hfc00, <<"Vd", "Vn">>, {}>>,
  <<"fcvtmu", \h2e79, \hb800, \hbfff, \hfc00, <<"Vd", "Vn">>, {}>>,
  <<"fcvtau", \h2e21, \hc800, \hbfbf, \hfc00, <<"Vd", "Vn">>, {}>>,
  <<"fcvtau", \h2e79, \hc800, \hbfff, \hfc00, <<"Vd", "Vn">>, {}>>,
  <<"ucvtf", \h2e21, \hd800, \hbfbf, \hfc00, <<"Vd", "Vn">>, {}>>,
  <<"ucvtf", \h2e79, \hd800, \hbfbf, \hfc00, <<"Vd", "Vn">>, {}>>,
  <<"not", \h2e20, \h5800, \hbfff, \hfc00, <<"Vd", "Vn">>, {}>>,
  <<"mvn", \h2e20, \h5800, \hbfff, \hfc00, <<"Vd", "Vn">>, {"ALIAS"}>>,
  <<"rbit", \h2e60, \h5800, \hbfff, \hfc00, <<"Vd", "Vn">>, {}>>,
  <<"fcmge", \h2ea0, \hc800, \hbfbf, \hfc00, <<"Vd", "Vn", "Fpimm0">>, {}>>,
  <<"fcmge", \h2ef8, \hc800, \hbfff, \hfc00, <<"Vd", "Vn", "Fpimm0">>, {}>>,
  <<"fcmle", \h2ea0, \hd800, \hbfbf, \hfc00, <<"Vd", "Vn", "Fpimm0">>, {}>>,
  <<"fcmle", \h2ef8, \hd800, \hbfff, \hfc00, <<"Vd", "Vn", "Fpimm0">>, {}>>,
  <<"fneg", \h2ea0, \hf800, \hbfbf, \hfc00, <<"Vd", "Vn">>, {}>>,
  <<"fneg", \h2ef8, \hf800, \hbfff, \hfc00, <<"Vd", "Vn">>, {}>>,
  <<"frinti", \h2ea1, \h9800, \hbfbf, \hfc00, <<"Vd", "Vn">>, {}>>,
  <<"frinti", \h2ef9, \h9800, \hbfff, \hfc00, <<"Vd", "Vn">>, {}>>,
  <<"fcvtpu", \h2ea1, \ha800, \hbfbf, \hfc00, <<"Vd", "Vn">>, {}>>>>)

AsimdmiscRows6 == Rows("Asimdmisc", <<
  <<"fcvtpu", \h2ef9, \ha800, \hbfff, \hfc00, <<"Vd", "Vn">>, {}>>,
  <<"fcvtzu", \h2ea1, \hb800, \hbfbf, \hfc00, <<"Vd", "Vn">>, {}>>,
  <<"fcvtzu", \h2ef9, \hb800, \hbfff, \hfc00, <<"Vd", "Vn">>, {}>>,
  <<"ursqrte", \h2ea1, \hc800, \hbfbf, \hfc00, <<"Vd", "Vn">>, {}>>,
  <<"frsqrte", \h2ea1, \hd800, \hbfbf, \hfc00, <<"Vd", "Vn">>, {}>>,
  <<"frsqrte", \h2ef9, \hd800, \hbfbf, \hfc00, <<"Vd", "Vn">>, {}>>,
  <<"fsqrt", \h2ea1, \hf800, \hbfbf, \hfc00, <<"Vd", "Vn">>, {}>>,
  <<"fsqrt", \h2ef9, \hf800, \hbfbf, \hfc00, <<"Vd", "Vn">>, {}>>>>)

AsimdpermRows == Rows("Asimdperm", <<
  <<"uzp1", \h0e00, \h1800, \hbf20, \hfc00, <<"Vd", "Vn", "Vm">>, {}>>,
  <<"trn1", \h0e00, \h2800, \hbf20, \hfc00, <<"Vd", "Vn", "Vm">>, {}>>,
  <<"zip1", \h0e00, \h3800, \hbf20, \hfc00, <<"Vd", "Vn", "Vm">>, {}>>,
  <<"uzp2", \h0e00, \h5800, \hbf20, \hfc00, <<"Vd", "Vn", "Vm">>, {}>>,
  <<"trn2", \h0e00, \h6800, \hbf20, \hfc00, <<"Vd", "Vn", "Vm">>, {}>>,
  <<"zip2", \h0e00, \h7800, \hbf20, \hfc00, <<"Vd", "Vn", "Vm">>, {}>>>>)

AsimdsameRows1 == Rows("Asimdsame", <<
  <<"shadd", \h0e20, \h0400, \hbf20, \hfc00, <<"Vd", "Vn", "Vm">>, {}>>,
  <<"sqadd", \h0e20, \h0c00, \hbf20, \hfc00, <<"Vd", "Vn", "Vm">>, {}>>,
  <<"srhadd", \h0e20, \h1400, \hbf20, \hfc00, <<"Vd", "Vn", "Vm">>, {}>>,
  <<"shsub", \h0e20, \h2400, \hbf20, \hfc00, <<"Vd", "Vn", "Vm">>, {}>>,
  <<"sqsub", \h0e20, \h2c00, \hbf20, \hfc00, <<"Vd", "Vn", "Vm">>, {}>>,
  <<"cmgt", \h0e20, \h3400, \hbf20, \hfc00, <<"Vd", "Vn", "Vm">>, {}>>,
  <<"cmge", \h0e20, \h3c00, \hbf20, \hfc00, <<"Vd", "Vn", "Vm">>, {}>>,
  <<"sshl", \h0e20, \h4400, \hbf20, \hfc00, <<"Vd", "Vn", "Vm">>, {}>>,
  <<"sqshl", \h0e20, \h4c00, \hbf20, \hfc00, <<"Vd", "Vn", "Vm">>, {}>>,
  <<"srshl", \h0e20, \h5400, \hbf20, \hfc00, <<"Vd", "Vn", "Vm">>, {}>>,
  <<"sqrshl", \h0e20, \h5c00, \hbf20, \hfc00, <<"Vd", "Vn", "Vm">>, {}>>,
  <<"smax", \h0e20, \h6400, \hbf20, \hfc00, <<"Vd", "Vn", "Vm">>, {}>>,
  <<"smin", \h0e20, \h6c00, \hbf20, \hfc00, <<"Vd", "Vn", "Vm">>, {}>>,
  <<"sabd", \h0e20, \h7400, \hbf20, \hfc00, <<"Vd", "Vn", "Vm">>, {}>>,
  <<"saba", \h0e20, \h7c00, \hbf20, \hfc00, <<"Vd", "Vn", "Vm">>, {}>>,
  <<"add", \h0e20, \h8400, \hbf20, \hfc00, <<"Vd", "Vn", "Vm">>, {}>>,
  <<"cmtst", \h0e20, \h8c00, \hbf20, \hfc00, <<"Vd", "Vn", "Vm">>, {}>>,
  <<"mla", \h0e20, \h9400, \hbf20, \hfc00, <<"Vd", "Vn", "Vm">>, {}>>>>)

AsimdsameRows2 == Rows("Asimdsame", <<
  <<"mul", \h0e20, \h9c00, \hbf20, \hfc00, <<"Vd", "Vn", "Vm">>, {}>>,
  <<"smaxp", \h0e20, \ha400, \hbf20, \hfc00, <<"Vd", "Vn", "Vm">>, {}>>,
  <<"sminp", \h0e20, \hac00, \hbf20, \hfc00, <<"Vd", "Vn", "Vm">>, {}>>,
  <<"sqdmulh", \h0e20, \hb400, \hbf20, \hfc00, <<"Vd", "Vn", "Vm">>, {}>>,
  <<"addp", \h0e20, \hbc00, \hbf20, \hfc00, <<"Vd", "Vn", "Vm">>, {}>>,
  <<"fmaxnm", \h0e20, \hc400, \hbfa0, \hfc00, <<"Vd", "Vn", "Vm">>, {}>>,
  <<"fmaxnm", \h0e40, \h0400, \hbfe0, \hfc00, <<"Vd", "Vn", "Vm">>, {}>>,
  <<"fmla", \h0e20, \hcc00, \hbfa0, \hfc00, <<"Vd", "Vn", "Vm">>, {}>>,
  <<"fmla", \h0e40, \h0c00, \hbfe0, \hfc00, <<"Vd", "Vn", "Vm">>, {}>>,
  <<"fadd", \h0e20, \hd400, \hbfa0, \hfc00, <<"Vd", "Vn", "Vm">>, {}>>,
  <<"fadd", \h0e40, \h1400, \hbfe0, \hfc00, <<"Vd", "Vn", "Vm">>, {}>>,
  <<"fmulx", \h0e20, \hdc00, \hbfa0, \hfc00, <<"Vd", "Vn", "Vm">>, {}>>,
  <<"fmulx", \h0e40, \h1c00, \hbfe0, \hfc00, <<"Vd", "Vn", "Vm">>, {}>>,
  <<"fcmeq", \h0e20, \he400, \hbfa0, \hfc00, <<"Vd", "Vn", "Vm">>, {}>>,
  <<"fcmeq", \h0e40, \h2400, \hbfe0, \hfc00, <<"Vd", "Vn", "Vm">>, {}>>,
  <<"fmax", \h0e20, \hf400, \hbfa0, \hfc00, <<"Vd", "Vn", "Vm">>, {}>>,
  <<"fmax", \h0e40, \h3400, \hbfe0, \hfc00, <<"Vd", "Vn", "Vm">>, {}>>,
  <<"frecps", \h0e20, \hfc00, \hbfa0, \hfc00, <<"Vd", "Vn", "Vm">>, {}>>>>)

AsimdsameRows3 == Rows("Asimdsame", <<
  <<"frecps", \h0e40, \h3c00, \hbfe0, \hfc00, <<"Vd", "Vn", "Vm">>, {}>>,
  <<"and", \h0e20, \h1c00, \hbfe0, \hfc00, <<"Vd", "Vn", "Vm">>, {}>>,
  <<"bic", \h0e60, \h1c00, \hbfe0, \hfc00, <<"Vd", "Vn", "Vm">>, {}>>,
  <<"fminnm", \h0ea0, \hc400, \hbfa0, \hfc00, <<"Vd", "Vn", "Vm">>, {}>>,
  <<"fminnm", \h0ec0, \h0400, \hbfe0, \hfc00, <<"Vd", "Vn", "Vm">>, {}>>,
  <<"fmls", \h0ea0, \hcc00, \hbfa0, \hfc00, <<"Vd", "Vn", "Vm">>, {}>>,
  <<"fmls", \h0ec0, \h0c00, \hbfe0, \hfc00, <<"Vd", "Vn", "Vm">>, {}>>,
  <<"fsub", \h0ea0, \hd400, \hbfa0, \hfc00, <<"Vd", "Vn", "Vm">>, {}>>,
  <<"fsub", \h0ec0, \h1400, \hbfe0, \hfc00, <<"Vd", "Vn", "Vm">>, {}>>,
  <<"fmin", \h0ea0, \hf400, \hbfa0, \hfc00, <<"Vd", "Vn", "Vm">>, {}>>,
  <<"fmin", \h0ec0, \h3400, \hbfe0, \hfc00, <<"Vd", "Vn", "Vm">>, {}>>,
  <<"frsqrts", \h0ea0, \hfc00, \hbfa0, \hfc00, <<"Vd", "Vn", "Vm">>, {}>>,
  <<"frsqrts", \h0ec0, \h3c00, \hbfe0, \hfc00, <<"Vd", "Vn", "Vm">>, {}>>,
  <<"orr", \h0ea0, \h1c00, \hbfe0, \hfc00, <<"Vd", "Vn", "Vm">>, {}>>,
  <<"mov", \h0ea0, \h1c00, \hbfe0, \hfc00, <<"Vd", "Vn">>, {"ALIAS", "CONV"}>>,
  <<"orn", \h0ee0, \h1c00, \hbfe0, \hfc00, <<"Vd", "Vn", "Vm">>, {}>>,
  <<"uhadd", \h2e20, \h0400, \hbf20, \hfc00, <<"Vd", "Vn", "Vm">>, {}>>,
  <<"uqadd", \h2e20, \h0c00, \hbf20, \hfc00, <<"Vd", "Vn", "Vm">>, {}>>>>)

AsimdsameRows4 == Rows("Asimdsame", <<
  <<"urhadd", \h2e20, \h1400, \hbf20, \hfc00, <<"Vd", "Vn", "Vm">>, {}>>,
  <<"uhsub", \h2e20, \h2400, \hbf20, \hfc00, <<"Vd", "Vn", "Vm">>, {}>>,
  <<"uqsub", \h2e20, \h2c00, \hbf20, \hfc00, <<"Vd", "Vn", "Vm">>, {}>>,
  <<"cmhi", \h2e20, \h3400, \hbf20, \hfc00, <<"Vd", "Vn", "Vm">>, {}>>,
  <<"cmhs", \h2e20, \h3c00, \hbf20, \hfc00, <<"Vd", "Vn", "Vm">>, {}>>,
  <<"ushl", \h2e20, \h4400, \hbf20, \hfc00, <<"Vd", "Vn", "Vm">>, {}>>,
  <<"uqshl", \h2e20, \h4c00, \hbf20, \hfc00, <<"Vd", "Vn", "Vm">>, {}>>,
  <<"urshl", \h2e20, \h5400, \hbf20, \hfc00, <<"Vd", "Vn", "Vm">>, {}>>,
  <<"uqrshl", \h2e20, \h5c00, \hbf20, \hfc00, <<"Vd", "Vn", "Vm">>, {}>>,
  <<"umax", \h2e20, \h6400, \hbf20, \hfc00, <<"Vd", "Vn", "Vm">>, {}>>,
  <<"umin", \h2e20, \h6c00, \hbf20, \hfc00, <<"Vd", "Vn", "Vm">>, {}>>,
  <<"uabd", \h2e20, \h7400, \hbf20, \hfc00, <<"Vd", "Vn", "Vm">>, {}>>,
  <<"uaba", \h2e20, \h7c00, \hbf20, \hfc00, <<"Vd", "Vn", "Vm">>, {}>>,
  <<"sub", \h2e20, \h8400, \hbf20, \hfc00, <<"Vd", "Vn", "Vm">>, {}>>,
  <<"cmeq", \h2e20, \h8c00, \hbf20, \hfc00, <<"Vd", "Vn", "Vm">>, {}>>,
  <<"mls", \h2e20, \h9400, \hbf20, \hfc00, <<"Vd", "Vn", "Vm">>, {}>>,
  <<"pmul", \h2e20, \h9c00, \hbf20, \hfc00, <<"Vd", "Vn", "Vm">>, {}>>,
  <<"umaxp", \h2e20, \ha400, \hbf20, \hfc00, <<"Vd", "Vn", "Vm">>, {}>>>>)

AsimdsameRows5 == Rows("Asimdsame", <<
  <<"uminp", \h2e20, \hac00, \hbf20, \hfc00, <<"Vd", "Vn", "Vm">>, {}>>,
  <<"sqrdmulh", \h2e20, \hb400, \hbf20, \hfc00, <<"Vd", "Vn", "Vm">>, {}>>,
  <<"fmaxnmp", \h2e20, \hc400, \hbfa0, \hfc00, <<"Vd", "Vn", "Vm">>, {}>>,
  <<"fmaxnmp", \h2e40, \h0400, \hbfe0, \hfc00, <<"Vd", "Vn", "Vm">>, {}>>,
  <<"faddp", \h2e20, \hd400, \hbfa0, \hfc00, <<"Vd", "Vn", "Vm">>, {}>>,
  <<"faddp", \h2e40, \h1400, \hbfe0, \hfc00, <<"Vd", "Vn", "Vm">>, {}>>,
  <<"fmul", \h2e20, \hdc00, \hbfa0, \hfc00, <<"Vd", "Vn", "Vm">>, {}>>,
  <<"fmul", \h2e40, \h1c00, \hbfe0, \hfc00, <<"Vd", "Vn", "Vm">>, {}>>,
  <<"fcmge", \h2e20, \he400, \hbfa0, \hfc00, <<"Vd", "Vn", "Vm">>, {}>>,
  <<"fcmge", \h2e40, \h2400, \hbfe0, \hfc00, <<"Vd", "Vn", "Vm">>, {}>>,
  <<"facge", \h2e20, \hec00, \hbfa0, \hfc00, <<"Vd", "Vn", "Vm">>, {}>>,
  <<"facge", \h2e40, \h2c00, \hbfe0, \hfc00, <<"Vd", "Vn", "Vm">>, {}>>,
  <<"fmaxp", \h2e20, \hf400, \hbfa0, \hfc00, <<"Vd", "Vn", "Vm">>, {}>>,
  <<"fmaxp", \h2e40, \h3400, \hbfe0, \hfc00, <<"Vd", "Vn", "Vm">>, {}>>,
  <<"fdiv", \h2e20, \hfc00, \hbfa0, \hfc00, <<"Vd", "Vn", "Vm">>, {}>>,
  <<"fdiv", \h2e40, \h3c00, \hbfe0, \hfc00, <<"Vd", "Vn", "Vm">>, {}>>,
  <<"eor", \h2e20, \h1c00, \hbfe0, \hfc00, <<"Vd", "Vn", "Vm">>, {}>>,
  <<"bsl", \h2e60, \h1c00, \hbfe0, \hfc00, <<"Vd", "Vn", "Vm">>, {}>>>>)

AsimdsameRows6 == Rows("Asimdsame", <<
  <<"fminnmp", \h2ea0, \hc400, \hbfa0, \hfc00, <<"Vd", "Vn", "Vm">>, {}>>,
  <<"fminnmp", \h2ec0, \h0400, \hbfe0, \hfc00, <<"Vd", "Vn", "Vm">>, {}>>,
  <<"fabd", \h2ea0, \hd400, \hbfa0, \hfc00, <<"Vd", "Vn", "Vm">>, {}>>,
  <<"fabd", \h2ec0, \h1400, \hbfe0, \hfc00, <<"Vd", "Vn", "Vm">>, {}>>,
  <<"fcmgt", \h2ea0, \he400, \hbfa0, \hfc00, <<"Vd", "Vn", "Vm">>, {}>>,
  <<"fcmgt", \h2ec0, \h2400, \hbfe0, \hfc00, <<"Vd", "Vn", "Vm">>, {}>>,
  <<"facgt", \h2ea0, \hec00, \hbfa0, \hfc00, <<"Vd", "Vn", "Vm">>, {}>>,
  <<"facgt", \h2ec0, \h2c00, \hbfe0, \hfc00, <<"Vd", "Vn", "Vm">>, {}>>,
  <<"fminp", \h2ea0, \hf400, \hbfa0, \hfc00, <<"Vd", "Vn", "Vm">>, {}>>,
  <<"fminp", \h2ec0, \h3400, \hbfe0, \hfc00, <<"Vd", "Vn", "Vm">>, {}>>,
  <<"bit", \h2ea0, \h1c00, \hbfe0, \hfc00, <<"Vd", "Vn", "Vm">>, {}>>,
  <<"bif", \h2ee0, \h1c00, \hbfe0, \hfc00, <<"Vd", "Vn", "Vm">>, {}>>,
  <<"sqrdmlah", \h2e00, \h8400, \hbf20, \hfe00, <<"Vd", "Vn", "Vm">>, {}>>,
  <<"sqrdmlsh", \h2e00, \h8c00, \hbf20, \hfe00, <<"Vd", "Vn", "Vm">>, {}>>>>)

AsimdshfRows1 == Rows("Asimdshf", <<
  <<"sshr", \h0f00, \h0400, \hbf80, \hfc00, <<"Vd", "Vn", "ImmVlsr">>, {}>>,
  <<"ssra", \h0f00, \h1400, \hbf80, \hfc00, <<"Vd", "Vn", "ImmVlsr">>, {}>>,
  <<"srshr", \h0f00, \h2400, \hbf80, \hfc00, <<"Vd", "Vn", "ImmVlsr">>, {}>>,
  <<"srsra", \h0f00, \h3400, \hbf80, \hfc00, <<"Vd", "Vn", "ImmVlsr">>, {}>>,
  <<"shl", \h0f00, \h5400, \hbf80, \hfc00, <<"Vd", "Vn", "ImmVlsl">>, {}>>,
  <<"sqshl", \h0f00, \h7400, \hbf80, \hfc00, <<"Vd", "Vn", "ImmVlsl">>, {}>>,
  <<"shrn", \h0f00, \h8400, \hff80, \hfc00, <<"Vd", "Vn", "ImmVlsr">>, {}>>,
  <<"shrn2", \h4f00, \h8400, \hff80, \hfc00, <<"Vd", "Vn", "ImmVlsr">>, {}>>,
  <<"rshrn", \h0f00, \h8c00, \hff80, \hfc00, <<"Vd", "Vn", "ImmVlsr">>, {}>>,
  <<"rshrn2", \h4f00, \h8c00, \hff80, \hfc00, <<"Vd", "Vn", "ImmVlsr">>, {}>>,
  <<"sqshrn", \h0f00, \h9400, \hff80, \hfc00, <<"Vd", "Vn", "ImmVlsr">>, {}>>,
  <<"sqshrn2", \h4f00, \h9400, \hff80, \hfc00, <<"Vd", "Vn", "ImmVlsr">>, {}>>,
  <<"sqrshrn", \h0f00, \h9c00, \hff80, \hfc00, <<"Vd", "Vn", "ImmVlsr">>, {}>>,
  <<"sqrshrn2", \h4f00, \h9c00, \hff80, \hfc00, <<"Vd", "Vn", "ImmVlsr">>, {}>>,
  <<"sshll", \h0f00, \ha400, \hff80, \hfc00, <<"Vd", "Vn", "ImmVlsl">>, {}>>,
  <<"sxtl", \h0f00, \ha400, \hff87, \hfc00, <<"Vd", "Vn">>, {"ALIAS", "CONV"}>>,
  <<"sshll2", \h4f00, \ha400, \hff80, \hfc00, <<"Vd", "Vn", "ImmVlsl">>, {}>>,
  <<"sxtl2", \h4f00, \ha400, \hff87, \hfc00, <<"Vd", "Vn">>, {"ALIAS", "CONV"}>>>>)

AsimdshfRows2 == Rows("Asimdshf", <<
  <<"scvtf", \h0f00, \he400, \hbf80, \hfc00, <<"Vd", "Vn", "ImmVlsr">>, {}>>,
  <<"scvtf", \h0f10, \he400, \hbf80, \hfc00, <<"Vd", "Vn", "ImmVlsr">>, {}>>,
  <<"fcvtzs", \h0f00, \hfc00, \hbf80, \hfc00, <<"Vd", "Vn", "ImmVlsr">>, {}>>,
  <<"fcvtzs", \h0f10, \hfc00, \hbf80, \hfc00, <<"Vd", "Vn", "ImmVlsr">>, {}>>,
  <<"ushr", \h2f00, \h0400, \hbf80, \hfc00, <<"Vd", "Vn", "ImmVlsr">>, {}>>,
  <<"usra", \h2f00, \h1400, \hbf80, \hfc00, <<"Vd", "Vn", "ImmVlsr">>, {}>>,
  <<"urshr", \h2f00, \h2400, \hbf80, \hfc00, <<"Vd", "Vn", "ImmVlsr">>, {}>>,
  <<"ursra", \h2f00, \h3400, \hbf80, \hfc00, <<"Vd", "Vn", "ImmVlsr">>, {}>>,
  <<"sri", \h2f00, \h4400, \hbf80, \hfc00, <<"Vd", "Vn", "ImmVlsr">>, {}>>,
  <<"sli", \h2f00, \h5400, \hbf80, \hfc00, <<"Vd", "Vn", "ImmVlsl">>, {}>>,
  <<"sqshlu", \h2f00, \h6400, \hbf80, \hfc00, <<"Vd", "Vn", "ImmVlsl">>, {}>>,
  <<"uqshl", \h2f00, \h7400, \hbf80, \hfc00, <<"Vd", "Vn", "ImmVlsl">>, {}>>,
  <<"sqshrun", \h2f00, \h8400, \hff80, \hfc00, <<"Vd", "Vn", "ImmVlsr">>, {}>>,
  <<"sqshrun2", \h6f00, \h8400, \hff80, \hfc00, <<"Vd", "Vn", "ImmVlsr">>, {}>>,
  <<"sqrshrun", \h2f00, \h8c00, \hff80, \hfc00, <<"Vd", "Vn", "ImmVlsr">>, {}>>,
  <<"sqrshrun2", \h6f00, \h8c00, \hff80, \hfc00, <<"Vd", "Vn", "ImmVlsr">>, {}>>,
  <<"uqshrn", \h2f00, \h9400, \hff80, \hfc00, <<"Vd", "Vn", "ImmVlsr">>, {}>>,
  <<"uqshrn2", \h6f00, \h9400, \hff80, \hfc00, <<"Vd", "Vn", "ImmVlsr">>, {}>>>>)

AsimdshfRows3 == Rows("Asimdshf", <<
  <<"uqrshrn", \h2f00, \h9c00, \hff80, \hfc00, <<"Vd", "Vn", "ImmVlsr">>, {}>>,
  <<"uqrshrn2", \h6f00, \h9c00, \hff80, \hfc00, <<"Vd", "Vn", "ImmVlsr">>, {}>>,
  <<"ushll", \h2f00, \ha400, \hff80, \hfc00, <<"Vd", "Vn", "ImmVlsl">>, {}>>,
  <<"uxtl", \h2f00, \ha400, \hff87, \hfc00, <<"Vd", "Vn">>, {"ALIAS", "CONV"}>>,
  <<"ushll2", \h6f00, \ha400, \hff80, \hfc00, <<"Vd", "Vn", "ImmVlsl">>, {}>>,
  <<"uxtl2", \h6f00, \ha400, \hff87, \hfc00, <<"Vd", "Vn">>, {"ALIAS", "CONV"}>>,
  <<"ucvtf", \h2f00, \he400, \hbf80, \hfc00, <<"Vd", "Vn", "ImmVlsr">>, {}>>,
  <<"ucvtf", \h2f10, \he400, \hbf80, \hfc00, <<"Vd", "Vn", "ImmVlsr">>, {}>>,
  <<"fcvtzu", \h2f00, \hfc00, \hbf80, \hfc00, <<"Vd", "Vn", "ImmVlsr">>, {}>>,
  <<"fcvtzu", \h2f10, \hfc00, \hbf80, \hfc00, <<"Vd", "Vn", "ImmVlsr">>, {}>>>>)

AsimdtblRows == Rows("Asimdtbl", <<
  <<"tbl", \h0e00, \h0000, \hbfe0, \h9c00, <<"Vd", "Lvn", "Vm">>, {}>>,
  <<"tbx", \h0e00, \h1000, \hbfe0, \h9c00, <<"Vd", "Lvn", "Vm">>, {}>>>>)

AsisddiffRows == Rows("Asisddiff", <<
  <<"sqdmlal", \h5e20, \h9000, \hff20, \hfc00, <<"Sd", "Sn", "Sm">>, {}>>,
  <<"sqdmlsl", \h5e20, \hb000, \hff20, \hfc00, <<"Sd", "Sn", "Sm">>, {}>>,
  <<"sqdmull", \h5e20, \hd000, \hff20, \hfc00, <<"Sd", "Sn", "Sm">>, {}>>>>)

AsisdelemRows == Rows("Asisdelem", <<
  <<"sqdmlal", \h5f00, \h3000, \hff00, \hf400, <<"Sd", "Sn", "Em">>, {}>>,
  <<"sqdmlsl", \h5f00, \h7000, \hff00, \hf400, <<"Sd", "Sn", "Em">>, {}>>,
  <<"sqdmull", \h5f00, \hb000, \hff00, \hf400, <<"Sd", "Sn", "Em">>, {}>>,
  <<"sqdmulh", \h5f00, \hc000, \hff00, \hf400, <<"Sd", "Sn", "Em">>, {}>>,
  <<"sqrdmulh", \h5f00, \hd000, \hff00, \hf400, <<"Sd", "Sn", "Em">>, {}>>,
  <<"fmla", \h5f80, \h1000, \hff80, \hf400, <<"Sd", "Sn", "Em">>, {}>>,
  <<"fmla", \h5f00, \h1000, \hffc0, \hf400, <<"Sd", "Sn", "Em">>, {}>>,
  <<"fmls", \h5f80, \h5000, \hff80, \hf400, <<"Sd", "Sn", "Em">>, {}>>,
  <<"fmls", \h5f00, \h5000, \hffc0, \hf400, <<"Sd", "Sn", "Em">>, {}>>,
  <<"fmul", \h5f80, \h9000, \hff80, \hf400, <<"Sd", "Sn", "Em">>, {}>>,
  <<"fmul", \h5f00, \h9000, \hffc0, \hf400, <<"Sd", "Sn", "Em">>, {}>>,
  <<"fmulx", \h7f80, \h9000, \hff80, \hf400, <<"Sd", "Sn", "Em">>, {}>>,
  <<"fmulx", \h7f00, \h9000, \hffc0, \hf400, <<"Sd", "Sn", "Em">>, {}>>,
  <<"sqrdmlah", \h7f00, \hd000, \hff00, \hf400, <<"Sd", "Sn", "Em">>, {}>>,
  <<"sqrdmlsh", \h7f00, \hf000, \hff00, \hf400, <<"Sd", "Sn", "Em">>, {}>>>>)

AsisdlseRows == Rows("Asisdlse", <<
  <<"st4", \h0c00, \h0000, \hbfff, \h0000, <<"Lvt", "SimdAddrSimple">>, {}>>,
  <<"st1", \h0c00, \h0000, \hbfff, \h0000, <<"Lvt", "SimdAddrSimple">>, {}>>,
  <<"st2", \h0c00, \h0000, \hbfff, \h0000, <<"Lvt", "SimdAddrSimple">>, {}>>,
  <<"st3", \h0c00, \h0000, \hbfff, \h0000, <<"Lvt", "SimdAddrSimple">>, {}>>,
  <<"ld4", \h0c40, \h0000, \hbfff, \h0000, <<"Lvt", "SimdAddrSimple">>, {}>>,
  <<"ld1", \h0c40, \h0000, \hbfff, \h0000, <<"Lvt", "SimdAddrSimple">>, {}>>,
  <<"ld2", \h0c40, \h0000, \hbfff, \h0000, <<"Lvt", "SimdAddrSimple">>, {}>>,
  <<"ld3", \h0c40, \h0000, \hbfff, \h0000, <<"Lvt", "SimdAddrSimple">>, {}>>>>)

AsisdlsepRows == Rows("Asisdlsep", <<
  <<"st4", \h0c80, \h0000, \hbfe0, \h0000, <<"Lvt", "SimdAddrPost">>, {}>>,
  <<"st1", \h0c80, \h0000, \hbfe0, \h0000, <<"Lvt", "SimdAddrPost">>, {}>>,
  <<"st2", \h0c80, \h0000, \hbfe0, \h0000, <<"Lvt", "SimdAddrPost">>, {}>>,
  <<"st3", \h0c80, \h0000, \hbfe0, \h0000, <<"Lvt", "SimdAddrPost">>, {}>>,
  <<"ld4", \h0cc0, \h0000, \hbfe0, \h0000, <<"Lvt", "SimdAddrPost">>, {}>>,
  <<"ld1", \h0cc0, \h0000, \hbfe0, \h0000, <<"Lvt", "SimdAddrPost">>, {}>>,
  <<"ld2", \h0cc0, \h0000, \hbfe0, \h0000, <<"Lvt", "SimdAddrPost">>, {}>>,
  <<"ld3", \h0cc0, \h0000, \hbfe0, \h0000, <<"Lvt", "SimdAddrPost">>, {}>>>>)

AsisdlsoRows == Rows("Asisdlso", <<
  <<"st1", \h0d00, \h0000, \hbfff, \h2000, <<"Let", "SimdAddrSimple">>, {}>>,
  <<"st3", \h0d00, \h2000, \hbfff, \h2000, <<"Let", "SimdAddrSimple">>, {}>>,
  <<"st2", \h0d20, \h0000, \hbfff, \h2000, <<"Let", "SimdAddrSimple">>, {}>>,
  <<"st4", \h0d20, \h2000, \hbfff, \h2000, <<"Let", "SimdAddrSimple">>, {}>>,
  <<"ld1", \h0d40, \h0000, \hbfff, \h2000, <<"Let", "SimdAddrSimple">>, {}>>,
  <<"ld3", \h0d40, \h2000, \hbfff, \h2000, <<"Let", "SimdAddrSimple">>, {}>>,
  <<"ld1r", \h0d40, \hc000, \hbfff, \he000, <<"LvtAl", "SimdAddrSimple">>, {}>>,
  <<"ld3r", \h0d40, \he000, \hbfff, \he000, <<"LvtAl", "SimdAddrSimple">>, {}>>,
  <<"ld2", \h0d60, \h0000, \hbfff, \h2000, <<"Let", "SimdAddrSimple">>, {}>>,
  <<"ld4", \h0d60, \h2000, \hbfff, \h2000, <<"Let", "SimdAddrSimple">>, {}>>,
  <<"ld2r", \h0d60, \hc000, \hbfff, \he000, <<"LvtAl", "SimdAddrSimple">>, {}>>,
  <<"ld4r", \h0d60, \he000, \hbfff, \he000, <<"LvtAl", "SimdAddrSimple">>, {}>>>>)

AsisdlsopRows == Rows("Asisdlsop", <<
  <<"st1", \h0d80, \h0000, \hbfe0, \h2000, <<"Let", "SimdAddrPost">>, {}>>,
  <<"st3", \h0d80, \h2000, \hbfe0, \h2000, <<"Let", "SimdAddrPost">>, {}>>,
  <<"st2", \h0da0, \h0000, \hbfe0, \h2000, <<"Let", "SimdAddrPost">>, {}>>,
  <<"st4", \h0da0, \h2000, \hbfe0, \h2000, <<"Let", "SimdAddrPost">>, {}>>,
  <<"ld1", \h0dc0, \h0000, \hbfe0, \h2000, <<"Let", "SimdAddrPost">>, {}>>,
  <<"ld3", \h0dc0, \h2000, \hbfe0, \h2000, <<"Let", "SimdAddrPost">>, {}>>,
  <<"ld1r", \h0dc0, \hc000, \hbfe0, \he000, <<"LvtAl", "SimdAddrPost">>, {}>>,
  <<"ld3r", \h0dc0, \he000, \hbfe0, \he000, <<"LvtAl", "SimdAddrPost">>, {}>>,
  <<"ld2", \h0de0, \h0000, \hbfe0, \h2000, <<"Let", "SimdAddrPost">>, {}>>,
  <<"ld4", \h0de0, \h2000, \hbfe0, \h2000, <<"Let", "SimdAddrPost">>, {}>>,
  <<"ld2r", \h0de0, \hc000, \hbfe0, \he000, <<"LvtAl", "SimdAddrPost">>, {}>>,
  <<"ld4r", \h0de0, \he000, \hbfe0, \he000, <<"LvtAl", "SimdAddrPost">>, {}>>>>)

AsisdmiscRows1 == Rows("Asisdmisc", <<
  <<"suqadd", \h5e20, \h3800, \hff3f, \hfc00, <<"Sd", "Sn">>, {}>>,
  <<"sqabs", \h5e20, \h7800, \hff3f, \hfc00, <<"Sd", "Sn">>, {}>>,
  <<"cmgt", \h5e20, \h8800, \hff3f, \hfc00, <<"Sd", "Sn", "Imm0">>, {}>>,
  <<"cmeq", \h5e20, \h9800, \hff3f, \hfc00, <<"Sd", "Sn", "Imm0">>, {}>>,
  <<"cmlt", \h5e20, \ha800, \hff3f, \hfc00, <<"Sd", "Sn", "Imm0">>, {}>>,
  <<"abs", \h5e20, \hb800, \hff3f, \hfc00, <<"Sd", "Sn">>, {}>>,
  <<"sqxtn", \h5e21, \h4800, \hff3f, \hfc00, <<"Sd", "Sn">>, {}>>,
  <<"fcvtns", \h5e21, \ha800, \hffbf, \hfc00, <<"Sd", "Sn">>, {}>>,
  <<"fcvtns", \h5e79, \ha800, \hffff, \hfc00, <<"Sd", "Sn">>, {}>>,
  <<"fcvtms", \h5e21, \hb800, \hffbf, \hfc00, <<"Sd", "Sn">>, {}>>,
  <<"fcvtms", \h5e79, \hb800, \hffff, \hfc00, <<"Sd", "Sn">>, {}>>,
  <<"fcvtas", \h5e21, \hc800, \hffbf, \hfc00, <<"Sd", "Sn">>, {}>>,
  <<"fcvtas", \h5e79, \hc800, \hffff, \hfc00, <<"Sd", "Sn">>, {}>>,
  <<"scvtf", \h5e21, \hd800, \hffbf, \hfc00, <<"Sd", "Sn">>, {}>>,
  <<"scvtf", \h5e79, \hd800, \hffff, \hfc00, <<"Sd", "Sn">>, {}>>,
  <<"fcmgt", \h5ea0, \hc800, \hffbf, \hfc00, <<"Sd", "Sn", "Fpimm0">>, {}>>,
  <<"fcmgt", \h5ef8, \hc800, \hffff, \hfc00, <<"Sd", "Sn", "Fpimm0">>, {}>>,
  <<"fcmeq", \h5ea0, \hd800, \hffbf, \hfc00, <<"Sd", "Sn", "Fpimm0">>, {}>>>>)

AsisdmiscRows2 == Rows("Asisdmisc", <<
  <<"fcmeq", \h5ef8, \hd800, \hffff, \hfc00, <<"Sd", "Sn", "Fpimm0">>, {}>>,
  <<"fcmlt", \h5ea0, \he800, \hffbf, \hfc00, <<"Sd", "Sn", "Fpimm0">>, {}>>,
  <<"fcmlt", \h5ef8, \he800, \hffff, \hfc00, <<"Sd", "Sn", "Fpimm0">>, {}>>,
  <<"fcvtps", \h5ea1, \ha800, \hffbf, \hfc00, <<"Sd", "Sn">>, {}>>,
  <<"fcvtps", \h5ef9, \ha800, \hffff, \hfc00, <<"Sd", "Sn">>, {}>>,
  <<"fcvtzs", \h5ea1, \hb800, \hffbf, \hfc00, <<"Sd", "Sn">>, {}>>,
  <<"fcvtzs", \h5ef9, \hb800, \hffff, \hfc00, <<"Sd", "Sn">>, {}>>,
  <<"frecpe", \h5ea1, \hd800, \hffbf, \hfc00, <<"Sd", "Sn">>, {}>>,
  <<"frecpe", \h5ef9, \hd800, \hffff, \hfc00, <<"Sd", "Sn">>, {}>>,
  <<"frecpx", \h5ea1, \hf800, \hffbf, \hfc00, <<"Sd", "Sn">>, {}>>,
  <<"frecpx", \h5ef9, \hf800, \hffff, \hfc00, <<"Sd", "Sn">>, {}>>,
  <<"usqadd", \h7e20, \h3800, \hff3f, \hfc00, <<"Sd", "Sn">>, {}>>,
  <<"sqneg", \h7e20, \h7800, \hff3f, \hfc00, <<"Sd", "Sn">>, {}>>,
  <<"cmge", \h7e20, \h8800, \hff3f, \hfc00, <<"Sd", "Sn", "Imm0">>, {}>>,
  <<"cmle", \h7e20, \h9800, \hff3f, \hfc00, <<"Sd", "Sn", "Imm0">>, {}>>,
  <<"neg", \h7e20, \hb800, \hff3f, \hfc00, <<"Sd", "Sn">>, {}>>,
  <<"sqxtun", \h7e21, \h2800, \hff3f, \hfc00, <<"Sd", "Sn">>, {}>>,
  <<"uqxtn", \h7e21, \h4800, \hff3f, \hfc00, <<"Sd", "Sn">>, {}>>>>)

AsisdmiscRows3 == Rows("Asisdmisc", <<
  <<"fcvtxn", \h7e21, \h6800, \hffbf, \hfc00, <<"Sd", "Sn">>, {}>>,
  <<"fcvtnu", \h7e21, \ha800, \hffbf, \hfc00, <<"Sd", "Sn">>, {}>>,
  <<"fcvtnu", \h7e79, \ha800, \hffff, \hfc00, <<"Sd", "Sn">>, {}>>,
  <<"fcvtmu", \h7e21, \hb800, \hffbf, \hfc00, <<"Sd", "Sn">>, {}>>,
  <<"fcvtmu", \h7e79, \hb800, \hffff, \hfc00, <<"Sd", "Sn">>, {}>>,
  <<"fcvtau", \h7e21, \hc800, \hffbf, \hfc00, <<"Sd", "Sn">>, {}>>,
  <<"fcvtau", \h7e79, \hc800, \hffff, \hfc00, <<"Sd", "Sn">>, {}>>,
  <<"ucvtf", \h7e21, \hd800, \hffbf, \hfc00, <<"Sd", "Sn">>, {}>>,
  <<"ucvtf", \h7e79, \hd800, \hffff, \hfc00, <<"Sd", "Sn">>, {}>>,
  <<"fcmge", \h7ea0, \hc800, \hffbf, \hfc00, <<"Sd", "Sn", "Fpimm0">>, {}>>,
  <<"fcmge", \h7ef8, \hc800, \hffff, \hfc00, <<"Sd", "Sn", "Fpimm0">>, {}>>,
  <<"fcmle", \h7ea0, \hd800, \hffbf, \hfc00, <<"Sd", "Sn", "Fpimm0">>, {}>>,
  <<"fcmle", \h7ef8, \hd800, \hffff, \hfc00, <<"Sd", "Sn", "Fpimm0">>, {}>>,
  <<"fcvtpu", \h7ea1, \ha800, \hffbf, \hfc00, <<"Sd", "Sn">>, {}>>,
  <<"fcvtpu", \h7ef9, \ha800, \hffff, \hfc00, <<"Sd", "Sn">>, {}>>,
  <<"fcvtzu", \h7ea1, \hb800, \hffbf, \hfc00, <<"Sd", "Sn">>, {}>>,
  <<"fcvtzu", \h7ef9, \hb800, \hffff, \hfc00, <<"Sd", "Sn">>, {}>>,
  <<"frsqrte", \h7ea1, \hd800, \hffbf, \hfc00, <<"Sd", "Sn">>, {}>>>>)

AsisdmiscRows4 == Rows("Asisdmisc", <<
  <<"frsqrte", \h7ef9, \hd800, \hffff, \hfc00, <<"Sd", "Sn">>, {}>>>>)

AsisdoneRows == Rows("Asisdone", <<
  <<"dup", \h5e00, \h0400, \hffe0, \hfc00, <<"Sd", "En">>, {}>>,
  <<"mov", \h5e00, \h0400, \hffe0, \hfc00, <<"Sd", "En">>, {"ALIAS"}>>>>)

AsisdpairRows == Rows("Asisdpair", <<
  <<"addp", \h5e31, \hb800, \hff3f, \hfc00, <<"Sd", "Vn">>, {}>>,
  <<"fmaxnmp", \h7e30, \hc800, \hffbf, \hfc00, <<"Sd", "Vn">>, {}>>,
  <<"fmaxnmp", \h5e30, \hc800, \hffff, \hfc00, <<"Sd", "Vn">>, {}>>,
  <<"faddp", \h7e30, \hd800, \hffbf, \hfc00, <<"Sd", "Vn">>, {}>>,
  <<"faddp", \h5e30, \hd800, \hffff, \hfc00, <<"Sd", "Vn">>, {}>>,
  <<"fmaxp", \h7e30, \hf800, \hffbf, \hfc00, <<"Sd", "Vn">>, {}>>,
  <<"fmaxp", \h5e30, \hf800, \hffff, \hfc00, <<"Sd", "Vn">>, {}>>,
  <<"fminnmp", \h7eb0, \hc800, \hffbf, \hfc00, <<"Sd", "Vn">>, {}>>,
  <<"fminnmp", \h5eb0, \hc800, \hffff, \hfc00, <<"Sd", "Vn">>, {}>>,
  <<"fminp", \h7eb0, \hf800, \hffbf, \hfc00, <<"Sd", "Vn">>, {}>>,
  <<"fminp", \h5eb0, \hf800, \hffff, \hfc00, <<"Sd", "Vn">>, {}>>>>)

AsisdsameRows1 == Rows("Asisdsame", <<
  <<"sqadd", \h5e20, \h0c00, \hff20, \hfc00, <<"Sd", "Sn", "Sm">>, {}>>,
  <<"sqsub", \h5e20, \h2c00, \hff20, \hfc00, <<"Sd", "Sn", "Sm">>, {}>>,
  <<"sqshl", \h5e20, \h4c00, \hff20, \hfc00, <<"Sd", "Sn", "Sm">>, {}>>,
  <<"sqrshl", \h5e20, \h5c00, \hff20, \hfc00, <<"Sd", "Sn", "Sm">>, {}>>,
  <<"sqdmulh", \h5e20, \hb400, \hff20, \hfc00, <<"Sd", "Sn", "Sm">>, {}>>,
  <<"fmulx", \h5e20, \hdc00, \hffa0, \hfc00, <<"Sd", "Sn", "Sm">>, {}>>,
  <<"fmulx", \h5e40, \h1c00, \hffe0, \hfc00, <<"Sd", "Sn", "Sm">>, {}>>,
  <<"fcmeq", \h5e20, \he400, \hffa0, \hfc00, <<"Sd", "Sn", "Sm">>, {}>>,
  <<"fcmeq", \h5e40, \h2400, \hffe0, \hfc00, <<"Sd", "Sn", "Sm">>, {}>>,
  <<"frecps", \h5e20, \hfc00, \hffa0, \hfc00, <<"Sd", "Sn", "Sm">>, {}>>,
  <<"frecps", \h5e40, \h3c00, \hffe0, \hfc00, <<"Sd", "Sn", "Sm">>, {}>>,
  <<"frsqrts", \h5ea0, \hfc00, \hffa0, \hfc00, <<"Sd", "Sn", "Sm">>, {}>>,
  <<"frsqrts", \h5ec0, \h3c00, \hffe0, \hfc00, <<"Sd", "Sn", "Sm">>, {}>>,
  <<"cmgt", \h5ee0, \h3400, \hffe0, \hfc00, <<"Sd", "Sn", "Sm">>, {}>>,
  <<"cmge", \h5ee0, \h3c00, \hffe0, \hfc00, <<"Sd", "Sn", "Sm">>, {}>>,
  <<"sshl", \h5ee0, \h4400, \hffe0, \hfc00, <<"Sd", "Sn", "Sm">>, {}>>,
  <<"srshl", \h5ee0, \h5400, \hffe0, \hfc00, <<"Sd", "Sn", "Sm">>, {}>>,
  <<"add", \h5ee0, \h8400, \hffe0, \hfc00, <<"Sd", "Sn", "Sm">>, {}>>>>)

AsisdsameRows2 == Rows("Asisdsame", <<
  <<"cmtst", \h5ee0, \h8c00, \hffe0, \hfc00, <<"Sd", "Sn", "Sm">>, {}>>,
  <<"uqadd", \h7e20, \h0c00, \hff20, \hfc00, <<"Sd", "Sn", "Sm">>, {}>>,
  <<"uqsub", \h7e20, \h2c00, \hff20, \hfc00, <<"Sd", "Sn", "Sm">>, {}>>,
  <<"uqshl", \h7e20, \h4c00, \hff20, \hfc00, <<"Sd", "Sn", "Sm">>, {}>>,
  <<"uqrshl", \h7e20, \h5c00, \hff20, \hfc00, <<"Sd", "Sn", "Sm">>, {}>>,
  <<"sqrdmulh", \h7e20, \hb400, \hff20, \hfc00, <<"Sd", "Sn", "Sm">>, {}>>,
  <<"fcmge", \h7e20, \he400, \hffa0, \hfc00, <<"Sd", "Sn", "Sm">>, {}>>,
  <<"fcmge", \h7e40, \h2400, \hffe0, \hfc00, <<"Sd", "Sn", "Sm">>, {}>>,
  <<"facge", \h7e20, \hec00, \hffa0, \hfc00, <<"Sd", "Sn", "Sm">>, {}>>,
  <<"facge", \h7e40, \h2c00, \hffe0, \hfc00, <<"Sd", "Sn", "Sm">>, {}>>,
  <<"fabd", \h7ea0, \hd400, \hffa0, \hfc00, <<"Sd", "Sn", "Sm">>, {}>>,
  <<"fabd", \h7ec0, \h1400, \hffe0, \hfc00, <<"Sd", "Sn", "Sm">>, {}>>,
  <<"fcmgt", \h7ea0, \he400, \hffa0, \hfc00, <<"Sd", "Sn", "Sm">>, {}>>,
  <<"fcmgt", \h7ec0, \h2400, \hffe0, \hfc00, <<"Sd", "Sn", "Sm">>, {}>>,
  <<"facgt", \h7ea0, \hec00, \hffa0, \hfc00, <<"Sd", "Sn", "Sm">>, {}>>,
  <<"facgt", \h7ec0, \h2c00, \hffe0, \hfc00, <<"Sd", "Sn", "Sm">>, {}>>,
  <<"cmhi", \h7ee0, \h3400, \hffe0, \hfc00, <<"Sd", "Sn", "Sm">>, {}>>,
  <<"cmhs", \h7ee0, \h3c00, \hffe0, \hfc00, <<"Sd", "Sn", "Sm">>, {}>>>>)

AsisdsameRows3 == Rows("Asisdsame", <<
  <<"ushl", \h7ee0, \h4400, \hffe0, \hfc00, <<"Sd", "Sn", "Sm">>, {}>>,
  <<"urshl", \h7ee0, \h5400, \hffe0, \hfc00, <<"Sd", "Sn", "Sm">>, {}>>,
  <<"sub", \h7ee0, \h8400, \hffe0, \hfc00, <<"Sd", "Sn", "Sm">>, {}>>,
  <<"cmeq", \h7ee0, \h8c00, \hffe0, \hfc00, <<"Sd", "Sn", "Sm">>, {}>>>>)

AsimdsameRows7 == Rows("Asimdsame", <<
  <<"sqrdmlah", \h7e00, \h8400, \hff20, \hfc00, <<"Sd", "Sn", "Sm">>, {}>>,
  <<"sqrdmlsh", \h7e00, \h8c00, \hff20, \hfc00, <<"Sd", "Sn", "Sm">>, {}>>>>)

AsisdshfRows1 == Rows("Asisdshf", <<
  <<"sshr", \h5f00, \h0400, \hff80, \hfc00, <<"Sd", "Sn", "ImmVlsr">>, {}>>,
  <<"ssra", \h5f00, \h1400, \hff80, \hfc00, <<"Sd", "Sn", "ImmVlsr">>, {}>>,
  <<"srshr", \h5f00, \h2400, \hff80, \hfc00, <<"Sd", "Sn", "ImmVlsr">>, {}>>,
  <<"srsra", \h5f00, \h3400, \hff80, \hfc00, <<"Sd", "Sn", "ImmVlsr">>, {}>>,
  <<"shl", \h5f00, \h5400, \hff80, \hfc00, <<"Sd", "Sn", "ImmVlsl">>, {}>>,
  <<"sqshl", \h5f00, \h7400, \hff80, \hfc00, <<"Sd", "Sn", "ImmVlsl">>, {}>>,
  <<"sqshrn", \h5f00, \h9400, \hff80, \hfc00, <<"Sd", "Sn", "ImmVlsr">>, {}>>,
  <<"sqrshrn", \h5f00, \h9c00, \hff80, \hfc00, <<"Sd", "Sn", "ImmVlsr">>, {}>>,
  <<"scvtf", \h5f00, \he400, \hff80, \hfc00, <<"Sd", "Sn", "ImmVlsr">>, {}>>,
  <<"scvtf", \h5f10, \he400, \hff80, \hfc00, <<"Sd", "Sn", "ImmVlsr">>, {}>>,
  <<"fcvtzs", \h5f00, \hfc00, \hff80, \hfc00, <<"Sd", "Sn", "ImmVlsr">>, {}>>,
  <<"fcvtzs", \h5f10, \hfc00, \hff80, \hfc00, <<"Sd", "Sn", "ImmVlsr">>, {}>>,
  <<"ushr", \h7f00, \h0400, \hff80, \hfc00, <<"Sd", "Sn", "ImmVlsr">>, {}>>,
  <<"usra", \h7f00, \h1400, \hff80, \hfc00, <<"Sd", "Sn", "ImmVlsr">>, {}>>,
  <<"urshr", \h7f00, \h2400, \hff80, \hfc00, <<"Sd", "Sn", "ImmVlsr">>, {}>>,
  <<"ursra", \h7f00, \h3400, \hff80, \hfc00, <<"Sd", "Sn", "ImmVlsr">>, {}>>,
  <<"sri", \h7f00, \h4400, \hff80, \hfc00, <<"Sd", "Sn", "ImmVlsr">>, {}>>,
  <<"sli", \h7f00, \h5400, \hff80, \hfc00, <<"Sd", "Sn", "ImmVlsl">>, {}>>>>)

AsisdshfRows2 == Rows("Asisdshf", <<
  <<"sqshlu", \h7f00, \h6400, \hff80, \hfc00, <<"Sd", "Sn", "ImmVlsl">>, {}>>,
  <<"uqshl", \h7f00, \h7400, \hff80, \hfc00, <<"Sd", "Sn", "ImmVlsl">>, {}>>,
  <<"sqshrun", \h7f00, \h8400, \hff80, \hfc00, <<"Sd", "Sn", "ImmVlsr">>, {}>>,
  <<"sqrshrun", \h7f00, \h8c00, \hff80, \hfc00, <<"Sd", "Sn", "ImmVlsr">>, {}>>,
  <<"uqshrn", \h7f00, \h9400, \hff80, \hfc00, <<"Sd", "Sn", "ImmVlsr">>, {}>>,
  <<"uqrshrn", \h7f00, \h9c00, \hff80, \hfc00, <<"Sd", "Sn", "ImmVlsr">>, {}>>,
  <<"ucvtf", \h7f00, \he400, \hff80, \hfc00, <<"Sd", "Sn", "ImmVlsr">>, {}>>,
  <<"ucvtf", \h7f10, \he400, \hff80, \hfc00, <<"Sd", "Sn", "ImmVlsr">>, {}>>,
  <<"fcvtzu", \h7f00, \hfc00, \hff80, \hfc00, <<"Sd", "Sn", "ImmVlsr">>, {}>>,
  <<"fcvtzu", \h7f10, \hfc00, \hff80, \hfc00, <<"Sd", "Sn", "ImmVlsr">>, {}>>>>)

BitfieldRows == Rows("Bitfield", <<
  <<"sbfm", \h1300, \h0000, \h7f80, \h0000, <<"Rd", "Rn", "Immr", "Imms">>, {}>>,
  <<"sbfiz", \h1300, \h0000, \h7f80, \h0000, <<"Rd", "Rn", "Imm", "Width">>, {"ALIAS", "CONV"}>>,
  <<"sbfx", \h1300, \h0000, \h7f80, \h0000, <<"Rd", "Rn", "Imm", "Width">>, {"ALIAS", "CONV"}>>,
  <<"sxtb", \h1300, \h1c00, \h7fbf, \hfc00, <<"Rd", "Rn">>, {"ALIAS"}>>,
  <<"sxth", \h1300, \h3c00, \h7fbf, \hfc00, <<"Rd", "Rn">>, {"ALIAS"}>>,
  <<"sxtw", \h9340, \h7c00, \hffff, \hfc00, <<"Rd", "Rn">>, {"ALIAS"}>>,
  <<"asr", \h1300, \h0000, \h7f80, \h0000, <<"Rd", "Rn", "Imm">>, {"ALIAS", "CONV"}>>,
  <<"bfm", \h3300, \h0000, \h7f80, \h0000, <<"Rd", "Rn", "Immr", "Imms">>, {}>>,
  <<"bfi", \h3300, \h0000, \h7f80, \h0000, <<"Rd", "Rn", "Imm", "Width">>, {"ALIAS", "CONV"}>>,
  <<"bfc", \h3300, \h03e0, \h7f80, \h03e0, <<"Rd", "Imm", "Width">>, {"ALIAS", "CONV"}>>,
  <<"bfxil", \h3300, \h0000, \h7f80, \h0000, <<"Rd", "Rn", "Imm", "Width">>, {"ALIAS", "CONV"}>>,
  <<"ubfm", \h5300, \h0000, \h7f80, \h0000, <<"Rd", "Rn", "Immr", "Imms">>, {}>>,
  <<"ubfiz", \h5300, \h0000, \h7f80, \h0000, <<"Rd", "Rn", "Imm", "Width">>, {"ALIAS", "CONV"}>>,
  <<"ubfx", \h5300, \h0000, \h7f80, \h0000, <<"Rd", "Rn", "Imm", "Width">>, {"ALIAS", "CONV"}>>,
  <<"uxtb", \h5300, \h1c00, \hffff, \hfc00, <<"Rd", "Rn">>, {"ALIAS"}>>,
  <<"uxth", \h5300, \h3c00, \hffff, \hfc00, <<"Rd", "Rn">>, {"ALIAS"}>>,
  <<"lsl", \h5300, \h0000, \h7f80, \h0000, <<"Rd", "Rn", "Imm">>, {"ALIAS", "CONV"}>>,
  <<"lsr", \h5300, \h0000, \h7f80, \h0000, <<"Rd", "Rn", "Imm">>, {"ALIAS", "CONV"}>>>>)

BranchImmRows == Rows("BranchImm", <<
  <<"b", \h1400, \h0000, \hfc00, \h0000, <<"AddrPcrel26">>, {}>>,
  <<"bl", \h9400, \h0000, \hfc00, \h0000, <<"AddrPcrel26">>, {}>>>>)

BranchRegRows1 == Rows("BranchReg", <<
  <<"br", \hd61f, \h0000, \hffff, \hfc1f, <<"Rn">>, {}>>,
  <<"blr", \hd63f, \h0000, \hffff, \hfc1f, <<"Rn">>, {}>>,
  <<"ret", \hd65f, \h0000, \hffff, \hfc1f, <<"Rn">>, {}>>,
  <<"eret", \hd69f, \h03e0, \hffff, \hffff, <<>>, {}>>,
  <<"drps", \hd6bf, \h03e0, \hffff, \hffff, <<>>, {}>>>>)

BranchRegRows2 == Rows("BranchReg", <<
  <<"braaz", \hd61f, \h081f, \hffff, \hfc1f, <<"Rn">>, {}>>,
  <<"brabz", \hd61f, \h0c1f, \hffff, \hfc1f, <<"Rn">>, {}>>,
  <<"blraaz", \hd63f, \h081f, \hffff, \hfc1f, <<"Rn">>, {}>>,
  <<"blrabz", \hd63f, \h0c1f, \hffff, \hfc1f, <<"Rn">>, {}>>,
  <<"braa", \hd71f, \h0800, \hffe0, \hfc00, <<"Rn", "RmLow">>, {}>>,
  <<"brab", \hd71f, \h0c00, \hffe0, \hfc00, <<"Rn", "RmLow">>, {}>>,
  <<"blraa", \hd73f, \h0800, \hffe0, \hfc00, <<"Rn", "RmLow">>, {}>>,
  <<"blrab", \hd73f, \h0c00, \hffe0, \hfc00, <<"Rn", "RmLow">>, {}>>>>)

BranchRegRows3 == Rows("BranchReg", <<
  <<"retaa", \hd65f, \h0bff, \hffff, \hffff, <<>>, {}>>,
  <<"retab", \hd65f, \h0fff, \hffff, \hffff, <<>>, {}>>>>)

CompbranchRows == Rows("Compbranch", <<
  <<"cbz", \h3400, \h0000, \h7f00, \h0000, <<"Rt", "AddrPcrel19">>, {}>>,
  <<"cbnz", \h3500, \h0000, \h7f00, \h0000, <<"Rt", "AddrPcrel19">>, {}>>>>)

CondbranchRows1 == Rows("Condbranch", <<
  <<"b.c", \h5400, \h0000, \hff00, \h0010, <<"AddrPcrel19">>, {}>>>>)

CondcmpImmRows == Rows("CondcmpImm", <<
  <<"ccmn", \h3a40, \h0800, \h7fe0, \h0c10, <<"Rn", "CcmpImm", "Nzcv", "Cond">>, {}>>,
  <<"ccmp", \h7a40, \h0800, \h7fe0, \h0c10, <<"Rn", "CcmpImm", "Nzcv", "Cond">>, {}>>>>)

CondcmpRegRows == Rows("CondcmpReg", <<
  <<"ccmn", \h3a40, \h0000, \h7fe0, \h0c10, <<"Rn", "Rm", "Nzcv", "Cond">>, {}>>,
  <<"ccmp", \h7a40, \h0000, \h7fe0, \h0c10, <<"Rn", "Rm", "Nzcv", "Cond">>, {}>>>>)

CondselRows == Rows("Condsel", <<
  <<"csel", \h1a80, \h0000, \h7fe0, \h0c00, <<"Rd", "Rn", "Rm", "Cond">>, {}>>,
  <<"csinc", \h1a80, \h0400, \h7fe0, \h0c00, <<"Rd", "Rn", "Rm", "Cond">>, {}>>,
  <<"cinc", \h1a80, \h0400, \h7fe0, \h0c00, <<"Rd", "Rn", "Cond1">>, {"ALIAS", "CONV"}>>,
  <<"cset", \h1a9f, \h07e0, \h7fff, \h0fe0, <<"Rd", "Cond1">>, {"ALIAS", "CONV"}>>,
  <<"csinv", \h5a80, \h0000, \h7fe0, \h0c00, <<"Rd", "Rn", "Rm", "Cond">>, {}>>,
  <<"cinv", \h5a80, \h0000, \h7fe0, \h0c00, <<"Rd", "Rn", "Cond1">>, {"ALIAS", "CONV"}>>,
  <<"csetm", \h5a9f, \h03e0, \h7fff, \h0fe0, <<"Rd", "Cond1">>, {"ALIAS", "CONV"}>>,
  <<"csneg", \h5a80, \h0400, \h7fe0, \h0c00, <<"Rd", "Rn", "Rm", "Cond">>, {}>>,
  <<"cneg", \h5a80, \h0400, \h7fe0, \h0c00, <<"Rd", "Rn", "Cond1">>, {"ALIAS", "CONV"}>>>>)

CryptoaesRows == Rows("Cryptoaes", <<
  <<"aese", \h4e28, \h4800, \hffff, \hfc00, <<"Vd", "Vn">>, {}>>,
  <<"aesd", \h4e28, \h5800, \hffff, \hfc00, <<"Vd", "Vn">>, {}>>,
  <<"aesmc", \h4e28, \h6800, \hffff, \hfc00, <<"Vd", "Vn">>, {}>>,
  <<"aesimc", \h4e28, \h7800, \hffff, \hfc00, <<"Vd", "Vn">>, {}>>>>)

Cryptosha2Rows == Rows("Cryptosha2", <<
  <<"sha1h", \h5e28, \h0800, \hffff, \hfc00, <<"Fd", "Fn">>, {}>>,
  <<"sha1su1", \h5e28, \h1800, \hffff, \hfc00, <<"Vd", "Vn">>, {}>>,
  <<"sha256su0", \h5e28, \h2800, \hffff, \hfc00, <<"Vd", "Vn">>, {}>>>>)

Cryptosha3Rows == Rows("Cryptosha3", <<
  <<"sha1c", \h5e00, \h0000, \hffe0, \hfc00, <<"Fd", "Fn", "Vm">>, {}>>,
  <<"sha1p", \h5e00, \h1000, \hffe0, \hfc00, <<"Fd", "Fn", "Vm">>, {}>>,
  <<"sha1m", \h5e00, \h2000, \hffe0, \hfc00, <<"Fd", "Fn", "Vm">>, {}>>,
  <<"sha1su0", \h5e00, \h3000, \hffe0, \hfc00, <<"Vd", "Vn", "Vm">>, {}>>,
  <<"sha256h", \h5e00, \h4000, \hffe0, \hfc00, <<"Fd", "Fn", "Vm">>, {}>>,
  <<"sha256h2", \h5e00, \h5000, \hffe0, \hfc00, <<"Fd", "Fn", "Vm">>, {}>>,
  <<"sha256su1", \h5e00, \h6000, \hffe0, \hfc00, <<"Vd", "Vn", "Vm">>, {}>>>>)

Dp1srcRows1 == Rows("Dp1src", <<
  <<"rbit", \h5ac0, \h0000, \h7fff, \hfc00, <<"Rd", "Rn">>, {}>>,
  <<"rev16", \h5ac0, \h0400, \h7fff, \hfc00, <<"Rd", "Rn">>, {}>>,
  <<"rev", \h5ac0, \h0800, \hffff, \hfc00, <<"Rd", "Rn">>, {}>>,
  <<"rev", \hdac0, \h0c00, \hffff, \hfc00, <<"Rd", "Rn">>, {}>>,
  <<"rev64", \hdac0, \h0c00, \hffff, \hfc00, <<"Rd", "Rn">>, {"ALIAS"}>>,
  <<"clz", \h5ac0, \h1000, \h7fff, \hfc00, <<"Rd", "Rn">>, {}>>,
  <<"cls", \h5ac0, \h1400, \h7fff, \hfc00, <<"Rd", "Rn">>, {}>>,
  <<"rev32", \hdac0, \h0800, \hffff, \hfc00, <<"Rd", "Rn">>, {}>>>>)

Dp1srcRows2 == Rows("Dp1src", <<
  <<"pacia", \hdac1, \h0000, \hffff, \hfc00, <<"Rd", "Rn">>, {}>>,
  <<"pacib", \hdac1, \h0400, \hffff, \hfc00, <<"Rd", "Rn">>, {}>>,
  <<"pacda", \hdac1, \h0800, \hffff, \hfc00, <<"Rd", "Rn">>, {}>>,
  <<"pacdb", \hdac1, \h0c00, \hffff, \hfc00, <<"Rd", "Rn">>, {}>>,
  <<"autia", \hdac1, \h1000, \hffff, \hfc00, <<"Rd", "Rn">>, {}>>,
  <<"autib", \hdac1, \h1400, \hffff, \hfc00, <<"Rd", "Rn">>, {}>>,
  <<"autda", \hdac1, \h1800, \hffff, \hfc00, <<"Rd", "Rn">>, {}>>,
  <<"autdb", \hdac1, \h1c00, \hffff, \hfc00, <<"Rd", "Rn">>, {}>>>>)

Dp1srcRows3 == Rows("Dp1src", <<
  <<"paciza", \hdac1, \h23e0, \hffff, \hffe0, <<"Rd">>, {}>>,
  <<"pacizb", \hdac1, \h27e0, \hffff, \hffe0, <<"Rd">>, {}>>,
  <<"pacdza", \hdac1, \h2be0, \hffff, \hffe0, <<"Rd">>, {}>>,
  <<"pacdzb", \hdac1, \h2fe0, \hffff, \hffe0, <<"Rd">>, {}>>,
  <<"autiza", \hdac1, \h33e0, \hffff, \hffe0, <<"Rd">>, {}>>,
  <<"autizb", \hdac1, \h37e0, \hffff, \hffe0, <<"Rd">>, {}>>,
  <<"autdza", \hdac1, \h3be0, \hffff, \hffe0, <<"Rd">>, {}>>,
  <<"autdzb", \hdac1, \h3fe0, \hffff, \hffe0, <<"Rd">>, {}>>>>)

Dp1srcRows4 == Rows("Dp1src", <<
  <<"xpaci", \hdac1, \h43e0, \hffff, \hffe0, <<"Rd">>, {}>>,
  <<"xpacd", \hdac1, \h47e0, \hffff, \hffe0, <<"Rd">>, {}>>>>)

Dp2srcRows == Rows("Dp2src", <<
  <<"udiv", \h1ac0, \h0800, \h7fe0, \hfc00, <<"Rd", "Rn", "Rm">>, {}>>,
  <<"sdiv", \h1ac0, \h0c00, \h7fe0, \hfc00, <<"Rd", "Rn", "Rm">>, {}>>,
  <<"lslv", \h1ac0, \h2000, \h7fe0, \hfc00, <<"Rd", "Rn", "Rm">>, {}>>,
  <<"lsl", \h1ac0, \h2000, \h7fe0, \hfc00, <<"Rd", "Rn", "Rm">>, {"ALIAS"}>>,
  <<"lsrv", \h1ac0, \h2400, \h7fe0, \hfc00, <<"Rd", "Rn", "Rm">>, {}>>,
  <<"lsr", \h1ac0, \h2400, \h7fe0, \hfc00, <<"Rd", "Rn", "Rm">>, {"ALIAS"}>>,
  <<"asrv", \h1ac0, \h2800, \h7fe0, \hfc00, <<"Rd", "Rn", "Rm">>, {}>>,
  <<"asr", \h1ac0, \h2800, \h7fe0, \hfc00, <<"Rd", "Rn", "Rm">>, {"ALIAS"}>>,
  <<"rorv", \h1ac0, \h2c00, \h7fe0, \hfc00, <<"Rd", "Rn", "Rm">>, {}>>,
  <<"ror", \h1ac0, \h2c00, \h7fe0, \hfc00, <<"Rd", "Rn", "Rm">>, {"ALIAS"}>>,
  <<"crc32b", \h1ac0, \h4000, \hffe0, \hfc00, <<"Rd", "Rn", "Rm">>, {}>>,
  <<"crc32h", \h1ac0, \h4400, \hffe0, \hfc00, <<"Rd", "Rn", "Rm">>, {}>>,
  <<"crc32w", \h1ac0, \h4800, \hffe0, \hfc00, <<"Rd", "Rn", "Rm">>, {}>>,
  <<"crc32x", \h9ac0, \h4c00, \hffe0, \hfc00, <<"Rd", "Rn", "Rm">>, {}>>,
  <<"crc32cb", \h1ac0, \h5000, \hffe0, \hfc00, <<"Rd", "Rn", "Rm">>, {}>>,
  <<"crc32ch", \h1ac0, \h5400, \hffe0, \hfc00, <<"Rd", "Rn", "Rm">>, {}>>,
  <<"crc32cw", \h1ac0, \h5800, \hffe0, \hfc00, <<"Rd", "Rn", "Rm">>, {}>>,
  <<"crc32cx", \h9ac0, \h5c00, \hffe0, \hfc00, <<"Rd", "Rn", "Rm">>, {}>>>>)

Dp3srcRows == Rows("Dp3src", <<
  <<"madd", \h1b00, \h0000, \h7fe0, \h8000, <<"Rd", "Rn", "Rm", "Ra">>, {}>>,
  <<"mul", \h1b00, \h7c00, \h7fe0, \hfc00, <<"Rd", "Rn", "Rm">>, {"ALIAS"}>>,
  <<"msub", \h1b00, \h8000, \h7fe0, \h8000, <<"Rd", "Rn", "Rm", "Ra">>, {}>>,
  <<"mneg", \h1b00, \hfc00, \h7fe0, \hfc00, <<"Rd", "Rn", "Rm">>, {"ALIAS"}>>,
  <<"smaddl", \h9b20, \h0000, \hffe0, \h8000, <<"Rd", "Rn", "Rm", "Ra">>, {}>>,
  <<"smull", \h9b20, \h7c00, \hffe0, \hfc00, <<"Rd", "Rn", "Rm">>, {"ALIAS"}>>,
  <<"smsubl", \h9b20, \h8000, \hffe0, \h8000, <<"Rd", "Rn", "Rm", "Ra">>, {}>>,
  <<"smnegl", \h9b20, \hfc00, \hffe0, \hfc00, <<"Rd", "Rn", "Rm">>, {"ALIAS"}>>,
  <<"smulh", \h9b40, \h7c00, \hffe0, \h8000, <<"Rd", "Rn", "Rm">>, {}>>,
  <<"umaddl", \h9ba0, \h0000, \hffe0, \h8000, <<"Rd", "Rn", "Rm", "Ra">>, {}>>,
  <<"umull", \h9ba0, \h7c00, \hffe0, \hfc00, <<"Rd", "Rn", "Rm">>, {"ALIAS"}>>,
  <<"umsubl", \h9ba0, \h8000, \hffe0, \h8000, <<"Rd", "Rn", "Rm", "Ra">>, {}>>,
  <<"umnegl", \h9ba0, \hfc00, \hffe0, \hfc00, <<"Rd", "Rn", "Rm">>, {"ALIAS"}>>,
  <<"umulh", \h9bc0, \h7c00, \hffe0, \h8000, <<"Rd", "Rn", "Rm">>, {}>>>>)

ExceptionRows == Rows("Exception", <<
  <<"svc", \hd400, \h0001, \hffe0, \h001f, <<"Exc">>, {}>>,
  <<"hvc", \hd400, \h0002, \hffe0, \h001f, <<"Exc">>, {}>>,
  <<"smc", \hd400, \h0003, \hffe0, \h001f, <<"Exc">>, {}>>,
  <<"brk", \hd420, \h0000, \hffe0, \h001f, <<"Exc">>, {}>>,
  <<"hlt", \hd440, \h0000, \hffe0, \h001f, <<"Exc">>, {}>>,
  <<"dcps1", \hd4a0, \h0001, \hffe0, \h001f, <<"Exc">>, {}>>,
  <<"dcps2", \hd4a0, \h0002, \hffe0, \h001f, <<"Exc">>, {}>>,
  <<"dcps3", \hd4a0, \h0003, \hffe0, \h001f, <<"Exc">>, {}>>>>)

ExtractRows == Rows("Extract", <<
  <<"extr", \h1380, \h0000, \h7fa0, \h0000, <<"Rd", "Rn", "Rm", "Imms">>, {}>>,
  <<"ror", \h1380, \h0000, \h7fa0, \h0000, <<"Rd", "Rm", "Imms">>, {"ALIAS", "CONV"}>>>>)

Float2fixRows == Rows("Float2fix", <<
  <<"scvtf", \h1e02, \h0000, \h7f3f, \h0000, <<"Fd", "Rn", "Fbits">>, {}>>,
  <<"scvtf", \h1ec2, \h0000, \h7f3f, \h0000, <<"Fd", "Rn", "Fbits">>, {}>>,
  <<"ucvtf", \h1e03, \h0000, \h7f3f, \h0000, <<"Fd", "Rn", "Fbits">>, {}>>,
  <<"ucvtf", \h1ec3, \h0000, \h7f3f, \h0000, <<"Fd", "Rn", "Fbits">>, {}>>,
  <<"fcvtzs", \h1e18, \h0000, \h7f3f, \h0000, <<"Rd", "Fn", "Fbits">>, {}>>,
  <<"fcvtzs", \h1ed8, \h0000, \h7f3f, \h0000, <<"Rd", "Fn", "Fbits">>, {}>>,
  <<"fcvtzu", \h1e19, \h0000, \h7f3f, \h0000, <<"Rd", "Fn", "Fbits">>, {}>>,
  <<"fcvtzu", \h1ed9, \h0000, \h7f3f, \h0000, <<"Rd", "Fn", "Fbits">>, {}>>>>)

Float2intRows1 == Rows("Float2int", <<
  <<"fcvtns", \h1e20, \h0000, \h7f3f, \hfc00, <<"Rd", "Fn">>, {}>>,
  <<"fcvtns", \h1ee0, \h0000, \h7f3f, \hfc00, <<"Rd", "Fn">>, {}>>,
  <<"fcvtnu", \h1e21, \h0000, \h7f3f, \hfc00, <<"Rd", "Fn">>, {}>>,
  <<"fcvtnu", \h1ee1, \h0000, \h7f3f, \hfc00, <<"Rd", "Fn">>, {}>>,
  <<"scvtf", \h1e22, \h0000, \h7f3f, \hfc00, <<"Fd", "Rn">>, {}>>,
  <<"scvtf", \h1ee2, \h0000, \h7f3f, \hfc00, <<"Fd", "Rn">>, {}>>,
  <<"ucvtf", \h1e23, \h0000, \h7f3f, \hfc00, <<"Fd", "Rn">>, {}>>,
  <<"ucvtf", \h1ee3, \h0000, \h7f3f, \hfc00, <<"Fd", "Rn">>, {}>>,
  <<"fcvtas", \h1e24, \h0000, \h7f3f, \hfc00, <<"Rd", "Fn">>, {}>>,
  <<"fcvtas", \h1ee4, \h0000, \h7f3f, \hfc00, <<"Rd", "Fn">>, {}>>,
  <<"fcvtau", \h1e25, \h0000, \h7f3f, \hfc00, <<"Rd", "Fn">>, {}>>,
  <<"fcvtau", \h1ee5, \h0000, \h7f3f, \hfc00, <<"Rd", "Fn">>, {}>>,
  <<"fmov", \h1e26, \h0000, \h7f3f, \hfc00, <<"Rd", "Fn">>, {}>>,
  <<"fmov", \h1ee6, \h0000, \h7f3f, \hfc00, <<"Rd", "Fn">>, {}>>,
  <<"fmov", \h1e27, \h0000, \h7f3f, \hfc00, <<"Fd", "Rn">>, {}>>,
  <<"fmov", \h1ee7, \h0000, \h7f3f, \hfc00, <<"Fd", "Rn">>, {}>>,
  <<"fcvtps", \h1e28, \h0000, \h7f3f, \hfc00, <<"Rd", "Fn">>, {}>>,
  <<"fcvtps", \h1ee8, \h0000, \h7f3f, \hfc00, <<"Rd", "Fn">>, {}>>>>)

Float2intRows2 == Rows("Float2int", <<
  <<"fcvtpu", \h1e29, \h0000, \h7f3f, \hfc00, <<"Rd", "Fn">>, {}>>,
  <<"fcvtpu", \h1ee9, \h0000, \h7f3f, \hfc00, <<"Rd", "Fn">>, {}>>,
  <<"fcvtms", \h1e30, \h0000, \h7f3f, \hfc00, <<"Rd", "Fn">>, {}>>,
  <<"fcvtms", \h1ef0, \h0000, \h7f3f, \hfc00, <<"Rd", "Fn">>, {}>>,
  <<"fcvtmu", \h1e31, \h0000, \h7f3f, \hfc00, <<"Rd", "Fn">>, {}>>,
  <<"fcvtmu", \h1ef1, \h0000, \h7f3f, \hfc00, <<"Rd", "Fn">>, {}>>,
  <<"fcvtzs", \h1e38, \h0000, \h7f3f, \hfc00, <<"Rd", "Fn">>, {}>>,
  <<"fcvtzs", \h1ef8, \h0000, \h7f3f, \hfc00, <<"Rd", "Fn">>, {}>>,
  <<"fcvtzu", \h1e39, \h0000, \h7f3f, \hfc00, <<"Rd", "Fn">>, {}>>,
  <<"fcvtzu", \h1ef9, \h0000, \h7f3f, \hfc00, <<"Rd", "Fn">>, {}>>,
  <<"fmov", \h9eae, \h0000, \hffff, \hfc00, <<"Rd", "VnD1">>, {}>>,
  <<"fmov", \h9eaf, \h0000, \hffff, \hfc00, <<"VdD1", "Rn">>, {}>>>>)

FloatccmpRows == Rows("Floatccmp", <<
  <<"fccmp", \h1e20, \h0400, \hff20, \h0c10, <<"Fn", "Fm", "Nzcv", "Cond">>, {}>>,
  <<"fccmp", \h1ee0, \h0400, \hff20, \h0c10, <<"Fn", "Fm", "Nzcv", "Cond">>, {}>>,
  <<"fccmpe", \h1e20, \h0410, \hff20, \h0c10, <<"Fn", "Fm", "Nzcv", "Cond">>, {}>>,
  <<"fccmpe", \h1ee0, \h0410, \hff20, \h0c10, <<"Fn", "Fm", "Nzcv", "Cond">>, {}>>>>)

FloatcmpRows == Rows("Floatcmp", <<
  <<"fcmp", \h1e20, \h2000, \hff20, \hfc1f, <<"Fn", "Fm">>, {}>>,
  <<"fcmp", \h1ee0, \h2000, \hff20, \hfc1f, <<"Fn", "Fm">>, {}>>,
  <<"fcmpe", \h1e20, \h2010, \hff20, \hfc1f, <<"Fn", "Fm">>, {}>>,
  <<"fcmpe", \h1ee0, \h2010, \hff20, \hfc1f, <<"Fn", "Fm">>, {}>>,
  <<"fcmp", \h1e20, \h2008, \hff20, \hfc1f, <<"Fn", "Fpimm0">>, {}>>,
  <<"fcmp", \h1ee0, \h2008, \hff20, \hfc1f, <<"Fn", "Fpimm0">>, {}>>,
  <<"fcmpe", \h1e20, \h2018, \hff20, \hfc1f, <<"Fn", "Fpimm0">>, {}>>,
  <<"fcmpe", \h1ee0, \h2018, \hff20, \hfc1f, <<"Fn", "Fpimm0">>, {}>>>>)

Floatdp1Rows1 == Rows("Floatdp1", <<
  <<"fmov", \h1e20, \h4000, \hff3f, \hfc00, <<"Fd", "Fn">>, {}>>,
  <<"fmov", \h1ee0, \h4000, \hff3f, \hfc00, <<"Fd", "Fn">>, {}>>,
  <<"fabs", \h1e20, \hc000, \hff3f, \hfc00, <<"Fd", "Fn">>, {}>>,
  <<"fabs", \h1ee0, \hc000, \hff3f, \hfc00, <<"Fd", "Fn">>, {}>>,
  <<"fneg", \h1e21, \h4000, \hff3f, \hfc00, <<"Fd", "Fn">>, {}>>,
  <<"fneg", \h1ee1, \h4000, \hff3f, \hfc00, <<"Fd", "Fn">>, {}>>,
  <<"fsqrt", \h1e21, \hc000, \hff3f, \hfc00, <<"Fd", "Fn">>, {}>>,
  <<"fsqrt", \h1ee1, \hc000, \hff3f, \hfc00, <<"Fd", "Fn">>, {}>>,
  <<"fcvt", \h1e22, \h4000, \hff3e, \h7c00, <<"Fd", "Fn">>, {}>>,
  <<"frintn", \h1e24, \h4000, \hff3f, \hfc00, <<"Fd", "Fn">>, {}>>,
  <<"frintn", \h1ee4, \h4000, \hff3f, \hfc00, <<"Fd", "Fn">>, {}>>,
  <<"frintp", \h1e24, \hc000, \hff3f, \hfc00, <<"Fd", "Fn">>, {}>>,
  <<"frintp", \h1ee4, \hc000, \hff3f, \hfc00, <<"Fd", "Fn">>, {}>>,
  <<"frintm", \h1e25, \h4000, \hff3f, \hfc00, <<"Fd", "Fn">>, {}>>,
  <<"frintm", \h1ee5, \h4000, \hff3f, \hfc00, <<"Fd", "Fn">>, {}>>,
  <<"frintz", \h1e25, \hc000, \hff3f, \hfc00, <<"Fd", "Fn">>, {}>>,
  <<"frintz", \h1ee5, \hc000, \hff3f, \hfc00, <<"Fd", "Fn">>, {}>>,
  <<"frinta", \h1e26, \h4000, \hff3f, \hfc00, <<"Fd", "Fn">>, {}>>>>)

Floatdp1Rows2 == Rows("Floatdp1", <<
  <<"frinta", \h1ee6, \h4000, \hff3f, \hfc00, <<"Fd", "Fn">>, {}>>,
  <<"frintx", \h1e27, \h4000, \hff3f, \hfc00, <<"Fd", "Fn">>, {}>>,
  <<"frintx", \h1ee7, \h4000, \hff3f, \hfc00, <<"Fd", "Fn">>, {}>>,
  <<"frinti", \h1e27, \hc000, \hff3f, \hfc00, <<"Fd", "Fn">>, {}>>,
  <<"frinti", \h1ee7, \hc000, \hff3f, \hfc00, <<"Fd", "Fn">>, {}>>>>)

Floatdp2Rows == Rows("Floatdp2", <<
  <<"fmul", \h1e20, \h0800, \hff20, \hfc00, <<"Fd", "Fn", "Fm">>, {}>>,
  <<"fmul", \h1ee0, \h0800, \hff20, \hfc00, <<"Fd", "Fn", "Fm">>, {}>>,
  <<"fdiv", \h1e20, \h1800, \hff20, \hfc00, <<"Fd", "Fn", "Fm">>, {}>>,
  <<"fdiv", \h1ee0, \h1800, \hff20, \hfc00, <<"Fd", "Fn", "Fm">>, {}>>,
  <<"fadd", \h1e20, \h2800, \hff20, \hfc00, <<"Fd", "Fn", "Fm">>, {}>>,
  <<"fadd", \h1ee0, \h2800, \hff20, \hfc00, <<"Fd", "Fn", "Fm">>, {}>>,
  <<"fsub", \h1e20, \h3800, \hff20, \hfc00, <<"Fd", "Fn", "Fm">>, {}>>,
  <<"fsub", \h1ee0, \h3800, \hff20, \hfc00, <<"Fd", "Fn", "Fm">>, {}>>,
  <<"fmax", \h1e20, \h4800, \hff20, \hfc00, <<"Fd", "Fn", "Fm">>, {}>>,
  <<"fmax", \h1ee0, \h4800, \hff20, \hfc00, <<"Fd", "Fn", "Fm">>, {}>>,
  <<"fmin", \h1e20, \h5800, \hff20, \hfc00, <<"Fd", "Fn", "Fm">>, {}>>,
  <<"fmin", \h1ee0, \h5800, \hff20, \hfc00, <<"Fd", "Fn", "Fm">>, {}>>,
  <<"fmaxnm", \h1e20, \h6800, \hff20, \hfc00, <<"Fd", "Fn", "Fm">>, {}>>,
  <<"fmaxnm", \h1ee0, \h6800, \hff20, \hfc00, <<"Fd", "Fn", "Fm">>, {}>>,
  <<"fminnm", \h1e20, \h7800, \hff20, \hfc00, <<"Fd", "Fn", "Fm">>, {}>>,
  <<"fminnm", \h1ee0, \h7800, \hff20, \hfc00, <<"Fd", "Fn", "Fm">>, {}>>,
  <<"fnmul", \h1e20, \h8800, \hff20, \hfc00, <<"Fd", "Fn", "Fm">>, {}>>,
  <<"fnmul", \h1ee0, \h8800, \hff20, \hfc00, <<"Fd", "Fn", "Fm">>, {}>>>>)

Floatdp3Rows == Rows("Floatdp3", <<
  <<"fmadd", \h1f00, \h0000, \hff20, \h8000, <<"Fd", "Fn", "Fm", "Fa">>, {}>>,
  <<"fmadd", \h1fc0, \h0000, \hff20, \h8000, <<"Fd", "Fn", "Fm", "Fa">>, {}>>,
  <<"fmsub", \h1f00, \h8000, \hff20, \h8000, <<"Fd", "Fn", "Fm", "Fa">>, {}>>,
  <<"fmsub", \h1fc0, \h8000, \hff20, \h8000, <<"Fd", "Fn", "Fm", "Fa">>, {}>>,
  <<"fnmadd", \h1f20, \h0000, \hff20, \h8000, <<"Fd", "Fn", "Fm", "Fa">>, {}>>,
  <<"fnmadd", \h1fe0, \h0000, \hff20, \h8000, <<"Fd", "Fn", "Fm", "Fa">>, {}>>,
  <<"fnmsub", \h1f20, \h8000, \hff20, \h8000, <<"Fd", "Fn", "Fm", "Fa">>, {}>>,
  <<"fnmsub", \h1fe0, \h8000, \hff20, \h8000, <<"Fd", "Fn", "Fm", "Fa">>, {}>>>>)

FloatimmRows == Rows("Floatimm", <<
  <<"fmov", \h1e20, \h1000, \hff20, \h1fe0, <<"Fd", "Fpimm">>, {}>>,
  <<"fmov", \h1ee0, \h1000, \hff20, \h1fe0, <<"Fd", "Fpimm">>, {}>>>>)

FloatselRows == Rows("Floatsel", <<
  <<"fcsel", \h1e20, \h0c00, \hff20, \h0c00, <<"Fd", "Fn", "Fm", "Cond">>, {}>>,
  <<"fcsel", \h1ee0, \h0c00, \hff20, \h0c00, <<"Fd", "Fn", "Fm", "Cond">>, {}>>>>)

LdstImm9Rows == Rows("LdstImm9", <<
  <<"strb", \h3800, \h0400, \hffe0, \h0400, <<"Rt", "AddrSimm9">>, {}>>,
  <<"ldrb", \h3840, \h0400, \hffe0, \h0400, <<"Rt", "AddrSimm9">>, {}>>,
  <<"ldrsb", \h3880, \h0400, \hffa0, \h0400, <<"Rt", "AddrSimm9">>, {}>>,
  <<"str", \h3c00, \h0400, \h3f60, \h0400, <<"Ft", "AddrSimm9">>, {}>>,
  <<"ldr", \h3c40, \h0400, \h3f60, \h0400, <<"Ft", "AddrSimm9">>, {}>>,
  <<"strh", \h7800, \h0400, \hffe0, \h0400, <<"Rt", "AddrSimm9">>, {}>>,
  <<"ldrh", \h7840, \h0400, \hffe0, \h0400, <<"Rt", "AddrSimm9">>, {}>>,
  <<"ldrsh", \h7880, \h0400, \hffa0, \h0400, <<"Rt", "AddrSimm9">>, {}>>,
  <<"str", \hb800, \h0400, \hbfe0, \h0400, <<"Rt", "AddrSimm9">>, {}>>,
  <<"ldr", \hb840, \h0400, \hbfe0, \h0400, <<"Rt", "AddrSimm9">>, {}>>,
  <<"ldrsw", \hb880, \h0400, \hffe0, \h0400, <<"Rt", "AddrSimm9">>, {}>>>>)

LdstPosRows == Rows("LdstPos", <<
  <<"strb", \h3900, \h0000, \hffc0, \h0000, <<"Rt", "AddrUimm12">>, {}>>,
  <<"ldrb", \h3940, \h0000, \hffc0, \h0000, <<"Rt", "AddrUimm12">>, {}>>,
  <<"ldrsb", \h3980, \h0000, \hff80, \h0000, <<"Rt", "AddrUimm12">>, {}>>,
  <<"str", \h3d00, \h0000, \h3f40, \h0000, <<"Ft", "AddrUimm12">>, {}>>,
  <<"ldr", \h3d40, \h0000, \h3f40, \h0000, <<"Ft", "AddrUimm12">>, {}>>,
  <<"strh", \h7900, \h0000, \hffc0, \h0000, <<"Rt", "AddrUimm12">>, {}>>,
  <<"ldrh", \h7940, \h0000, \hffc0, \h0000, <<"Rt", "AddrUimm12">>, {}>>,
  <<"ldrsh", \h7980, \h0000, \hff80, \h0000, <<"Rt", "AddrUimm12">>, {}>>,
  <<"str", \hb900, \h0000, \hbfc0, \h0000, <<"Rt", "AddrUimm12">>, {}>>,
  <<"ldr", \hb940, \h0000, \hbfc0, \h0000, <<"Rt", "AddrUimm12">>, {}>>,
  <<"ldrsw", \hb980, \h0000, \hffc0, \h0000, <<"Rt", "AddrUimm12">>, {}>>,
  <<"prfm", \hf980, \h0000, \hffc0, \h0000, <<"Prfop", "AddrUimm12">>, {}>>>>)

LdstRegoffRows == Rows("LdstRegoff", <<
  <<"strb", \h3820, \h0800, \hffe0, \h0c00, <<"Rt", "AddrRegoff">>, {}>>,
  <<"ldrb", \h3860, \h0800, \hffe0, \h0c00, <<"Rt", "AddrRegoff">>, {}>>,
  <<"ldrsb", \h38a0, \h0800, \hffa0, \h0c00, <<"Rt", "AddrRegoff">>, {}>>,
  <<"str", \h3c20, \h0800, \h3f60, \h0c00, <<"Ft", "AddrRegoff">>, {}>>,
  <<"ldr", \h3c60, \h0800, \h3f60, \h0c00, <<"Ft", "AddrRegoff">>, {}>>,
  <<"strh", \h7820, \h0800, \hffe0, \h0c00, <<"Rt", "AddrRegoff">>, {}>>,
  <<"ldrh", \h7860, \h0800, \hffe0, \h0c00, <<"Rt", "AddrRegoff">>, {}>>,
  <<"ldrsh", \h78a0, \h0800, \hffa0, \h0c00, <<"Rt", "AddrRegoff">>, {}>>,
  <<"str", \hb820, \h0800, \hbfe0, \h0c00, <<"Rt", "AddrRegoff">>, {}>>,
  <<"ldr", \hb860, \h0800, \hbfe0, \h0c00, <<"Rt", "AddrRegoff">>, {}>>,
  <<"ldrsw", \hb8a0, \h0800, \hffe0, \h0c00, <<"Rt", "AddrRegoff">>, {}>>,
  <<"prfm", \hf8a0, \h0800, \hffe0, \h0c00, <<"Prfop", "AddrRegoff">>, {}>>>>)

LdstUnprivRows == Rows("LdstUnpriv", <<
  <<"sttrb", \h3800, \h0800, \hffe0, \h0c00, <<"Rt", "AddrSimm9">>, {}>>,
  <<"ldtrb", \h3840, \h0800, \hffe0, \h0c00, <<"Rt", "AddrSimm9">>, {}>>,
  <<"ldtrsb", \h3880, \h0800, \hffa0, \h0c00, <<"Rt", "AddrSimm9">>, {}>>,
  <<"sttrh", \h7800, \h0800, \hffe0, \h0c00, <<"Rt", "AddrSimm9">>, {}>>,
  <<"ldtrh", \h7840, \h0800, \hffe0, \h0c00, <<"Rt", "AddrSimm9">>, {}>>,
  <<"ldtrsh", \h7880, \h0800, \hffa0, \h0c00, <<"Rt", "AddrSimm9">>, {}>>,
  <<"sttr", \hb800, \h0800, \hbfe0, \h0c00, <<"Rt", "AddrSimm9">>, {}>>,
  <<"ldtr", \hb840, \h0800, \hbfe0, \h0c00, <<"Rt", "AddrSimm9">>, {}>>,
  <<"ldtrsw", \hb880, \h0800, \hffe0, \h0c00, <<"Rt", "AddrSimm9">>, {}>>>>)

LdstUnscaledRows1 == Rows("LdstUnscaled", <<
  <<"sturb", \h3800, \h0000, \hffe0, \h0c00, <<"Rt", "AddrSimm9">>, {}>>,
  <<"ldurb", \h3840, \h0000, \hffe0, \h0c00, <<"Rt", "AddrSimm9">>, {}>>,
  <<"ldursb", \h3880, \h0000, \hffa0, \h0c00, <<"Rt", "AddrSimm9">>, {}>>,
  <<"stur", \h3c00, \h0000, \h3f60, \h0c00, <<"Ft", "AddrSimm9">>, {}>>,
  <<"ldur", \h3c40, \h0000, \h3f60, \h0c00, <<"Ft", "AddrSimm9">>, {}>>,
  <<"sturh", \h7800, \h0000, \hffe0, \h0c00, <<"Rt", "AddrSimm9">>, {}>>,
  <<"ldurh", \h7840, \h0000, \hffe0, \h0c00, <<"Rt", "AddrSimm9">>, {}>>,
  <<"ldursh", \h7880, \h0000, \hffa0, \h0c00, <<"Rt", "AddrSimm9">>, {}>>,
  <<"stur", \hb800, \h0000, \hbfe0, \h0c00, <<"Rt", "AddrSimm9">>, {}>>,
  <<"ldur", \hb840, \h0000, \hbfe0, \h0c00, <<"Rt", "AddrSimm9">>, {}>>,
  <<"ldursw", \hb880, \h0000, \hffe0, \h0c00, <<"Rt", "AddrSimm9">>, {}>>,
  <<"prfum", \hf880, \h0000, \hffe0, \h0c00, <<"Prfop", "AddrSimm9">>, {}>>>>)

LdstexclRows1 == Rows("Ldstexcl", <<
  <<"stxrb", \h0800, \h7c00, \hffe0, \h8000, <<"Rs", "Rt", "AddrSimple">>, {}>>,
  <<"stlxrb", \h0800, \hfc00, \hffe0, \h8000, <<"Rs", "Rt", "AddrSimple">>, {}>>,
  <<"ldxrb", \h085f, \h7c00, \hffe0, \h8000, <<"Rt", "AddrSimple">>, {}>>,
  <<"ldaxrb", \h085f, \hfc00, \hffe0, \h8000, <<"Rt", "AddrSimple">>, {}>>,
  <<"stlrb", \h089f, \hfc00, \hffe0, \h8000, <<"Rt", "AddrSimple">>, {}>>,
  <<"ldarb", \h08df, \hfc00, \hffef, \hfc00, <<"Rt", "AddrSimple">>, {}>>,
  <<"stxrh", \h4800, \h7c00, \hffe0, \h8000, <<"Rs", "Rt", "AddrSimple">>, {}>>,
  <<"stlxrh", \h4800, \hfc00, \hffe0, \h8000, <<"Rs", "Rt", "AddrSimple">>, {}>>,
  <<"ldxrh", \h485f, \h7c00, \hffe0, \h8000, <<"Rt", "AddrSimple">>, {}>>,
  <<"ldaxrh", \h485f, \hfc00, \hffe0, \h8000, <<"Rt", "AddrSimple">>, {}>>,
  <<"stlrh", \h489f, \hfc00, \hffe0, \h8000, <<"Rt", "AddrSimple">>, {}>>,
  <<"ldarh", \h48df, \hfc00, \hffef, \hfc00, <<"Rt", "AddrSimple">>, {}>>,
  <<"stxr", \h8800, \h7c00, \hbfe0, \h8000, <<"Rs", "Rt", "AddrSimple">>, {}>>,
  <<"stlxr", \h8800, \hfc00, \hbfe0, \h8000, <<"Rs", "Rt", "AddrSimple">>, {}>>,
  <<"stxp", \h8820, \h0000, \hbfe0, \h8000, <<"Rs", "Rt", "Rt2", "AddrSimple">>, {}>>,
  <<"stlxp", \h8820, \h8000, \hbfe0, \h8000, <<"Rs", "Rt", "Rt2", "AddrSimple">>, {}>>,
  <<"ldxr", \h885f, \h7c00, \hbfe0, \h8000, <<"Rt", "AddrSimple">>, {}>>,
  <<"ldaxr", \h885f, \hfc00, \hbfe0, \h8000, <<"Rt", "AddrSimple">>, {}>>>>)

LdstexclRows2 == Rows("Ldstexcl", <<
  <<"ldxp", \h887f, \h0000, \hbfe0, \h8000, <<"Rt", "Rt2", "AddrSimple">>, {}>>,
  <<"ldaxp", \h887f, \h8000, \hbfe0, \h8000, <<"Rt", "Rt2", "AddrSimple">>, {}>>,
  <<"stlr", \h889f, \hfc00, \hbfe0, \h8000, <<"Rt", "AddrSimple">>, {}>>,
  <<"ldar", \h88df, \hfc00, \hbfef, \hfc00, <<"Rt", "AddrSimple">>, {}>>,
  <<"ldlar", \h88df, \h7c00, \hbfe0, \h8000, <<"Rt", "AddrSimple">>, {}>>,
  <<"ldlarb", \h08df, \h7c00, \hffe0, \h8000, <<"Rt", "AddrSimple">>, {}>>,
  <<"ldlarh", \h48df, \h7c00, \hffe0, \h8000, <<"Rt", "AddrSimple">>, {}>>,
  <<"stllr", \h889f, \h7c00, \hbfe0, \h8000, <<"Rt", "AddrSimple">>, {}>>,
  <<"stllrb", \h089f, \h7c00, \hffe0, \h8000, <<"Rt", "AddrSimple">>, {}>>,
  <<"stllrh", \h489f, \h7c00, \hbfe0, \h8000, <<"Rt", "AddrSimple">>, {}>>>>)

LdstnapairOffsRows == Rows("LdstnapairOffs", <<
  <<"stnp", \h2800, \h0000, \h7fc0, \h0000, <<"Rt", "Rt2", "AddrSimm7">>, {}>>,
  <<"ldnp", \h2840, \h0000, \h7fc0, \h0000, <<"Rt", "Rt2", "AddrSimm7">>, {}>>,
  <<"stnp", \h2c00, \h0000, \h3fc0, \h0000, <<"Ft", "Ft2", "AddrSimm7">>, {}>>,
  <<"ldnp", \h2c40, \h0000, \h3fc0, \h0000, <<"Ft", "Ft2", "AddrSimm7">>, {}>>>>)

LdstpairOffRows == Rows("LdstpairOff", <<
  <<"stp", \h2900, \h0000, \h7ec0, \h0000, <<"Rt", "Rt2", "AddrSimm7">>, {}>>,
  <<"ldp", \h2940, \h0000, \h7ec0, \h0000, <<"Rt", "Rt2", "AddrSimm7">>, {}>>,
  <<"stp", \h2d00, \h0000, \h3fc0, \h0000, <<"Ft", "Ft2", "AddrSimm7">>, {}>>,
  <<"ldp", \h2d40, \h0000, \h3fc0, \h0000, <<"Ft", "Ft2", "AddrSimm7">>, {}>>,
  <<"ldpsw", \h6940, \h0000, \hffc0, \h0000, <<"Rt", "Rt2", "AddrSimm7">>, {}>>>>)

LdstpairIndexedRows == Rows("LdstpairIndexed", <<
  <<"stp", \h2880, \h0000, \h7ec0, \h0000, <<"Rt", "Rt2", "AddrSimm7">>, {}>>,
  <<"ldp", \h28c0, \h0000, \h7ec0, \h0000, <<"Rt", "Rt2", "AddrSimm7">>, {}>>,
  <<"stp", \h2c80, \h0000, \h3ec0, \h0000, <<"Ft", "Ft2", "AddrSimm7">>, {}>>,
  <<"ldp", \h2cc0, \h0000, \h3ec0, \h0000, <<"Ft", "Ft2", "AddrSimm7">>, {}>>,
  <<"ldpsw", \h68c0, \h0000, \hfec0, \h0000, <<"Rt", "Rt2", "AddrSimm7">>, {}>>>>)

LoadlitRows == Rows("Loadlit", <<
  <<"ldr", \h1800, \h0000, \hbf00, \h0000, <<"Rt", "AddrPcrel19">>, {}>>,
  <<"ldr", \h1c00, \h0000, \h3f00, \h0000, <<"Ft", "AddrPcrel19">>, {}>>,
  <<"ldrsw", \h9800, \h0000, \hff00, \h0000, <<"Rt", "AddrPcrel19">>, {}>>,
  <<"prfm", \hd800, \h0000, \hff00, \h0000, <<"Prfop", "AddrPcrel19">>, {}>>>>)

LogImmRows == Rows("LogImm", <<
  <<"and", \h1200, \h0000, \h7f80, \h0000, <<"RdSp", "Rn", "Limm">>, {}>>,
  <<"bic", \h1200, \h0000, \h7f80, \h0000, <<"RdSp", "Rn", "Limm">>, {"ALIAS"}>>,
  <<"orr", \h3200, \h0000, \h7f80, \h0000, <<"RdSp", "Rn", "Limm">>, {}>>,
  <<"mov", \h3200, \h03e0, \h7f80, \h03e0, <<"RdSp", "ImmMov">>, {"ALIAS", "CONV"}>>,
  <<"eor", \h5200, \h0000, \h7f80, \h0000, <<"RdSp", "Rn", "Limm">>, {}>>,
  <<"ands", \h7200, \h0000, \h7f80, \h0000, <<"Rd", "Rn", "Limm">>, {}>>,
  <<"tst", \h7200, \h001f, \h7f80, \h001f, <<"Rn", "Limm">>, {"ALIAS"}>>>>)

LogShiftRows == Rows("LogShift", <<
  <<"and", \h0a00, \h0000, \h7f20, \h0000, <<"Rd", "Rn", "RmSft">>, {}>>,
  <<"bic", \h0a20, \h0000, \h7f20, \h0000, <<"Rd", "Rn", "RmSft">>, {}>>,
  <<"orr", \h2a00, \h0000, \h7f20, \h0000, <<"Rd", "Rn", "RmSft">>, {}>>,
  <<"mov", \h2a00, \h03e0, \h7f20, \h03e0, <<"Rd", "Rm">>, {"ALIAS"}>>,
  <<"uxtw", \h2a00, \h03e0, \h7f20, \h03e0, <<"Rd", "Rm">>, {"ALIAS"}>>,
  <<"orn", \h2a20, \h0000, \h7f20, \h0000, <<"Rd", "Rn", "RmSft">>, {}>>,
  <<"mvn", \h2a20, \h03e0, \h7f20, \h03e0, <<"Rd", "RmSft">>, {"ALIAS"}>>,
  <<"eor", \h4a00, \h0000, \h7f20, \h0000, <<"Rd", "Rn", "RmSft">>, {}>>,
  <<"eon", \h4a20, \h0000, \h7f20, \h0000, <<"Rd", "Rn", "RmSft">>, {}>>,
  <<"ands", \h6a00, \h0000, \h7f20, \h0000, <<"Rd", "Rn", "RmSft">>, {}>>,
  <<"tst", \h6a00, \h001f, \h7f20, \h001f, <<"Rn", "RmSft">>, {"ALIAS"}>>,
  <<"bics", \h6a20, \h0000, \h7f20, \h0000, <<"Rd", "Rn", "RmSft">>, {}>>>>)

LseAtomicRows1 == Rows("LseAtomic", <<
  <<"casb", \h08a0, \h7c00, \hffe0, \hfc00, <<"Rs", "Rt", "AddrSimple">>, {}>>,
  <<"cash", \h48a0, \h7c00, \hffe0, \hfc00, <<"Rs", "Rt", "AddrSimple">>, {}>>,
  <<"cas", \h88a0, \h7c00, \hbfe0, \hfc00, <<"Rs", "Rt", "AddrSimple">>, {}>>,
  <<"casab", \h08e0, \h7c00, \hffe0, \hfc00, <<"Rs", "Rt", "AddrSimple">>, {}>>,
  <<"caslb", \h08a0, \hfc00, \hffe0, \hfc00, <<"Rs", "Rt", "AddrSimple">>, {}>>,
  <<"casalb", \h08e0, \hfc00, \hffe0, \hfc00, <<"Rs", "Rt", "AddrSimple">>, {}>>,
  <<"casah", \h48e0, \h7c00, \hffe0, \hfc00, <<"Rs", "Rt", "AddrSimple">>, {}>>,
  <<"caslh", \h48a0, \hfc00, \hffe0, \hfc00, <<"Rs", "Rt", "AddrSimple">>, {}>>,
  <<"casalh", \h48e0, \hfc00, \hffe0, \hfc00, <<"Rs", "Rt", "AddrSimple">>, {}>>,
  <<"casa", \h88e0, \h7c00, \hbfe0, \hfc00, <<"Rs", "Rt", "AddrSimple">>, {}>>,
  <<"casl", \h88a0, \hfc00, \hbfe0, \hfc00, <<"Rs", "Rt", "AddrSimple">>, {}>>,
  <<"casal", \h88e0, \hfc00, \hbfe0, \hfc00, <<"Rs", "Rt", "AddrSimple">>, {}>>,
  <<"casp", \h0820, \h7c00, \hbfe0, \hfc00, <<"Rs", "Pairreg", "Rt", "Pairreg", "AddrSimple">>, {}>>,
  <<"caspa", \h0860, \h7c00, \hbfe0, \hfc00, <<"Rs", "Pairreg", "Rt", "Pairreg", "AddrSimple">>, {}>>,
  <<"caspl", \h0820, \hfc00, \hbfe0, \hfc00, <<"Rs", "Pairreg", "Rt", "Pairreg", "AddrSimple">>, {}>>,
  <<"caspal", \h0860, \hfc00, \hbfe0, \hfc00, <<"Rs", "Pairreg", "Rt", "Pairreg", "AddrSimple">>, {}>>,
  <<"swpb", \h3820, \h8000, \hffe0, \hfc00, <<"Rs", "Rt", "AddrSimple">>, {}>>,
  <<"swph", \h7820, \h8000, \hffe0, \hfc00, <<"Rs", "Rt", "AddrSimple">>, {}>>>>)

LseAtomicRows2 == Rows("LseAtomic", <<
  <<"swp", \hb820, \h8000, \hbfe0, \hfc00, <<"Rs", "Rt", "AddrSimple">>, {}>>,
  <<"swpab", \h38a0, \h8000, \hffe0, \hfc00, <<"Rs", "Rt", "AddrSimple">>, {}>>,
  <<"swplb", \h3860, \h8000, \hffe0, \hfc00, <<"Rs", "Rt", "AddrSimple">>, {}>>,
  <<"swpalb", \h38e0, \h8000, \hffe0, \hfc00, <<"Rs", "Rt", "AddrSimple">>, {}>>,
  <<"swpah", \h78a0, \h8000, \hffe0, \hfc00, <<"Rs", "Rt", "AddrSimple">>, {}>>,
  <<"swplh", \h7860, \h8000, \hffe0, \hfc00, <<"Rs", "Rt", "AddrSimple">>, {}>>,
  <<"swpalh", \h78e0, \h8000, \hffe0, \hfc00, <<"Rs", "Rt", "AddrSimple">>, {}>>,
  <<"swpa", \hb8a0, \h8000, \hbfe0, \hfc00, <<"Rs", "Rt", "AddrSimple">>, {}>>,
  <<"swpl", \hb860, \h8000, \hbfe0, \hfc00, <<"Rs", "Rt", "AddrSimple">>, {}>>,
  <<"swpal", \hb8e0, \h8000, \hbfe0, \hfc00, <<"Rs", "Rt", "AddrSimple">>, {}>>>>)

LseAtomicRows3 == Rows("LseAtomic", <<
  <<"ldapr", \hb8bf, \hc000, \hbfff, \hfc00, <<"Rt", "AddrSimple">>, {}>>,
  <<"ldaprb", \h38bf, \hc000, \hffff, \hfc00, <<"Rt", "AddrSimple">>, {}>>,
  <<"ldaprh", \h78bf, \hc000, \hffff, \hfc00, <<"Rt", "AddrSimple">>, {}>>>>)

LdstUnscaledRows2 == Rows("LdstUnscaled", <<
  <<"stlurb", \h1900, \h0000, \hffe0, \h0c00, <<"Rt", "AddrSimm9">>, {}>>,
  <<"ldapurb", \h1940, \h0000, \hffe0, \h0c00, <<"Rt", "AddrSimm9">>, {}>>,
  <<"ldapursb", \h1980, \h0000, \hffe0, \h0c00, <<"Rt", "AddrSimm9">>, {}>>,
  <<"stlurh", \h5900, \h0000, \hffe0, \h0c00, <<"Rt", "AddrSimm9">>, {}>>,
  <<"ldapurh", \h5940, \h0000, \hffe0, \h0c00, <<"Rt", "AddrSimm9">>, {}>>,
  <<"ldapursh", \h5980, \h0000, \hffe0, \h0c00, <<"Rt", "AddrSimm9">>, {}>>,
  <<"stlur", \h9900, \h0000, \hffe0, \h0c00, <<"Rt", "AddrSimm9">>, {}>>,
  <<"ldapur", \h9940, \h0000, \hffe0, \h0c00, <<"Rt", "AddrSimm9">>, {}>>,
  <<"ldapursw", \h9980, \h0000, \hffe0, \h0c00, <<"Rt", "AddrSimm9">>, {}>>,
  <<"stlur", \hd900, \h0000, \hffe0, \h0c00, <<"Rt", "AddrSimm9">>, {}>>,
  <<"ldapur", \hd940, \h0000, \hffe0, \h0c00, <<"Rt", "AddrSimm9">>, {}>>>>)

LseAtomicRows4 == Rows("LseAtomic", <<
  <<"ldaddb", \h3820, \h0000, \hffe0, \hfc00, <<"Rs", "Rt", "AddrSimple">>, {}>>,
  <<"ldaddh", \h7820, \h0000, \hffe0, \hfc00, <<"Rs", "Rt", "AddrSimple">>, {}>>,
  <<"ldadd", \hb820, \h0000, \hbfe0, \hfc00, <<"Rs", "Rt", "AddrSimple">>, {}>>,
  <<"ldaddab", \h38a0, \h0000, \hffe0, \hfc00, <<"Rs", "Rt", "AddrSimple">>, {}>>,
  <<"ldaddlb", \h3860, \h0000, \hffe0, \hfc00, <<"Rs", "Rt", "AddrSimple">>, {}>>,
  <<"ldaddalb", \h38e0, \h0000, \hffe0, \hfc00, <<"Rs", "Rt", "AddrSimple">>, {}>>,
  <<"ldaddah", \h78a0, \h0000, \hffe0, \hfc00, <<"Rs", "Rt", "AddrSimple">>, {}>>,
  <<"ldaddlh", \h7860, \h0000, \hffe0, \hfc00, <<"Rs", "Rt", "AddrSimple">>, {}>>,
  <<"ldaddalh", \h78e0, \h0000, \hffe0, \hfc00, <<"Rs", "Rt", "AddrSimple">>, {}>>,
  <<"ldadda", \hb8a0, \h0000, \hbfe0, \hfc00, <<"Rs", "Rt", "AddrSimple">>, {}>>,
  <<"ldaddl", \hb860, \h0000, \hbfe0, \hfc00, <<"Rs", "Rt", "AddrSimple">>, {}>>,
  <<"ldaddal", \hb8e0, \h0000, \hbfe0, \hfc00, <<"Rs", "Rt", "AddrSimple">>, {}>>,
  <<"ldclrb", \h3820, \h1000, \hffe0, \hfc00, <<"Rs", "Rt", "AddrSimple">>, {}>>,
  <<"ldclrh", \h7820, \h1000, \hffe0, \hfc00, <<"Rs", "Rt", "AddrSimple">>, {}>>,
  <<"ldclr", \hb820, \h1000, \hbfe0, \hfc00, <<"Rs", "Rt", "AddrSimple">>, {}>>,
  <<"ldclrab", \h38a0, \h1000, \hffe0, \hfc00, <<"Rs", "Rt", "AddrSimple">>, {}>>,
  <<"ldclrlb", \h3860, \h1000, \hffe0, \hfc00, <<"Rs", "Rt", "AddrSimple">>, {}>>,
  <<"ldclralb", \h38e0, \h1000, \hffe0, \hfc00, <<"Rs", "Rt", "AddrSimple">>, {}>>>>)

LseAtomicRows5 == Rows("LseAtomic", <<
  <<"ldclrah", \h78a0, \h1000, \hffe0, \hfc00, <<"Rs", "Rt", "AddrSimple">>, {}>>,
  <<"ldclrlh", \h7860, \h1000, \hffe0, \hfc00, <<"Rs", "Rt", "AddrSimple">>, {}>>,
  <<"ldclralh", \h78e0, \h1000, \hffe0, \hfc00, <<"Rs", "Rt", "AddrSimple">>, {}>>,
  <<"ldclra", \hb8a0, \h1000, \hbfe0, \hfc00, <<"Rs", "Rt", "AddrSimple">>, {}>>,
  <<"ldclrl", \hb860, \h1000, \hbfe0, \hfc00, <<"Rs", "Rt", "AddrSimple">>, {}>>,
  <<"ldclral", \hb8e0, \h1000, \hbfe0, \hfc00, <<"Rs", "Rt", "AddrSimple">>, {}>>,
  <<"ldeorb", \h3820, \h2000, \hffe0, \hfc00, <<"Rs", "Rt", "AddrSimple">>, {}>>,
  <<"ldeorh", \h7820, \h2000, \hffe0, \hfc00, <<"Rs", "Rt", "AddrSimple">>, {}>>,
  <<"ldeor", \hb820, \h2000, \hbfe0, \hfc00, <<"Rs", "Rt", "AddrSimple">>, {}>>,
  <<"ldeorab", \h38a0, \h2000, \hffe0, \hfc00, <<"Rs", "Rt", "AddrSimple">>, {}>>,
  <<"ldeorlb", \h3860, \h2000, \hffe0, \hfc00, <<"Rs", "Rt", "AddrSimple">>, {}>>,
  <<"ldeoralb", \h38e0, \h2000, \hffe0, \hfc00, <<"Rs", "Rt", "AddrSimple">>, {}>>,
  <<"ldeorah", \h78a0, \h2000, \hffe0, \hfc00, <<"Rs", "Rt", "AddrSimple">>, {}>>,
  <<"ldeorlh", \h7860, \h2000, \hffe0, \hfc00, <<"Rs", "Rt", "AddrSimple">>, {}>>,
  <<"ldeoralh", \h78e0, \h2000, \hffe0, \hfc00, <<"Rs", "Rt", "AddrSimple">>, {}>>,
  <<"ldeora", \hb8a0, \h2000, \hbfe0, \hfc00, <<"Rs", "Rt", "AddrSimple">>, {}>>,
  <<"ldeorl", \hb860, \h2000, \hbfe0, \hfc00, <<"Rs", "Rt", "AddrSimple">>, {}>>,
  <<"ldeoral", \hb8e0, \h2000, \hbfe0, \hfc00, <<"Rs", "Rt", "AddrSimple">>, {}>>>>)

LseAtomicRows6 == Rows("LseAtomic", <<
  <<"ldsetb", \h3820, \h3000, \hffe0, \hfc00, <<"Rs", "Rt", "AddrSimple">>, {}>>,
  <<"ldseth", \h7820, \h3000, \hffe0, \hfc00, <<"Rs", "Rt", "AddrSimple">>, {}>>,
  <<"ldset", \hb820, \h3000, \hbfe0, \hfc00, <<"Rs", "Rt", "AddrSimple">>, {}>>,
  <<"ldsetab", \h38a0, \h3000, \hffe0, \hfc00, <<"Rs", "Rt", "AddrSimple">>, {}>>,
  <<"ldsetlb", \h3860, \h3000, \hffe0, \hfc00, <<"Rs", "Rt", "AddrSimple">>, {}>>,
  <<"ldsetalb", \h38e0, \h3000, \hffe0, \hfc00, <<"Rs", "Rt", "AddrSimple">>, {}>>,
  <<"ldsetah", \h78a0, \h3000, \hffe0, \hfc00, <<"Rs", "Rt", "AddrSimple">>, {}>>,
  <<"ldsetlh", \h7860, \h3000, \hffe0, \hfc00, <<"Rs", "Rt", "AddrSimple">>, {}>>,
  <<"ldsetalh", \h78e0, \h3000, \hffe0, \hfc00, <<"Rs", "Rt", "AddrSimple">>, {}>>,
  <<"ldseta", \hb8a0, \h3000, \hbfe0, \hfc00, <<"Rs", "Rt", "AddrSimple">>, {}>>,
  <<"ldsetl", \hb860, \h3000, \hbfe0, \hfc00, <<"Rs", "Rt", "AddrSimple">>, {}>>,
  <<"ldsetal", \hb8e0, \h3000, \hbfe0, \hfc00, <<"Rs", "Rt", "AddrSimple">>, {}>>,
  <<"ldsmaxb", \h3820, \h4000, \hffe0, \hfc00, <<"Rs", "Rt", "AddrSimple">>, {}>>,
  <<"ldsmaxh", \h7820, \h4000, \hffe0, \hfc00, <<"Rs", "Rt", "AddrSimple">>, {}>>,
  <<"ldsmax", \hb820, \h4000, \hbfe0, \hfc00, <<"Rs", "Rt", "AddrSimple">>, {}>>,
  <<"ldsmaxab", \h38a0, \h4000, \hffe0, \hfc00, <<"Rs", "Rt", "AddrSimple">>, {}>>,
  <<"ldsmaxlb", \h3860, \h4000, \hffe0, \hfc00, <<"Rs", "Rt", "AddrSimple">>, {}>>,
  <<"ldsmaxalb", \h38e0, \h4000, \hffe0, \hfc00, <<"Rs", "Rt", "AddrSimple">>, {}>>>>)

LseAtomicRows7 == Rows("LseAtomic", <<
  <<"ldsmaxah", \h78a0, \h4000, \hffe0, \hfc00, <<"Rs", "Rt", "AddrSimple">>, {}>>,
  <<"ldsmaxlh", \h7860, \h4000, \hffe0, \hfc00, <<"Rs", "Rt", "AddrSimple">>, {}>>,
  <<"ldsmaxalh", \h78e0, \h4000, \hffe0, \hfc00, <<"Rs", "Rt", "AddrSimple">>, {}>>,
  <<"ldsmaxa", \hb8a0, \h4000, \hbfe0, \hfc00, <<"Rs", "Rt", "AddrSimple">>, {}>>,
  <<"ldsmaxl", \hb860, \h4000, \hbfe0, \hfc00, <<"Rs", "Rt", "AddrSimple">>, {}>>,
  <<"ldsmaxal", \hb8e0, \h4000, \hbfe0, \hfc00, <<"Rs", "Rt", "AddrSimple">>, {}>>,
  <<"ldsminb", \h3820, \h5000, \hffe0, \hfc00, <<"Rs", "Rt", "AddrSimple">>, {}>>,
  <<"ldsminh", \h7820, \h5000, \hffe0, \hfc00, <<"Rs", "Rt", "AddrSimple">>, {}>>,
  <<"ldsmin", \hb820, \h5000, \hbfe0, \hfc00, <<"Rs", "Rt", "AddrSimple">>, {}>>,
  <<"ldsminab", \h38a0, \h5000, \hffe0, \hfc00, <<"Rs", "Rt", "AddrSimple">>, {}>>,
  <<"ldsminlb", \h3860, \h5000, \hffe0, \hfc00, <<"Rs", "Rt", "AddrSimple">>, {}>>,
  <<"ldsminalb", \h38e0, \h5000, \hffe0, \hfc00, <<"Rs", "Rt", "AddrSimple">>, {}>>,
  <<"ldsminah", \h78a0, \h5000, \hffe0, \hfc00, <<"Rs", "Rt", "AddrSimple">>, {}>>,
  <<"ldsminlh", \h7860, \h5000, \hffe0, \hfc00, <<"Rs", "Rt", "AddrSimple">>, {}>>,
  <<"ldsminalh", \h78e0, \h5000, \hffe0, \hfc00, <<"Rs", "Rt", "AddrSimple">>, {}>>,
  <<"ldsmina", \hb8a0, \h5000, \hbfe0, \hfc00, <<"Rs", "Rt", "AddrSimple">>, {}>>,
  <<"ldsminl", \hb860, \h5000, \hbfe0, \hfc00, <<"Rs", "Rt", "AddrSimple">>, {}>>,
  <<"ldsminal", \hb8e0, \h5000, \hbfe0, \hfc00, <<"Rs", "Rt", "AddrSimple">>, {}>>>>)

LseAtomicRows8 == Rows("LseAtomic", <<
  <<"ldumaxb", \h3820, \h6000, \hffe0, \hfc00, <<"Rs", "Rt", "AddrSimple">>, {}>>,
  <<"ldumaxh", \h7820, \h6000, \hffe0, \hfc00, <<"Rs", "Rt", "AddrSimple">>, {}>>,
  <<"ldumax", \hb820, \h6000, \hbfe0, \hfc00, <<"Rs", "Rt", "AddrSimple">>, {}>>,
  <<"ldumaxab", \h38a0, \h6000, \hffe0, \hfc00, <<"Rs", "Rt", "AddrSimple">>, {}>>,
  <<"ldumaxlb", \h3860, \h6000, \hffe0, \hfc00, <<"Rs", "Rt", "AddrSimple">>, {}>>,
  <<"ldumaxalb", \h38e0, \h6000, \hffe0, \hfc00, <<"Rs", "Rt", "AddrSimple">>, {}>>,
  <<"ldumaxah", \h78a0, \h6000, \hffe0, \hfc00, <<"Rs", "Rt", "AddrSimple">>, {}>>,
  <<"ldumaxlh", \h7860, \h6000, \hffe0, \hfc00, <<"Rs", "Rt", "AddrSimple">>, {}>>,
  <<"ldumaxalh", \h78e0, \h6000, \hffe0, \hfc00, <<"Rs", "Rt", "AddrSimple">>, {}>>,
  <<"ldumaxa", \hb8a0, \h6000, \hbfe0, \hfc00, <<"Rs", "Rt", "AddrSimple">>, {}>>,
  <<"ldumaxl", \hb860, \h6000, \hbfe0, \hfc00, <<"Rs", "Rt", "AddrSimple">>, {}>>,
  <<"ldumaxal", \hb8e0, \h6000, \hbfe0, \hfc00, <<"Rs", "Rt", "AddrSimple">>, {}>>,
  <<"lduminb", \h3820, \h7000, \hffe0, \hfc00, <<"Rs", "Rt", "AddrSimple">>, {}>>,
  <<"lduminh", \h7820, \h7000, \hffe0, \hfc00, <<"Rs", "Rt", "AddrSimple">>, {}>>,
  <<"ldumin", \hb820, \h7000, \hbfe0, \hfc00, <<"Rs", "Rt", "AddrSimple">>, {}>>,
  <<"lduminab", \h38a0, \h7000, \hffe0, \hfc00, <<"Rs", "Rt", "AddrSimple">>, {}>>,
  <<"lduminlb", \h3860, \h7000, \hffe0, \hfc00, <<"Rs", "Rt", "AddrSimple">>, {}>>,
  <<"lduminalb", \h38e0, \h7000, \hffe0, \hfc00, <<"Rs", "Rt", "AddrSimple">>, {}>>>>)

LseAtomicRows9 == Rows("LseAtomic", <<
  <<"lduminah", \h78a0, \h7000, \hffe0, \hfc00, <<"Rs", "Rt", "AddrSimple">>, {}>>,
  <<"lduminlh", \h7860, \h7000, \hffe0, \hfc00, <<"Rs", "Rt", "AddrSimple">>, {}>>,
  <<"lduminalh", \h78e0, \h7000, \hffe0, \hfc00, <<"Rs", "Rt", "AddrSimple">>, {}>>,
  <<"ldumina", \hb8a0, \h7000, \hbfe0, \hfc00, <<"Rs", "Rt", "AddrSimple">>, {}>>,
  <<"lduminl", \hb860, \h7000, \hbfe0, \hfc00, <<"Rs", "Rt", "AddrSimple">>, {}>>,
  <<"lduminal", \hb8e0, \h7000, \hbfe0, \hfc00, <<"Rs", "Rt", "AddrSimple">>, {}>>,
  <<"staddb", \h3820, \h001f, \hffe0, \hfc1f, <<"Rs", "AddrSimple">>, {"ALIAS"}>>,
  <<"staddh", \h7820, \h001f, \hffe0, \hfc1f, <<"Rs", "AddrSimple">>, {"ALIAS"}>>,
  <<"stadd", \hb820, \h001f, \hbfe0, \hfc1f, <<"Rs", "AddrSimple">>, {"ALIAS"}>>,
  <<"staddlb", \h3860, \h001f, \hffe0, \hfc1f, <<"Rs", "AddrSimple">>, {"ALIAS"}>>,
  <<"staddlh", \h7860, \h001f, \hffe0, \hfc1f, <<"Rs", "AddrSimple">>, {"ALIAS"}>>,
  <<"staddl", \hb860, \h001f, \hbfe0, \hfc1f, <<"Rs", "AddrSimple">>, {"ALIAS"}>>,
  <<"stclrb", \h3820, \h101f, \hffe0, \hfc1f, <<"Rs", "AddrSimple">>, {"ALIAS"}>>,
  <<"stclrh", \h7820, \h101f, \hffe0, \hfc1f, <<"Rs", "AddrSimple">>, {"ALIAS"}>>,
  <<"stclr", \hb820, \h101f, \hbfe0, \hfc1f, <<"Rs", "AddrSimple">>, {"ALIAS"}>>,
  <<"stclrlb", \h3860, \h101f, \hffe0, \hfc1f, <<"Rs", "AddrSimple">>, {"ALIAS"}>>,
  <<"stclrlh", \h7860, \h101f, \hffe0, \hfc1f, <<"Rs", "AddrSimple">>, {"ALIAS"}>>,
  <<"stclrl", \hb860, \h101f, \hbfe0, \hfc1f, <<"Rs", "AddrSimple">>, {"ALIAS"}>>>>)

LseAtomicRows10 == Rows("LseAtomic", <<
  <<"steorb", \h3820, \h201f, \hffe0, \hfc1f, <<"Rs", "AddrSimple">>, {"ALIAS"}>>,
  <<"steorh", \h7820, \h201f, \hffe0, \hfc1f, <<"Rs", "AddrSimple">>, {"ALIAS"}>>,
  <<"steor", \hb820, \h201f, \hbfe0, \hfc1f, <<"Rs", "AddrSimple">>, {"ALIAS"}>>,
  <<"steorlb", \h3860, \h201f, \hffe0, \hfc1f, <<"Rs", "AddrSimple">>, {"ALIAS"}>>,
  <<"steorlh", \h7860, \h201f, \hffe0, \hfc1f, <<"Rs", "AddrSimple">>, {"ALIAS"}>>,
  <<"steorl", \hb860, \h201f, \hbfe0, \hfc1f, <<"Rs", "AddrSimple">>, {"ALIAS"}>>,
  <<"stsetb", \h3820, \h301f, \hffe0, \hfc1f, <<"Rs", "AddrSimple">>, {"ALIAS"}>>,
  <<"stseth", \h7820, \h301f, \hffe0, \hfc1f, <<"Rs", "AddrSimple">>, {"ALIAS"}>>,
  <<"stset", \hb820, \h301f, \hbfe0, \hfc1f, <<"Rs", "AddrSimple">>, {"ALIAS"}>>,
  <<"stsetlb", \h3860, \h301f, \hffe0, \hfc1f, <<"Rs", "AddrSimple">>, {"ALIAS"}>>,
  <<"stsetlh", \h7860, \h301f, \hffe0, \hfc1f, <<"Rs", "AddrSimple">>, {"ALIAS"}>>,
  <<"stsetl", \hb860, \h301f, \hbfe0, \hfc1f, <<"Rs", "AddrSimple">>, {"ALIAS"}>>,
  <<"stsmaxb", \h3820, \h401f, \hffe0, \hfc1f, <<"Rs", "AddrSimple">>, {"ALIAS"}>>,
  <<"stsmaxh", \h7820, \h401f, \hffe0, \hfc1f, <<"Rs", "AddrSimple">>, {"ALIAS"}>>,
  <<"stsmax", \hb820, \h401f, \hbfe0, \hfc1f, <<"Rs", "AddrSimple">>, {"ALIAS"}>>,
  <<"stsmaxlb", \h3860, \h401f, \hffe0, \hfc1f, <<"Rs", "AddrSimple">>, {"ALIAS"}>>,
  <<"stsmaxlh", \h7860, \h401f, \hffe0, \hfc1f, <<"Rs", "AddrSimple">>, {"ALIAS"}>>,
  <<"stsmaxl", \hb860, \h401f, \hbfe0, \hfc1f, <<"Rs", "AddrSimple">>, {"ALIAS"}>>>>)

LseAtomicRows11 == Rows("LseAtomic", <<
  <<"stsminb", \h3820, \h501f, \hffe0, \hfc1f, <<"Rs", "AddrSimple">>, {"ALIAS"}>>,
  <<"stsminh", \h7820, \h501f, \hffe0, \hfc1f, <<"Rs", "AddrSimple">>, {"ALIAS"}>>,
  <<"stsmin", \hb820, \h501f, \hbfe0, \hfc1f, <<"Rs", "AddrSimple">>, {"ALIAS"}>>,
  <<"stsminlb", \h3860, \h501f, \hffe0, \hfc1f, <<"Rs", "AddrSimple">>, {"ALIAS"}>>,
  <<"stsminlh", \h7860, \h501f, \hffe0, \hfc1f, <<"Rs", "AddrSimple">>, {"ALIAS"}>>,
  <<"stsminl", \hb860, \h501f, \hbfe0, \hfc1f, <<"Rs", "AddrSimple">>, {"ALIAS"}>>,
  <<"stumaxb", \h3820, \h601f, \hffe0, \hfc1f, <<"Rs", "AddrSimple">>, {"ALIAS"}>>,
  <<"stumaxh", \h7820, \h601f, \hffe0, \hfc1f, <<"Rs", "AddrSimple">>, {"ALIAS"}>>,
  <<"stumax", \hb820, \h601f, \hbfe0, \hfc1f, <<"Rs", "AddrSimple">>, {"ALIAS"}>>,
  <<"stumaxlb", \h3860, \h601f, \hffe0, \hfc1f, <<"Rs", "AddrSimple">>, {"ALIAS"}>>,
  <<"stumaxlh", \h7860, \h601f, \hffe0, \hfc1f, <<"Rs", "AddrSimple">>, {"ALIAS"}>>,
  <<"stumaxl", \hb860, \h601f, \hbfe0, \hfc1f, <<"Rs", "AddrSimple">>, {"ALIAS"}>>,
  <<"stuminb", \h3820, \h701f, \hffe0, \hfc1f, <<"Rs", "AddrSimple">>, {"ALIAS"}>>,
  <<"stuminh", \h7820, \h701f, \hffe0, \hfc1f, <<"Rs", "AddrSimple">>, {"ALIAS"}>>,
  <<"stumin", \hb820, \h701f, \hbfe0, \hfc1f, <<"Rs", "AddrSimple">>, {"ALIAS"}>>,
  <<"stuminlb", \h3860, \h701f, \hffe0, \hfc1f, <<"Rs", "AddrSimple">>, {"ALIAS"}>>,
  <<"stuminlh", \h7860, \h701f, \hffe0, \hfc1f, <<"Rs", "AddrSimple">>, {"ALIAS"}>>,
  <<"stuminl", \hb860, \h701f, \hbfe0, \hfc1f, <<"Rs", "AddrSimple">>, {"ALIAS"}>>>>)

MovewideRows == Rows("Movewide", <<
  <<"movn", \h1280, \h0000, \h7f80, \h0000, <<"Rd", "Half">>, {}>>,
  <<"mov", \h1280, \h0000, \h7f80, \h0000, <<"Rd", "ImmMov">>, {"ALIAS", "CONV"}>>,
  <<"movz", \h5280, \h0000, \h7f80, \h0000, <<"Rd", "Half">>, {}>>,
  <<"mov", \h5280, \h0000, \h7f80, \h0000, <<"Rd", "ImmMov">>, {"ALIAS", "CONV"}>>,
  <<"movk", \h7280, \h0000, \h7f80, \h0000, <<"Rd", "Half">>, {}>>>>)

PcreladdrRows == Rows("Pcreladdr", <<
  <<"adr", \h1000, \h0000, \h9f00, \h0000, <<"Rd", "AddrPcrel21">>, {}>>,
  <<"adrp", \h9000, \h0000, \h9f00, \h0000, <<"Rd", "AddrAdrp">>, {}>>>>)

IcSystemRows1 == Rows("IcSystem", <<
  <<"msr", \hd500, \h401f, \hfff8, \hf01f, <<"Pstatefield", "Uimm4">>, {}>>,
  <<"hint", \hd503, \h201f, \hffff, \hf01f, <<"Uimm7">>, {}>>,
  <<"nop", \hd503, \h201f, \hffff, \hffff, <<>>, {"ALIAS"}>>,
  <<"yield", \hd503, \h203f, \hffff, \hffff, <<>>, {"ALIAS"}>>,
  <<"wfe", \hd503, \h205f, \hffff, \hffff, <<>>, {"ALIAS"}>>,
  <<"wfi", \hd503, \h207f, \hffff, \hffff, <<>>, {"ALIAS"}>>,
  <<"sev", \hd503, \h209f, \hffff, \hffff, <<>>, {"ALIAS"}>>,
  <<"sevl", \hd503, \h20bf, \hffff, \hffff, <<>>, {"ALIAS"}>>,
  <<"esb", \hd503, \h221f, \hffff, \hffff, <<>>, {"ALIAS"}>>>>)

IcSystemRows2 == Rows("IcSystem", <<
  <<"paciaz", \hd503, \h231f, \hffff, \hffff, <<>>, {"ALIAS"}>>,
  <<"paciasp", \hd503, \h233f, \hffff, \hffff, <<>>, {"ALIAS"}>>,
  <<"pacibz", \hd503, \h235f, \hffff, \hffff, <<>>, {"ALIAS"}>>,
  <<"pacibsp", \hd503, \h237f, \hffff, \hffff, <<>>, {"ALIAS"}>>,
  <<"autiaz", \hd503, \h239f, \hffff, \hffff, <<>>, {"ALIAS"}>>,
  <<"autiasp", \hd503, \h23bf, \hffff, \hffff, <<>>, {"ALIAS"}>>,
  <<"autibz", \hd503, \h23df, \hffff, \hffff, <<>>, {"ALIAS"}>>,
  <<"autibsp", \hd503, \h23ff, \hffff, \hffff, <<>>, {"ALIAS"}>>,
  <<"xpaclri", \hd503, \h20ff, \hffff, \hffff, <<>>, {"ALIAS"}>>,
  <<"psb", \hd503, \h223f, \hffff, \hffff, <<"BarrierPsb">>, {"ALIAS"}>>,
  <<"clrex", \hd503, \h305f, \hffff, \hf0ff, <<"Uimm4">>, {}>>,
  <<"dsb", \hd503, \h309f, \hffff, \hf0ff, <<"Barrier">>, {}>>,
  <<"dmb", \hd503, \h30bf, \hffff, \hf0ff, <<"Barrier">>, {}>>,
  <<"isb", \hd503, \h30df, \hffff, \hf0ff, <<"BarrierIsb">>, {}>>,
  <<"sys", \hd508, \h0000, \hfff8, \h0000, <<"Uimm3Op1", "Cn", "Cm", "Uimm3Op2", "Rt">>, {}>>,
  <<"at", \hd508, \h0000, \hfff8, \h0000, <<"SysregAt", "Rt">>, {"ALIAS"}>>,
  <<"dc", \hd508, \h0000, \hfff8, \h0000, <<"SysregDc", "Rt">>, {"ALIAS"}>>,
  <<"ic", \hd508, \h0000, \hfff8, \h0000, <<"SysregIc", "RtSys">>, {"ALIAS"}>>,
  <<"tlbi", \hd508, \h0000, \hfff8, \h0000, <<"SysregTlbi", "RtSys">>, {"ALIAS"}>>,
  <<"msr", \hd500, \h0000, \hffe0, \h0000, <<"Sysreg", "Rt">>, {}>>,
  <<"sysl", \hd528, \h0000, \hfff8, \h0000, <<"Rt", "Uimm3Op1", "Cn", "Cm", "Uimm3Op2">>, {}>>,
  <<"mrs", \hd520, \h0000, \hffe0, \h0000, <<"Rt", "Sysreg">>, {}>>>>)

TestbranchRows == Rows("Testbranch", <<
  <<"tbz", \h3600, \h0000, \h7f00, \h0000, <<"Rt", "BitNum", "AddrPcrel14">>, {}>>,
  <<"tbnz", \h3700, \h0000, \h7f00, \h0000, <<"Rt", "BitNum", "AddrPcrel14">>, {}>>>>)

CondbranchRows2 == Rows("Condbranch", <<
  <<"beq", \h5400, \h0000, \hff00, \h001f, <<"AddrPcrel19">>, {"ALIAS"}>>,
  <<"bne", \h5400, \h0001, \hff00, \h001f, <<"AddrPcrel19">>, {"ALIAS"}>>,
  <<"bcs", \h5400, \h0002, \hff00, \h001f, <<"AddrPcrel19">>, {"ALIAS"}>>,
  <<"bhs", \h5400, \h0002, \hff00, \h001f, <<"AddrPcrel19">>, {"ALIAS"}>>,
  <<"bcc", \h5400, \h0003, \hff00, \h001f, <<"AddrPcrel19">>, {"ALIAS"}>>,
  <<"blo", \h5400, \h0003, \hff00, \h001f, <<"AddrPcrel19">>, {"ALIAS"}>>,
  <<"bmi", \h5400, \h0004, \hff00, \h001f, <<"AddrPcrel19">>, {"ALIAS"}>>,
  <<"bpl", \h5400, \h0005, \hff00, \h001f, <<"AddrPcrel19">>, {"ALIAS"}>>,
  <<"bvs", \h5400, \h0006, \hff00, \h001f, <<"AddrPcrel19">>, {"ALIAS"}>>,
  <<"bvc", \h5400, \h0007, \hff00, \h001f, <<"AddrPcrel19">>, {"ALIAS"}>>,
  <<"bhi", \h5400, \h0008, \hff00, \h001f, <<"AddrPcrel19">>, {"ALIAS"}>>,
  <<"bls", \h5400, \h0009, \hff00, \h001f, <<"AddrPcrel19">>, {"ALIAS"}>>,
  <<"bge", \h5400, \h000a, \hff00, \h001f, <<"AddrPcrel19">>, {"ALIAS"}>>,
  <<"blt", \h5400, \h000b, \hff00, \h001f, <<"AddrPcrel19">>, {"ALIAS"}>>,
  <<"bgt", \h5400, \h000c, \hff00, \h001f, <<"AddrPcrel19">>, {"ALIAS"}>>,
  <<"ble", \h5400, \h000d, \hff00, \h001f, <<"AddrPcrel19">>, {"ALIAS"}>>>>)

aarch64_opcode_table ==
  FlattenSeq(<<AddsubCarryRows, AddsubExtRows, AddsubImmRows, AddsubShiftRows,
    AsimdallRows, AsimddiffRows1, AsimddiffRows2, AsimddiffRows3,
    AsimdelemRows1, AsimdelemRows2, AsimdextRows, AsimdimmRows,
    AsimdinsRows, AsimdmiscRows1, AsimdmiscRows2, AsimdmiscRows3,
    AsimdmiscRows4, AsimdmiscRows5, AsimdmiscRows6, AsimdpermRows,
    AsimdsameRows1, AsimdsameRows2, AsimdsameRows3, AsimdsameRows4,
    AsimdsameRows5, AsimdsameRows6, AsimdshfRows1, AsimdshfRows2,
    AsimdshfRows3, AsimdtblRows, AsisddiffRows, AsisdelemRows,
    AsisdlseRows, AsisdlsepRows, AsisdlsoRows, AsisdlsopRows,
    AsisdmiscRows1, AsisdmiscRows2, AsisdmiscRows3, AsisdmiscRows4,
    AsisdoneRows, AsisdpairRows, AsisdsameRows1, AsisdsameRows2,
    AsisdsameRows3, AsimdsameRows7, AsisdshfRows1, AsisdshfRows2,
    BitfieldRows, BranchImmRows, BranchRegRows1, BranchRegRows2,
    BranchRegRows3, CompbranchRows, CondbranchRows1, CondcmpImmRows,
    CondcmpRegRows, CondselRows, CryptoaesRows, Cryptosha2Rows,
    Cryptosha3Rows, Dp1srcRows1, Dp1srcRows2, Dp1srcRows3,
    Dp1srcRows4, Dp2srcRows, Dp3srcRows, ExceptionRows,
    ExtractRows, Float2fixRows, Float2intRows1, Float2intRows2,
    FloatccmpRows, FloatcmpRows, Floatdp1Rows1, Floatdp1Rows2,
    Floatdp2Rows, Floatdp3Rows, FloatimmRows, FloatselRows,
    LdstImm9Rows, LdstPosRows, LdstRegoffRows, LdstUnprivRows,
    LdstUnscaledRows1, LdstexclRows1, LdstexclRows2, LdstnapairOffsRows,
    LdstpairOffRows, LdstpairIndexedRows, LoadlitRows, LogImmRows,
    LogShiftRows, LseAtomicRows1, LseAtomicRows2, LseAtomicRows3,
    LdstUnscaledRows2, LseAtomicRows4, LseAtomicRows5, LseAtomicRows6,
    LseAtomicRows7, LseAtomicRows8, LseAtomicRows9, LseAtomicRows10,
    LseAtomicRows11, MovewideRows, PcreladdrRows, IcSystemRows1,
    IcSystemRows2, TestbranchRows, CondbranchRows2>>)

WithIndex(rows) == [i \in 1..Len(rows) |-> rows[i] @@ [index |-> i]]

\* The rows as a set, each with its position in the table.
IndexedRows == ToSet(WithIndex(aarch64_opcode_table))
=============================================================================
