------------------------------- MODULE MCA64 -------------------------------
(***************************************************************************)
(* Every row of the AArch64 table with its free bits all clear, all set    *)
(* and each one alone, with the lowest bits of Rn and Rm together, and for *)
(* the PC-relative rows with each one missing; emitted at home and on both *)
(* sides of it.                                                            *)
(***************************************************************************)
EXTENDS A64Table, A64Codec

Free(row) == (0..31) \ row.mask
IsPcRelRow(row) ==
  \E n \in 1..Len(row.kinds) : row.kinds[n] \in DOMAIN BranchFields \cup {"AddrPcrel21", "AddrAdrp"}

MCProbes ==
  UNION {LET all == row.base \cup Free(row)
         IN  {row.base, all, row.base \cup ({5, 16} \cap Free(row))} \cup {row.base \cup {b} : b \in Free(row)}
             \cup {all \ {b} : b \in IF IsPcRelRow(row) THEN Free(row) ELSE {}} : row \in Opcodes}

MCHome == 2^28
MCPlaces == {2^28, 2^28 + 4096 + 8, 2^28 - 4096 - 8}
=============================================================================
