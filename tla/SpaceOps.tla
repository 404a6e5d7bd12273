------------------------------ MODULE SpaceOps ------------------------------
(***************************************************************************)
(* The pure part of the text-space allocator (rewrite/space.rs): rounding, *)
(* what a free extent can offer to a request, the order in which offers    *)
(* are preferred, and one carve of a region.  Addresses are u64 values;    *)
(* MaxU64 is the largest one, so checked arithmetic is a comparison with   *)
(* it and wrapping arithmetic is taken modulo MaxU64 + 1.                  *)
(***************************************************************************)
EXTENDS Integers

CONSTANT MaxU64          \* u64::MAX of the model

ASSUME MaxU64Assumption == MaxU64 \in Nat \ {0}

U64 == 0 .. MaxU64

\* SpaceSource, with GrewText's page count left out, and its preference rank.
Source == {"InterSectionHole", "TailPad", "HeaderPad", "GrewText"}

rank(source) ==
  CASE source = "InterSectionHole" -> 0
    [] source = "TailPad"          -> 1
    [] source = "HeaderPad"        -> 2
    [] source = "GrewText"         -> 3

\* A run of free bytes lies inside the address space and inside the file.
FreeExtent ==
  {e \in [address : U64, file_offset : U64, len : U64, source : Source] :
     /\ e.address + e.len <= MaxU64
     /\ e.file_offset + e.len <= MaxU64}

ReserveRequest ==
  [min_bytes : U64, headroom : U64, align : U64,
   allow_headerpad : BOOLEAN, on_exhaustion : {"Grow", "Fail"}]

\* min_bytes.saturating_add(headroom)
needed(req) ==
  IF req.min_bytes + req.headroom > MaxU64 THEN MaxU64
  ELSE req.min_bytes + req.headroom

\* The next multiple of align; the code's None is a result above MaxU64.
round_up(value, align) ==
  IF value % align = 0 THEN value ELSE value + (align - (value % align))

-----------------------------------------------------------------------------
(* What an extent offers to a request: plan_reservation's loop body up to  *)
(* the comparison with the size that is needed.                            *)

BaseIn(e, align) == round_up(e.address, align)

Offers(e, req) ==
  /\ e.source = "HeaderPad" => req.allow_headerpad
  /\ e.source # "GrewText"
  /\ BaseIn(e, req.align) <= MaxU64
  /\ BaseIn(e, req.align) - e.address <= e.len

\* Mutant: the worst-case padding instead of the padding this base needs.
UsableWorstCase(e, req) == e.len - (req.align - 1)

Usable(e, req) == e.len - (BaseIn(e, req.align) - e.address)

\* pick_better keeps its first argument unless the second is a tighter fit, or
\* as tight and of a cheaper source, or equal in both and at a lower address.
Preferred(a, b, req) ==
  \/ Usable(a, req) < Usable(b, req)
  \/ /\ Usable(a, req) = Usable(b, req)
     /\ \/ rank(a.source) < rank(b.source)
        \/ /\ rank(a.source) = rank(b.source)
           /\ BaseIn(a, req.align) <= BaseIn(b, req.align)

-----------------------------------------------------------------------------
(* A region and one carve out of it.                                       *)

Region ==
  [base_address : U64, base_file_offset : U64, capacity : U64, cursor : U64,
   source : Source]

Carve == [address : U64, file_offset : U64, offset_in_region : U64, len : U64]

NewRegion(base, offset, capacity, source) ==
  [base_address |-> base, base_file_offset |-> offset, capacity |-> capacity,
   cursor |-> 0, source |-> source]

\* Bytes the cursor skips so that the slice starts at a multiple of align.
CarvePad(r, align) ==
  round_up(r.base_address + r.cursor, align) - (r.base_address + r.cursor)

\* Mutant: the padding is not charged to the cursor.
NewCursorNoPad(r, len, align) == r.cursor + len

NewCursor(r, len, align) == r.cursor + CarvePad(r, align) + len

\* Mutant: the capacity test forgets the padding.
carve_result_unpadded(r, len, align) ==
  IF align = 0 THEN "ZeroAlign"
  ELSE IF NewCursor(r, len, align) > MaxU64 THEN "Overflow"
  ELSE IF r.cursor + len > r.capacity THEN "RegionFull"
  ELSE "Ok"

carve_result(r, len, align) ==
  IF align = 0 THEN "ZeroAlign"
  ELSE IF \/ r.base_address + r.cursor > MaxU64
          \/ round_up(r.base_address + r.cursor, align) > MaxU64
          \/ NewCursor(r, len, align) > MaxU64
       THEN "Overflow"
  ELSE IF NewCursor(r, len, align) > r.capacity THEN "RegionFull"
  ELSE "Ok"

\* Mutant: the file offset of the slice is taken before the padding.
CarveOfUnpaddedOffset(r, len, align) ==
  [address          |-> r.base_address + r.cursor + CarvePad(r, align),
   file_offset      |-> r.base_file_offset + r.cursor,
   offset_in_region |-> r.cursor + CarvePad(r, align),
   len              |-> len]

CarveOf(r, len, align) ==
  [address          |-> r.base_address + r.cursor + CarvePad(r, align),
   file_offset      |-> r.base_file_offset + r.cursor + CarvePad(r, align),
   offset_in_region |-> r.cursor + CarvePad(r, align),
   len              |-> len]

=============================================================================
