------------------------------- MODULE Fixups -------------------------------
(***************************************************************************)
(* Chained fixups (container/chained_fixups.rs): the blob that             *)
(* LC_DYLD_CHAINED_FIXUPS names says on which pages chains of pointers     *)
(* start and which symbols they import; the pointers themselves hold the   *)
(* target and the distance to the next one.  `read` turns both into a list *)
(* of slots, the caller edits the list, and `serialize` and `slot_bytes`   *)
(* turn it back into the two halves.                                       *)
(*                                                                         *)
(* A blob is [starts, count, format, cells, head, symoff]: `head` bytes of *)
(* header and starts, then the imports table and the names behind it in    *)
(* cells of four bytes, a name taking one.                                 *)
(***************************************************************************)
EXTENDS MachoFile

CONSTANT
  I32MAX     \* the largest addend of an import that a 32-bit field holds

ASSUME FixupsAssumption == I32MAX \in Nat

IMPORT == 1
IMPORT_ADDEND == 2
IMPORT_ADDEND64 == 3

\* PointerFormat.  Arm64eKernel and Arm64eUserland24 differ from "userland"
\* only in the width of the import ordinal.
PointerFormat == {"ptr64", "ptr64_offset", "arm64e", "userland"}

stride(format) == IF format \in {"ptr64", "ptr64_offset"} THEN 4 ELSE 8

\* (1 << next_bits) strides are one page in every format.
max_next_byte_delta(format) == PAGE - stride(format)

Rebase(target)  == [k |-> "rebase", target |-> target]
Bind(i, addend) == [k |-> "bind", import |-> i, addend |-> addend]
Fixup(at, target) == [at |-> at, t |-> target]

Failed(why) == [err |-> why]

IsErr(r) == "err" \in DOMAIN r

-----------------------------------------------------------------------------
(* The imports table.                                                      *)

EntryCells(format) == CASE format = IMPORT -> 1 [] format = IMPORT_ADDEND -> 2 [] OTHER -> 4

Raw(v) == [k |-> "raw", v |-> v]
Text(name) == [k |-> "text", name |-> name]
Zeros(n) == [i \in 1 .. n |-> Raw(0)]

\* A cell read as a number: four characters are more than any offset.
U32(cell) == IF cell.k = "text" THEN 2^30 ELSE cell.v

Bit(b) == IF b THEN 1 ELSE 0

\* One import as the cells of a format.
ImportCells(imp, off, format) ==
  IF format = IMPORT_ADDEND64
    THEN << Raw(imp.lib + 65536 * Bit(imp.weak)), Raw(off), Raw(imp.addend), Raw(0) >>
    ELSE << Raw((imp.lib % 256) + 256 * Bit(imp.weak) + 512 * off) >>
           \o (IF format = IMPORT_ADDEND THEN << Raw(imp.addend) >> ELSE <<>>)

\* The name offset of the entry that starts at cell e, counted from 0.
NameOffset(cells, e, format) ==
  IF format = IMPORT_ADDEND64 THEN U32(cells[e + 2]) ELSE U32(cells[e + 1]) \div 512

\* The names in the order they first appear, each once.
NamePool(imports) ==
  FoldLeft(LAMBDA pool, imp : IF imp.name \in Range(pool) THEN pool ELSE Append(pool, imp.name), <<>>, imports)

\* The format that holds the imports, starting from the one requested.
ImportsFormat(imports, requested) ==
  IF \E imp \in Range(imports) : imp.lib > 127 THEN IMPORT_ADDEND64
  ELSE IF requested = IMPORT /\ \E imp \in Range(imports) : imp.addend # 0 THEN IMPORT_ADDEND
  ELSE requested

build_imports_blob(imports, requested) ==
  LET format == ImportsFormat(imports, requested)
      pool   == NamePool(imports)
      Offset(imp) == 4 * ((CHOOSE i \in DOMAIN pool : pool[i] = imp.name) - 1)
  IN  IF format = IMPORT_ADDEND /\ \E imp \in Range(imports) : imp.addend > I32MAX
        THEN Failed("addend overflow")
        ELSE [format |-> format,
              cells  |-> FlattenSeq([i \in DOMAIN imports |-> ImportCells(imports[i], Offset(imports[i]), format)])
                           \o [i \in DOMAIN pool |-> Text(pool[i])]]

\* measure_imports_blob finds the end of the table by the shape of its
\* entries: one whose name would lie past the end is not an entry.
measure_imports_blob(cells, format) ==
  LET n == EntryCells(format)
      Stops(c) == \/ (c + 1) * n > Len(cells)
                  \/ 4 * (c + 1) * n + NameOffset(cells, c * n, format) >= 4 * Len(cells)
  IN  CHOOSE c \in 0 .. Len(cells) : Stops(c) /\ \A d \in 0 .. c - 1 : ~Stops(d)

\* decode_imports, entry i counted from 0; also what dyld reads of the table.
decode_import(b, i) ==
  LET e    == i * EntryCells(b.format)
      wide == b.format = IMPORT_ADDEND64
      unit == IF wide THEN 65536 ELSE 256
      at   == (b.symoff + NameOffset(b.cells, e, b.format)) \div 4 + 1
  IN  [lib    |-> U32(b.cells[e + 1]) % unit,
       weak   |-> (U32(b.cells[e + 1]) \div unit) % 2 = 1,
       addend |-> CASE wide -> U32(b.cells[e + 3]) [] b.format = IMPORT_ADDEND -> U32(b.cells[e + 2]) [] OTHER -> 0,
       name   |-> IF at \in DOMAIN b.cells /\ b.cells[at].k = "text" THEN b.cells[at].name ELSE "garbage"]

decode_imports(b) == [i \in 1 .. b.count |-> decode_import(b, i - 1)]

-----------------------------------------------------------------------------
(* Reading.  Only the class of an error matters: build_grown_macho goes on *)
(* after a "truncated".                                                    *)

\* The formats whose targets the library counts from the slot's segment.
SegmentRelative == {"userland"}

decode_one(word, format, nimports, seg) ==
  IF word.k = "bind"
    THEN IF word.ord >= nimports THEN Failed("truncated") ELSE Bind(word.ord, word.addend)
    ELSE Rebase(IF format \in SegmentRelative THEN seg.vm + word.target ELSE word.target)

\* The words of the chain that starts at offset `at` of a segment, as far as
\* its file part goes: [at, word].
RECURSIVE Chain(_, _, _, _)
Chain(f, seg, format, at) ==
  IF at + 8 > seg.filesize \/ seg.off + at + 8 > f.len THEN <<>>
  ELSE LET word == WordAt(f.content, seg.off + at)
       IN  << [at |-> seg.vm + at, word |-> word] >>
             \o (IF word.k = "torn" THEN <<>>
                 ELSE IF word.next = 0 THEN <<>>
                 ELSE Chain(f, seg, format, at + word.next * stride(format)))

NoStart == -1

\* Every chain of a segment whose starts the blob has.
Walk(f, seg, start) ==
  FlattenSeq([p \in DOMAIN start.pages |->
    IF start.pages[p] = NoStart THEN <<>>
    ELSE Chain(f, seg, start.format, (p - 1) * start.page + start.pages[p])])

walk_one_segment(f, b, i) ==
  LET words == Walk(f, f.segs[i], b.starts[i])
  IN  [k \in DOMAIN words |->
         Fixup(words[k].at, decode_one(words[k].word, b.starts[i].format, b.count, f.segs[i]))]

\* The imports and all that follows them, the padding of the slot included.
ImportsTail(f, b) == b.cells \o Zeros((f.lcs["cf"].size - b.head) \div 4 - Len(b.cells))

read(f) ==
  IF ~Has(f, "cf") THEN Failed("missing")
  ELSE LET b       == Blob(f, "cf")
           index   == SetToSortSeq(DOMAIN b.starts, <)
           formats == {b.starts[i].format : i \in DOMAIN b.starts}
           walked  == [k \in DOMAIN index |-> walk_one_segment(f, b, index[k])]
       IN  IF formats \ PointerFormat # {} THEN Failed("unsupported")
           ELSE IF \/ Cardinality(formats) # 1
                   \/ \E k \in DOMAIN index : \E x \in Range(walked[k]) : IsErr(x.t)
             THEN Failed("truncated")
           ELSE [format |-> CHOOSE m \in formats : TRUE,
                 imports |-> decode_imports(b), original_imports |-> decode_imports(b),
                 ondisk |-> b.format, original_cells |-> ImportsTail(f, b),
                 segments |-> [k \in DOMAIN index |->
                    [index |-> index[k], page |-> b.starts[index[k]].page,
                     fixups |-> SortSeq(walked[k], LAMBDA x, y : x.at < y.at)]]]

-----------------------------------------------------------------------------
(* Editing.                                                                *)

Repointed(x, old, new) == IF x.t = Rebase(old) THEN [x EXCEPT !.t = Rebase(new)] ELSE x

repoint_fixup(cf, old, new) ==
  [cf EXCEPT !.segments = [k \in DOMAIN @ |->
     [@[k] EXCEPT !.fixups = [j \in DOMAIN @ |-> Repointed(@[j], old, new)]]]]

\* Mutant: the slots move and their targets do not.
ShiftedSlot(x, delta) == [x EXCEPT !.at = @ + delta]

Shifted(x, delta) ==
  [at |-> x.at + delta, t |-> IF x.t.k = "rebase" THEN Rebase(x.t.target + delta) ELSE x.t]

shift_by(cf, delta) ==
  [cf EXCEPT !.segments = [k \in DOMAIN @ |->
     [@[k] EXCEPT !.fixups = [j \in DOMAIN @ |-> Shifted(@[j], delta)]]]]

ensure_addend64(cf) == [cf EXCEPT !.ondisk = IMPORT_ADDEND64]

-----------------------------------------------------------------------------
(* Writing.                                                                *)

\* sort_by_key, which is stable, and dedup_by_key, which keeps the first.
Deduped(fixups) ==
  LET first == {i \in DOMAIN fixups : \A j \in 1 .. i - 1 : fixups[j].at # fixups[i].at}
  IN  SetToSortSeq({fixups[i] : i \in first}, LAMBDA x, y : x.at < y.at)

PageOf(x, seg, page) == (x.at - seg.vm) \div page

\* Mutant: the chain goes on into the next page, which has a start of its own.
NextUnitsAcross(fixups, i, seg, page, format) ==
  IF i < Len(fixups) THEN (fixups[i + 1].at - fixups[i].at) \div stride(format) ELSE 0

\* The distance to the slot that follows on the same page, 0 if none does.
NextUnits(fixups, i, seg, page, format) ==
  IF i < Len(fixups) /\ PageOf(fixups[i + 1], seg, page) = PageOf(fixups[i], seg, page)
    THEN (fixups[i + 1].at - fixups[i].at) \div stride(format)
    ELSE 0

\* A word of format ptr64 keeps eight bits of an addend; the others refuse
\* one past their width.
encode_one(x, format, next, seg) ==
  CASE x.t.k = "rebase" /\ format \in SegmentRelative ->
         RebaseWord((IF x.t.target < seg.vm THEN 0 ELSE x.t.target - seg.vm) % TargetMod, next)
    [] x.t.k = "rebase" /\ format \notin SegmentRelative -> RebaseWord(x.t.target % TargetMod, next)
    [] x.t.k = "bind" /\ stride(format) = 4 -> BindWord(x.t.import, x.t.addend % 256, next)
    [] x.t.k = "bind" /\ stride(format) = 8 ->
         IF x.t.addend >= 2^18 THEN Failed("addend overflow") ELSE BindWord(x.t.import, x.t.addend, next)

slot_bytes(cf, segs) ==
  FlattenSeq([k \in DOMAIN cf.segments |->
    LET sf     == cf.segments[k]
        seg    == segs[sf.index]
        fixups == Deduped(sf.fixups)
    IN  [i \in DOMAIN fixups |->
           Piece(seg.off + (fixups[i].at - seg.vm), 8,
                 encode_one(fixups[i], cf.format, NextUnits(fixups, i, seg, sf.page, cf.format), seg))]])

\* The first slot of each page of the segment, zero-fill pages included; a
\* segment without fixups keeps an entry without pages.
build_starts_in_segment(cf, sf, seg) ==
  LET on(p) == {x.at : x \in {y \in Range(sf.fixups) : PageOf(y, seg, sf.page) = p - 1}}
      pages == IF sf.fixups = <<>> THEN 0 ELSE align_up(seg.vmsize, sf.page) \div sf.page
  IN  [page |-> sf.page, format |-> cf.format, segment_offset |-> seg.off,
       pages |-> [p \in 1 .. pages |->
                    IF on(p) = {} THEN NoStart
                    ELSE (CHOOSE a \in on(p) : \A b \in on(p) : a <= b) - seg.vm - (p - 1) * sf.page]]

\* The checks of serialize: alignment, segment, import index, and the
\* distance of two slots of one page.
Valid(cf, sf, seg) ==
  /\ \A x \in Range(sf.fixups) : /\ x.at % stride(cf.format) = 0
                                 /\ seg.vm <= x.at /\ x.at < seg.vm + seg.vmsize
                                 /\ x.t.k = "bind" => x.t.import < Len(cf.imports)
  /\ LET fixups == Deduped(sf.fixups)
     IN  \A i \in 1 .. Len(fixups) - 1 :
           NextUnits(fixups, i, seg, sf.page, cf.format) * stride(cf.format) <= max_next_byte_delta(cf.format)

StartsLen(start) == align_up(22 + 2 * Len(start.pages), 4)

\* Imports that did not change are written as they were read.
ImportsBlob(cf) ==
  IF cf.imports = cf.original_imports
    THEN [format |-> cf.ondisk, cells |-> cf.original_cells]
    ELSE build_imports_blob(cf.imports, cf.ondisk)

serialize(cf, segs) ==
  IF \/ \E sf \in Range(cf.segments) : ~Valid(cf, sf, segs[sf.index])
     \/ IsErr(ImportsBlob(cf))
    THEN Failed("refused")
  ELSE LET starts == [i \in {sf.index : sf \in Range(cf.segments)} |->
                        LET sf == CHOOSE g \in Range(cf.segments) : g.index = i
                        IN  build_starts_in_segment(cf, sf, segs[i])]
           imports == ImportsBlob(cf)
           count   == measure_imports_blob(imports.cells, imports.format)
           head    == 32 + 4 + 4 * Len(segs)
                        + FoldLeft(LAMBDA n, i : n + StartsLen(starts[i]), 0, SetToSeq(DOMAIN starts))
       IN  [len  |-> align_up(head + 4 * Len(imports.cells), 8),
            data |-> [k |-> "cf", starts |-> starts, count |-> count, format |-> imports.format,
                      cells |-> imports.cells, head |-> head,
                      symoff |-> 4 * count * EntryCells(imports.format)]]

=============================================================================
