----------------------------- MODULE ElfWriter ------------------------------
(***************************************************************************)
(* Writing a container back (container/elf_writer.rs): in place, with an   *)
(* appended segment for what an editing session added, or with an appended *)
(* copy of a section that grew and trampolines at its old function         *)
(* entries.  The result is a file, or a panic where the object crate's     *)
(* writer asserts that its cursor never moves back.                        *)
(***************************************************************************)
EXTENDS ElfTables

Phdr(type, vaddr, off, len, w, x) ==
  [type |-> type, vaddr |-> vaddr, off |-> off, filesz |-> len, memsz |-> len,
   w |-> w, x |-> x]

MaxOf(S) == CHOOSE x \in S : \A y \in S : y <= x

pick_append_vaddr(phdrs) ==
  align_up(MaxOf({0} \cup {p.vaddr + p.memsz : p \in {p \in Range(phdrs) : p.type = "LOAD"}}),
           PAGE)

\* Bytes of section i, with the caller's overrides.
Effective(c, over, i) == IF i \in DOMAIN over THEN over[i] ELSE c.sections[i].bytes

Extent(c, over, i) ==
  IF Effective(c, over, i).len = 0 THEN 0
  ELSE MaxOf({c.sections[i].sh_size, Effective(c, over, i).len})

\* The writer's cursor when it comes to the k-th section of the order.
CursorAt(c, over, order, from, k) ==
  IF k = 1 THEN from ELSE c.sections[order[k - 1]].off + Extent(c, over, order[k - 1])

\* reserve_until then reserve, section by section: the cursor after the last,
\* and a panic at a section whose offset it has passed.
Reserve(c, over, order, from) ==
  [panic  |-> \E k \in DOMAIN order :
                CursorAt(c, over, order, from, k) > c.sections[order[k]].off,
   cursor |-> CursorAt(c, over, order, from, Len(order) + 1)]

\* Sections with bytes in the file, in the order of the section table.
SourceOrder(c, over) ==
  SelectSeq([i \in DOMAIN c.sections |-> i], LAMBDA i : Effective(c, over, i).len # 0)

InFile(c, over) == {i \in DOMAIN c.sections : Effective(c, over, i).len # 0}

\* Sections of InFile that a stable sort by offset puts before section i.
PlacedBefore(c, over, i) ==
  {j \in InFile(c, over) : \/ c.sections[j].off < c.sections[i].off
                           \/ c.sections[j].off = c.sections[i].off /\ j < i}

\* The same sections in the order of their offsets.
OffsetOrder(c, over) ==
  [k \in 1 .. Cardinality(InFile(c, over)) |->
     CHOOSE i \in InFile(c, over) : Cardinality(PlacedBefore(c, over, i)) = k - 1]

Shifted(pieces, off) == [k \in DOMAIN pieces |-> [pieces[k] EXCEPT !.at = @ + off]]

SectionChunks(c, over, order) ==
  FlattenSeq([k \in DOMAIN order |->
    Shifted(Effective(c, over, order[k]).pieces, c.sections[order[k]].off)])

build_section_header(c, over, i) ==
  [name |-> c.sections[i].name, addr |-> c.sections[i].addr, off |-> c.sections[i].off,
   size |-> MaxOf({Extent(c, over, i), c.sections[i].bytes.len})]

SectionHeaders(c, over) == [i \in DOMAIN c.sections |-> build_section_header(c, over, i)]

File(sections, phdrs, phoff, chunks) ==
  [sections |-> sections, phdrs |-> phdrs, phoff |-> phoff, chunks |-> chunks]

Written(panic, file) == [panic |-> panic, file |-> file]

-----------------------------------------------------------------------------
(* The appended-segment writer.  seg is [vaddr, bytes, code_len, w, x];    *)
(* writable is <<>> or one [vaddr, bytes].                                 *)

compute_code_data_split(seg) ==
  IF \/ seg.code_len = 0
     \/ seg.code_len >= seg.bytes.len
     \/ seg.code_len % PAGE # 0
  THEN 0 ELSE seg.code_len

\* A header whose address lies in the appended segment gets its offset there.
PhdrMoved(p, seg, at) ==
  IF p.vaddr >= seg.vaddr /\ p.vaddr + p.filesz <= seg.vaddr + seg.bytes.len
  THEN [p EXCEPT !.off = at + (p.vaddr - seg.vaddr)] ELSE p

AppendedLoads(seg, at, cover, split) ==
  IF split = 0 THEN << Phdr("LOAD", seg.vaddr, at, cover, seg.w, seg.x) >>
  ELSE << Phdr("LOAD", seg.vaddr, at, split, FALSE, TRUE),
          Phdr("LOAD", seg.vaddr + split, at + split, cover - split, TRUE, FALSE) >>

\* at: file offset of the segment; pht: of the program header table; old: the
\* input's headers without PT_PHDR; n: the number written.
PhdrsAt(seg, writable, old, at, woff, pht, n, split) ==
  << Phdr("PHDR", seg.vaddr + (pht - at), pht, n * PhdrLen, FALSE, FALSE) >>
  \o [k \in DOMAIN old |-> PhdrMoved(old[k], seg, at)]
  \o [k \in DOMAIN writable |->
        Phdr("LOAD", writable[k].vaddr, woff, writable[k].bytes.len, TRUE, FALSE)]
  \o AppendedLoads(seg, at, pht + n * PhdrLen - at, split)

\* The appended segment's file, given where everything goes.
LaidOut(c, over, seg, writable, old, at, woff, pht, n, r) ==
  Written(r.panic,
    File(SectionHeaders(c, over)
           \o << [name |-> "appended", addr |-> seg.vaddr, off |-> at, size |-> seg.bytes.len] >>
           \o [k \in DOMAIN writable |->
                 [name |-> "writable", addr |-> writable[k].vaddr, off |-> woff,
                  size |-> writable[k].bytes.len]],
         PhdrsAt(seg, writable, old, at, woff, pht, n, compute_code_data_split(seg)),
         pht,
         SectionChunks(c, over, OffsetOrder(c, over))
           \o FlattenSeq([k \in DOMAIN writable |-> Shifted(writable[k].bytes.pieces, woff)])
           \o Shifted(seg.bytes.pieces, at)))

\* n: old headers, PT_PHDR, one load or two, and the writable one.
PhdrCount(seg, writable, old) ==
  Len(old) + 1 + (IF compute_code_data_split(seg) = 0 THEN 1 ELSE 2) + Len(writable)

\* Mutant: no room is left for the writable segment.
AfterWritable_none(writable, woff) == woff

\* The writable segment follows the section header table, the appended one
\* follows it, both on a page; the program headers come last.
AfterWritable(writable, woff) ==
  IF writable = <<>> THEN woff ELSE align_up(woff + writable[1].bytes.len, PAGE)

AppendAt(c, over, seg, writable, old, r, woff, at) ==
  LaidOut(c, over, seg, writable, old, at, woff, align_up(at + seg.bytes.len, SlotLen),
          PhdrCount(seg, writable, old), r)

AppendFrom(c, over, seg, writable, old, r, woff) ==
  AppendAt(c, over, seg, writable, old, r, woff, AfterWritable(writable, woff))

\* .shstrtab and the section headers lie between the sections and the segments.
AppendAfter(c, over, seg, writable, old, r) ==
  AppendFrom(c, over, seg, writable, old, r,
             align_up(r.cursor + (Len(c.sections) + Len(writable) + 3) * (ShdrLen + 1), PAGE))

write_with_appended_segment_inner(c, phdrs, seg, over, writable) ==
  AppendAfter(c, over, seg, writable, SelectSeq(phdrs, LAMBDA p : p.type # "PHDR"),
              Reserve(c, over, OffsetOrder(c, over), HeaderLen))

-----------------------------------------------------------------------------
(* A section that grew: its content moves to an appended segment as it is, *)
(* and the old extent keeps one branch per function symbol in it.          *)

\* Each symbol's branch goes to its old offset in the new segment.
build_original_extent_stub(section, symbols, new_vaddr) ==
  LET entries == SetToSortSeq({a \in Range(symbols) :
                   a >= section.addr /\ a < section.addr + section.sh_size}, <)
  IN [len |-> section.sh_size,
      pieces |-> [k \in DOMAIN entries |->
        Code(entries[k] - section.addr, 1, << "trampoline", 0 >>, << new_vaddr - section.addr >>)]]

GrownSegment(vaddr, bytes) ==
  [vaddr |-> vaddr, bytes |-> bytes, code_len |-> 0, w |-> TRUE, x |-> TRUE]

GrownAt(c, i, vaddr) ==
  write_with_appended_segment_inner(c, c.phdrs, GrownSegment(vaddr, c.sections[i].bytes),
    [j \in {i} |-> build_original_extent_stub(c.sections[i], c.symbols, vaddr)], <<>>)

write_with_appended_segment(c, i) ==
  GrownAt(c, i, align_up(MaxOf({pick_append_vaddr(c.phdrs),
                                c.sections[i].addr + c.sections[i].sh_size}), PAGE))

Grown(c) == {i \in DOMAIN c.sections :
               c.sections[i].sh_size > 0 /\ c.sections[i].bytes.len > c.sections[i].sh_size}

InPlace(c, r) ==
  Written(r.panic, File(SectionHeaders(c, <<>>), c.phdrs, HeaderLen,
                        SectionChunks(c, <<>>, SourceOrder(c, <<>>))))

\* The program headers go back behind the file header, and the sections are
\* reserved in the order of the section table.
write(c) ==
  IF Grown(c) # {}
  THEN write_with_appended_segment(c, CHOOSE i \in Grown(c) : \A j \in Grown(c) : i <= j)
  ELSE InPlace(c, Reserve(c, <<>>, SourceOrder(c, <<>>), HeaderLen + Len(c.phdrs) * PhdrLen))

=============================================================================
