------------------------------ MODULE ElfFile -------------------------------
(***************************************************************************)
(* An ELF64 shared object as three parties see it: the writer lays chunks  *)
(* of content at file offsets, the reader (container/reader.rs) takes a    *)
(* table from the section of that name, and the dynamic linker, which is   *)
(* external, follows PT_DYNAMIC and the addresses its tags hold through    *)
(* the PT_LOAD segments.  The two ways of finding a table need not agree.  *)
(*                                                                         *)
(* Lengths and addresses count words of four bytes.  A string takes one    *)
(* word and a version index is padded to one.  Content is a record of a    *)
(* kind and rows; of code only the function it runs and the functions it   *)
(* calls, as displacements, are kept.  NOBITS sections and relocations     *)
(* other than RELATIVE and one symbolic type are left out.                 *)
(***************************************************************************)
EXTENDS Integers, Sequences, FiniteSets, SequencesExt

CONSTANTS
  PAGE,    \* APPEND_PAGE_ALIGN, the page of the appended segments
  Names,   \* names a symbol or a library may have
  HashOf   \* gnu_hash of a name; two names may collide

ASSUME ElfAssumption == PAGE \in Nat \ {0} /\ HashOf \in [Names -> Nat]

HeaderLen == 16   \* Elf64_Ehdr
PhdrLen   == 14   \* Elf64_Phdr
ShdrLen   == 16   \* Elf64_Shdr
DynLen    == 4    \* Elf64_Dyn
SymLen    == 6    \* Elf64_Sym
RelaLen   == 6    \* Elf64_Rela
SlotLen   == 2    \* a pointer, and the alignment of most tables

align_up(value, align) == ((value + align - 1) \div align) * align

-----------------------------------------------------------------------------
(* Content.                                                                *)

Piece(at, len, kind, rows) == [at |-> at, len |-> len, kind |-> kind, rows |-> rows]

\* A buffer: its length and the pieces in it, in order.
NoBytes == [len |-> 0, pieces |-> <<>>]

Blob(len, kind, rows) == [len |-> len, pieces |-> << Piece(0, len, kind, rows) >>]

DynamicBytes(rows) == Blob(DynLen * Len(rows), "dynamic", rows)
RelaBytes(rows)    == Blob(RelaLen * Len(rows), "rela", rows)

\* The table a section's bytes hold.
Rows(bytes) == IF bytes.pieces = <<>> THEN <<>> ELSE bytes.pieces[1].rows

\* The same bytes with other entries in the table.
WithRows(bytes, rows) == [bytes EXCEPT !.pieces[1].rows = rows]

Tag(name, value) == [tag |-> name, value |-> value]
Null == Tag("NULL", 0)

Function(id, calls) == [id |-> id, calls |-> calls]
Code(at, len, id, calls) == Piece(at, len, "code", << Function(id, calls) >>)

-----------------------------------------------------------------------------
(* The reader.  A file is [sections, phdrs, phoff, chunks]; a container    *)
(* holds the sections with their bytes, the program headers, the dynamic   *)
(* tags of the .dynamic section and the symbols.                           *)

Inside(chunk, section) ==
  chunk.at >= section.off /\ chunk.at + chunk.len <= section.off + section.size

SectionBytes(file, section) ==
  LET own == SelectSeq(file.chunks, LAMBDA c : Inside(c, section))
  IN [len |-> section.size,
      pieces |-> [k \in DOMAIN own |-> [own[k] EXCEPT !.at = @ - section.off]]]

HasSection(sections, name) == \E i \in DOMAIN sections : sections[i].name = name

SectionIndex(sections, name) ==
  CHOOSE i \in DOMAIN sections :
    /\ sections[i].name = name
    /\ \A j \in 1 .. i - 1 : sections[j].name # name

raw_section_bytes(sections, name) ==
  IF HasSection(sections, name) THEN Rows(sections[SectionIndex(sections, name)].bytes)
  ELSE <<>>

\* A dynamic symbol is taken only if .symtab has no symbol of its index.
lift_symbols(sections) ==
  LET static  == raw_section_bytes(sections, ".symtab")
      dynamic == raw_section_bytes(sections, ".dynsym")
      more    == SubSeq(dynamic, Len(static) + 1, Len(dynamic))
  IN SelectSeq(static \o [k \in DOMAIN more |-> more[k].value], LAMBDA a : a # 0)

ReadSections(file) ==
  [i \in DOMAIN file.sections |->
     [name |-> file.sections[i].name, addr |-> file.sections[i].addr,
      off |-> file.sections[i].off, sh_size |-> file.sections[i].size,
      bytes |-> SectionBytes(file, file.sections[i])]]

ContainerOf(sections, phdrs) ==
  [sections |-> sections, phdrs |-> phdrs,
   dynamic |-> raw_section_bytes(sections, ".dynamic"),
   symbols |-> lift_symbols(sections)]

read(file) == ContainerOf(ReadSections(file), file.phdrs)

-----------------------------------------------------------------------------
(* The dynamic linker (external).                                          *)

Fault == << "fault", 0 >>

\* File offset of address v, when a segment with the wanted rights maps it.
Segments(file, v) ==
  {p \in Range(file.phdrs) :
     p.type = "LOAD" /\ v >= p.vaddr /\ v < p.vaddr + p.filesz}

OffsetsOf(file, v) == {p.off + (v - p.vaddr) : p \in Segments(file, v)}

ChunksAt(file, v, kind) ==
  {k \in DOMAIN file.chunks :
     file.chunks[k].kind = kind /\ file.chunks[k].at \in OffsetsOf(file, v)}

\* A chunk at that address that the segment maps to its end.
TableAt(file, v, kind) ==
  LET found == {k \in ChunksAt(file, v, kind) :
                  \/ file.chunks[k].len = 0
                  \/ Segments(file, v + file.chunks[k].len - 1) = Segments(file, v)}
  IN IF found = {} THEN <<>> ELSE file.chunks[CHOOSE k \in found : TRUE].rows

\* The tags up to the terminator; none at all if it is missing.
Dynamic(file) ==
  LET rows  == TableAt(file, (CHOOSE p \in Range(file.phdrs) : p.type = "DYNAMIC").vaddr,
                       "dynamic")
      nulls == {k \in DOMAIN rows : rows[k].tag = "NULL"}
  IN IF nulls = {} THEN <<>>
     ELSE SelectSeq(SubSeq(rows, 1, CHOOSE k \in nulls : \A j \in nulls : k <= j),
                    LAMBDA e : e.tag # "NULL")

ValueOf(dyn, name) ==
  IF \E k \in DOMAIN dyn : dyn[k].tag = name
  THEN dyn[CHOOSE k \in DOMAIN dyn : dyn[k].tag = name].value ELSE -1

NameAt(strings, off) == IF off >= 0 /\ off < Len(strings) THEN strings[off + 1] ELSE ""

\* The code at address v, none where a call would fault.
CodeAt(file, v) ==
  IF \E p \in Segments(file, v) : ~p.x THEN <<>> ELSE TableAt(file, v, "code")

\* The functions that run, in order, when address v is called; calls nest no
\* deeper than a chain of wrappers.
Call(file, v) ==
  LET Step(code, a, Rec(_)) ==
        IF code = <<>> THEN << Fault >>
        ELSE IF code[1].calls = <<>> THEN << code[1].id >>
        ELSE FlattenSeq([k \in DOMAIN code[1].calls |-> Rec(a + code[1].calls[k])])
      Run[d \in Nat, a \in Int] ==
        IF d = 0 THEN << Fault >>
        ELSE Step(CodeAt(file, a), a, LAMBDA b : Run[d - 1, b])
  IN Run[6, v]

\* Index of the symbol a lookup by name finds, 0 for none: the bloom filter,
\* the chain's hashes, the name itself, and a version entry for the index.
Lookup(name, hash, syms, strings, versions) ==
  LET hits == {k \in DOMAIN hash.chain :
                 /\ hash.chain[k] = HashOf[name]
                 /\ NameAt(strings, syms[hash.base + k].name) = name
                 /\ syms[hash.base + k].value # 0
                 /\ versions = <<>> \/ hash.base + k <= Len(versions)}
  IN IF HashOf[name] \notin hash.bloom \/ hash.bucket # hash.base \/ hits = {} THEN 0
     ELSE hash.base + CHOOSE k \in hits : \A j \in hits : k <= j

\* What a relocation stores.  The first DT_RELACOUNT are taken to be RELATIVE.
Stored(row, relative, syms, strings) ==
  IF relative \/ row.type = "RELATIVE" THEN [addr |-> row.addend, sym |-> ""]
  ELSE [addr |-> 0, sym |-> NameAt(strings, syms[row.sym + 1].name)]

Writable(file, v) == Segments(file, v) # {} /\ \A p \in Segments(file, v) : p.w

Relocations(file, dyn, syms, strings) ==
  LET rows == TableAt(file, ValueOf(dyn, "RELA"), "rela")
      n    == ValueOf(dyn, "RELASZ") \div RelaLen
  IN [k \in 1 .. n |->
        [at |-> rows[k].at, writable |-> Writable(file, rows[k].at),
         value |-> Stored(rows[k], k <= ValueOf(dyn, "RELACOUNT"), syms, strings)]]

\* The address in a slot, -1 unless a relocation has put one there.
SlotValue(relocs, v) ==
  LET own == {k \in DOMAIN relocs : relocs[k].at = v /\ relocs[k].writable}
  IN IF own = {} THEN -1
     ELSE relocs[CHOOSE k \in own : \A j \in own : j <= k].value.addr

\* What the process sees: the libraries loaded, what a call of each exported
\* name runs, what each initialiser slot runs, and every other relocation.
Loaded(file, dyn, syms, strings, relocs) ==
  LET hash   == TableAt(file, ValueOf(dyn, "GNU_HASH"), "hash")
      versions == TableAt(file, ValueOf(dyn, "VERSYM"), "versym")
      Found(n) == IF hash = <<>> THEN 0 ELSE Lookup(n, hash[1], syms, strings, versions)
      slots  == ValueOf(dyn, "INIT_ARRAY")
      size   == IF slots = -1 THEN 0 ELSE ValueOf(dyn, "INIT_ARRAYSZ")
      needed == SelectSeq(dyn, LAMBDA e : e.tag = "NEEDED")
      others == SelectSeq(relocs, LAMBDA r : r.at < slots \/ r.at >= slots + size)
  IN [needed  |-> [k \in DOMAIN needed |-> NameAt(strings, needed[k].value)],
      exports |-> [n \in {n \in Names : Found(n) # 0} |-> Call(file, syms[Found(n)].value)],
      inits   |-> [k \in 1 .. size \div SlotLen |->
                     Call(file, SlotValue(relocs, slots + (k - 1) * SlotLen))],
      others  |-> others]

LoadedStrings(file, dyn) ==
  SubSeq(TableAt(file, ValueOf(dyn, "STRTAB"), "dynstr"), 1, ValueOf(dyn, "STRSZ"))

LoadedWith(file, dyn, syms, strings) ==
  Loaded(file, dyn, syms, strings, Relocations(file, dyn, syms, strings))

LoadedDynamic(file, dyn) ==
  LoadedWith(file, dyn, TableAt(file, ValueOf(dyn, "SYMTAB"), "dynsym"),
             LoadedStrings(file, dyn))

View(file) == LoadedDynamic(file, Dynamic(file))

=============================================================================
