------------------------------- MODULE MCElf --------------------------------
(***************************************************************************)
(* Small shared objects for ElfCommit: no, one or two initialiser slots,   *)
(* one or several terminators in .dynamic, with and without DT_RELACOUNT   *)
(* and .gnu.version, stripped or not, and with the section table in or out *)
(* of file order.                                                          *)
(***************************************************************************)
EXTENDS ElfCommit

NameSet == {"lib", "lib2", "imp", "f", "g", "new"}

\* "new" collides with the exported "f".
Hashes == [n \in NameSet |-> CASE n \in {"f", "new"} -> 7 [] n = "g" -> 8 [] OTHER -> 9]

SumOf(q) == FoldLeft(LAMBDA a, b : a + b, 0, q)

\* Offset of the k-th of consecutive contents, the first at start.
OffsetIn(start, lens, k) == start + SumOf(SubSeq(lens, 1, k - 1))

FnLen == 2
TextFn(k) == Code((k - 1) * FnLen, FnLen, << "input", k >>, <<>>)
Text == [len |-> 4 * FnLen, pieces |-> [k \in 1 .. 4 |-> TextFn(k)]]

FrontLen == HeaderLen + 4 * PhdrLen

Symbols(text) ==
  << [name |-> 0, value |-> 0], [name |-> 2, value |-> 0],
     [name |-> 3, value |-> text + 2 * FnLen], [name |-> 4, value |-> text + 3 * FnLen] >>

StringRows == << "", "lib", "imp", "f", "g" >>

RelaRows(ctors, counted, init, text, got) ==
  LET slot(k) == [at |-> init + (k - 1) * SlotLen, type |-> "RELATIVE", sym |-> 0,
                  addend |-> text + (k - 1) * FnLen]
      sym     == [at |-> got, type |-> "GLOB_DAT", sym |-> 1, addend |-> 0]
      data    == [at |-> got + SlotLen, type |-> "RELATIVE", sym |-> 0, addend |-> text]
  IN IF counted THEN [k \in 1 .. ctors |-> slot(k)] \o << data, sym >>
     ELSE << sym >> \o [k \in 1 .. ctors |-> slot(k)] \o << data >>

DynRows(o, v) ==
  << Tag("NEEDED", 1), Tag("STRTAB", v.dynstr), Tag("STRSZ", 5), Tag("SYMTAB", v.dynsym),
     Tag("GNU_HASH", v.hash), Tag("RELA", v.rela), Tag("RELASZ", (o.ctors + 2) * RelaLen) >>
  \o (IF o.versym THEN << Tag("VERSYM", v.versym) >> ELSE <<>>)
  \o (IF o.counted THEN << Tag("RELACOUNT", o.ctors + 1) >> ELSE <<>>)
  \o (IF o.ctors > 0 THEN << Tag("INIT_ARRAY", v.init), Tag("INIT_ARRAYSZ", o.ctors * SlotLen) >>
      ELSE <<>>)
  \o Nulls(o.nulls)

Section(name, addr, off, len) == [name |-> name, addr |-> addr, off |-> off, size |-> len]

\* Lengths of the contents of the first and of the second segment.
ReadLens(o) == << 24, 5, IF o.versym THEN 4 ELSE 0, 9, (o.ctors + 2) * RelaLen, 8 >>
DynCount(o) == Len(DynRows(o, [dynstr |-> 0, dynsym |-> 0, hash |-> 0, rela |-> 0,
                               versym |-> 0, init |-> 0]))
WriteLens(o) == << o.ctors * SlotLen, DynCount(o) * DynLen, 2 * SlotLen >>

InputAt(o, ro, rw, shift) ==
  LET Off(k) == OffsetIn(ro, ReadLens(o), k)
      Dat(k) == OffsetIn(rw, WriteLens(o), k)
      v   == [dynsym |-> Off(1), dynstr |-> Off(2), versym |-> Off(3), hash |-> Off(4),
              rela |-> Off(5), init |-> Dat(1) + shift]
      all == << << ".dynsym", Off(1), 24, "dynsym", Symbols(Off(6)), 0 >>,
                << ".dynstr", Off(2), 5, "dynstr", StringRows, 0 >>,
                << ".gnu.version", Off(3), ReadLens(o)[3], "versym", << 0, 1, 1, 1 >>, 0 >>,
                << ".gnu.hash", Off(4), 9, "hash",
                   build_gnu_hash(<< "f", "g" >>, 2), 0 >>,
                << ".rela.dyn", Off(5), ReadLens(o)[5], "rela",
                   RelaRows(o.ctors, o.counted, v.init, Off(6), Dat(3) + shift), 0 >>,
                << ".init_array", Dat(1), WriteLens(o)[1], "slots",
                   [k \in 1 .. o.ctors |-> 0], shift >>,
                << ".dynamic", Dat(2), WriteLens(o)[2], "dynamic", DynRows(o, v), shift >>,
                << ".got", Dat(3), WriteLens(o)[3], "data", <<>>, shift >>,
                << ".symtab", Dat(4), IF o.stripped THEN 0 ELSE 24, "symtab",
                   IF o.stripped THEN <<>> ELSE [k \in 1 .. 4 |-> Off(6) + (k - 1) * FnLen], 0 >> >>
      here == SelectSeq(all, LAMBDA e : e[3] > 0)
      secs == << Section(".text", Off(6), Off(6), 8) >>
              \o [k \in DOMAIN here |->
                    Section(here[k][1], here[k][2] + here[k][6], here[k][2], here[k][3])]
  IN [sections |-> IF o.sorted THEN SortSeq(secs, LAMBDA a, b : a.off < b.off) ELSE secs,
      phdrs  |-> << Phdr("PHDR", HeaderLen, HeaderLen, 4 * PhdrLen, FALSE, FALSE),
                    Phdr("LOAD", 0, 0, rw, FALSE, TRUE),
                    Phdr("LOAD", rw + shift, rw, Dat(4) - rw, TRUE, FALSE),
                    Phdr("DYNAMIC", Dat(2) + shift, Dat(2), WriteLens(o)[2], TRUE, FALSE) >>,
      phoff  |-> HeaderLen,
      chunks |-> Shifted(Text.pieces, Off(6))
                 \o [k \in DOMAIN here |->
                       Piece(here[k][2], here[k][3], here[k][4], here[k][5])]]

\* The second segment follows the first in the file, one page up in memory.
Input(o) == InputAt(o, FrontLen, OffsetIn(FrontLen, ReadLens(o), 7), 2 * PAGE)

Options ==
  [ctors : 0 .. 2, nulls : {1, 3}, counted : BOOLEAN, versym : {TRUE},
   stripped : {FALSE}, sorted : {TRUE}]
  \cup [ctors : {1}, nulls : {2}, counted : {TRUE}, versym : BOOLEAN,
        stripped : BOOLEAN, sorted : BOOLEAN]

InputFiles == {Input(o) : o \in Options}

AnyEdits == {[fn |-> 3, grow |-> 0]}
GrowingEdits == {[fn |-> 3, grow |-> 1]}

=============================================================================
