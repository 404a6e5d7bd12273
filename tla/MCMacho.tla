------------------------------ MODULE MCMacho -------------------------------
(* Instances of MachoCommit: a dylib at address 0 and an executable above  *)
(* __PAGEZERO, chained in each pointer format or classic, with and without *)
(* a signature and with more or less room behind each blob.                *)
EXTENDS MachoCommit

Seg(name, vm, vmsize, off, filesize) ==
  [name |-> name, vm |-> vm, vmsize |-> vmsize, off |-> off, filesize |-> filesize]

Sect(seg, kind, vm, off, size) == [seg |-> seg, kind |-> kind, vm |-> vm, off |-> off, size |-> size]

\* __TEXT and __DATA take two pages of the file each; __DATA has zero-fill
\* pages behind it, and __BSS is all zero-fill.
SegsOf(base, bss) ==
  (IF base > 0 THEN << Seg("__PAGEZERO", 0, base, 0, 0) >> ELSE <<>>)
  \o << Seg("__TEXT", base, 128, 0, 128), Seg("__DATA", base + 128, IF bss THEN 256 ELSE 192, 128, 128) >>
  \o (IF bss THEN << Seg("__BSS", base + 384, 64, 0, 0) >> ELSE <<>>)
  \o << Seg("__LINKEDIT", base + 448, 512, 256, 0) >>

SectsOf(base) ==
  << Sect("__TEXT", "code", base + 40, 40, 40), Sect("__TEXT", "init", base + 80, 80, 8),
     Sect("__TEXT", "unwind", base + 88, 88, 16),
     Sect("__DATA", "data", base + 128, 128, 128), Sect("__DATA", "zero", base + 256, 0, 64) >>

DataIndex(base) == IF base > 0 THEN 3 ELSE 2

\* The blobs of __LINKEDIT one behind the other, each with some slack.
Row(name, kind, off) == [name |-> name, kind |-> kind, off |-> off]
Nlist(kind, value) == [kind |-> kind, value |-> value]

Rows == << Row("header", "regular", 0), Row("f", "regular", 40), Row("g", "reexport", 0) >>

CfBlob(base, bss, format) ==
  LET head == 32 + 4 + 4 * Len(SegsOf(base, bss)) + 28
      page(start) == [page |-> PAGE, format |-> format, segment_offset |-> 128, pages |-> start]
  IN  [k |-> "cf", starts |-> (DataIndex(base) :> page(<< 8, 8 >>)), count |-> 2, format |-> IMPORT,
       cells |-> << Raw(1), Raw(1 + 512 * 4), Text("a"), Text("b") >>, head |-> head, symoff |-> 8]

WordsOf(base, format) ==
  LET rel == IF format \in LoadRelative THEN 0 ELSE base
      u   == stride(format)
  IN  { Piece(136, 8, RebaseWord(rel + 48, 16 \div u)), Piece(152, 8, BindWord(1, 4, 0)),
        Piece(200, 8, RebaseWord(rel, 8 \div u)), Piece(208, 8, RebaseWord(rel + 136, 0)) }

PointersOf(base) ==
  { Piece(136, 8, [k |-> "pointer", target |-> base + 48]), Piece(200, 8, [k |-> "pointer", target |-> base]),
    Piece(208, 8, [k |-> "pointer", target |-> base + 136]) }

\* [k, size, data] in the order of the file.
Laid(blobs) ==
  FoldLeft(LAMBDA acc, b : [lcs |-> acc.lcs @@ (b.data.k :> [off |-> acc.end, size |-> b.size]),
                            pieces |-> acc.pieces \cup {Piece(acc.end, b.size, b.data)},
                            end |-> acc.end + b.size],
           [lcs |-> << >>, pieces |-> {}, end |-> 256], blobs)

Bl(size, data) == [size |-> size, data |-> data]

Image(base, bss, format, sig, cfslack, trieslack) ==
  LET chained == format # "classic"
      cfb     == CfBlob(base, bss, format)
      blobs   ==
        (IF chained THEN << Bl(align_up(cfb.head + 16, 8) + cfslack, cfb) >>
         ELSE << Bl(8, [k |-> "reb", locs |-> << [seg |-> DataIndex(base), off |-> 8], [seg |-> DataIndex(base), off |-> 72],
                                                 [seg |-> DataIndex(base), off |-> 80] >>]) >>)
        \o << Bl(align_up(TrieLen(Rows), 8) + trieslack, [k |-> "trie", rows |-> Rows]), Bl(8, [k |-> "fs"]),
              Bl(64, [k |-> "sym", rows |-> << Nlist("sect", base), Nlist("sect", base + 48), Nlist("undef", 0), Nlist("abs", 256) >>]),
              Bl(8, [k |-> "ind"]), Bl(16, [k |-> "str"]) >>
        \o (IF sig THEN << Bl(24, [k |-> "sig"]) >> ELSE <<>>)
      laid    == Laid(blobs)
      segs    == SegsOf(base, bss)
  IN  [segs    |-> [i \in DOMAIN segs |-> IF segs[i].name = "__LINKEDIT" THEN [segs[i] EXCEPT !.filesize = laid.end - 256] ELSE segs[i]],
       sects   |-> SectsOf(base),
       lcs     |-> laid.lcs,
       entry   |-> IF base > 0 THEN 44 ELSE NoStart,
       content |-> laid.pieces \cup (IF chained THEN WordsOf(base, format) ELSE PointersOf(base))
                     \cup { Piece(40, 40, [k |-> "code"]), Piece(80, 8, [k |-> "init", offs |-> << 44, 60 >>]),
                            Piece(88, 16, [k |-> "unwind", offs |-> << 40, 60, 136 >>]) },
       len     |-> laid.end]

MCImages ==
  { Image(0, FALSE, "ptr64_offset", TRUE, 24, 0), Image(0, FALSE, "ptr64", FALSE, 56, 8),
    Image(128, TRUE, "ptr64", TRUE, 8, 8), Image(128, FALSE, "arm64e", FALSE, 0, 8),
    Image(0, TRUE, "userland", TRUE, 0, 0), Image(128, FALSE, "ptr64_offset", FALSE, 8, 0),
    Image(128, TRUE, "classic", TRUE, 0, 8), Image(0, FALSE, "classic", FALSE, 0, 0),
    Image(0, FALSE, "kernel_cache", FALSE, 0, 0) }

MCTargets == {48, 176}
MCSlots == {136, 184, 264, 312}

Imp(lib, name, addend, weak) == [lib |-> lib, name |-> name, addend |-> addend, weak |-> weak]

MCNewImports ==
  { Imp(1, "c", 0, FALSE), Imp(2, "a", 5, TRUE), Imp(200, "b", 9, FALSE), Imp(1, "c", 9, FALSE) }

=============================================================================
