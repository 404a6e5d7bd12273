---------------------------- MODULE MachoWriter -----------------------------
(***************************************************************************)
(* The two writers of container/macho_writer.rs that keep the list of      *)
(* segments: write_with_options, which patches bytes where they are, and   *)
(* write_with_text_growth_opts, which inserts whole pages before the first *)
(* section of __TEXT and then has to find everything that names an address *)
(* or an offset past them, through macho_symtab, macho_unwind,             *)
(* macho_dyld_info and macho_export_trie.                                  *)
(***************************************************************************)
EXTENDS Fixups

\* apply_raw_byte_overrides: refused when one ends past the file.
OverridesFit(f, overrides) == \A w \in Range(overrides) : w.at + w.len <= f.len

write_with_options(f, overrides) ==
  IF OverridesFit(f, overrides) THEN [f EXCEPT !.content = PutAll(@, overrides)] ELSE Failed("past the end")

-----------------------------------------------------------------------------
(* The load commands of a grow.                                            *)

Add(v, delta) == IF v = 0 THEN 0 ELSE v + delta

Straddles(g, at) == g.off <= at /\ at < g.off + g.filesize

\* A trailing segment is recognised by its address: one that is all zero-fill
\* has no file offset.
GrownSegment(g, gp, insert, delta) ==
  IF Straddles(g, gp) THEN [g EXCEPT !.vmsize = @ + delta, !.filesize = @ + delta]
  ELSE IF g.vm >= insert THEN [g EXCEPT !.vm = Add(@, delta), !.off = Add(@, delta)]
  ELSE g

\* shift_segment_sections.
GrownSection(c, g, gp, insert, delta) ==
  LET moves == IF Straddles(g, gp) THEN c.vm >= insert ELSE g.vm >= insert
  IN  IF moves THEN [c EXCEPT !.vm = Add(@, delta), !.off = Add(@, delta)] ELSE c

apply_growth_to_load_commands(f, gp, delta) ==
  LET insert == insert_vaddr(f)
  IN  [f EXCEPT !.segs  = [i \in DOMAIN @ |-> GrownSegment(@[i], gp, insert, delta)],
                !.sects = [i \in DOMAIN @ |-> GrownSection(@[i], SegNamed(f, @[i].seg), gp, insert, delta)],
                !.lcs   = [lc \in DOMAIN @ |-> [@[lc] EXCEPT !.off = Add(@, delta)]],
                !.entry = IF @ >= gp THEN @ + delta ELSE @]

-----------------------------------------------------------------------------
(* Values past the insert.  `layout` is the image before the grow.         *)

ShiftOffset(v, gp, delta) == IF v >= gp THEN v + delta ELSE v

\* The image offsets of initialisers (S_INIT_FUNC_OFFSETS), and the ones
\* that shift_unwind_info finds in __unwind_info.
ShiftOffsets(f, layout, kind, gp, delta) ==
  LET places == {ShiftOffset(c.off, gp, delta) : c \in {d \in Range(layout.sects) : d.kind = kind}}
  IN  [f EXCEPT !.content =
         {IF p.at \in places /\ p.data.k = kind
            THEN [p EXCEPT !.data.offs = [i \in DOMAIN @ |-> ShiftOffset(@[i], gp, delta)]]
            ELSE p : p \in @}]

\* The pointers that LC_DYLD_INFO lists: segment and offset in it.  A place
\* outside the file part of its segment is an error.
rebase_locations(f) == IF Has(f, "reb") THEN Blob(f, "reb").locs ELSE <<>>

OutsideFile(layout, loc) == loc.off + 8 > layout.segs[loc.seg].filesize

shift_rebased_pointers(f, layout, gp, delta) ==
  LET growth_va == insert_vaddr(layout)
      At(loc)   == ShiftOffset(layout.segs[loc.seg].off + loc.off, gp, delta)
      places    == {At(loc) : loc \in Range(rebase_locations(layout))}
  IN  [f EXCEPT !.content =
         {IF p.at \in places /\ p.data.k = "pointer" /\ p.data.target >= growth_va
            THEN [p EXCEPT !.data.target = @ + delta] ELSE p : p \in @}]

\* shift_defined_symbol_values compares addresses with the growth point.
ShiftedSymbol(r, gp, delta) == IF r.kind = "sect" /\ r.value >= gp THEN [r EXCEPT !.value = @ + delta] ELSE r

ShiftSymbols(f, layout, gp, delta) ==
  LET at == layout.lcs["sym"].off + delta
  IN  [f EXCEPT !.content =
         {IF p.at = at /\ p.data.k = "sym"
            THEN [p EXCEPT !.data.rows = [i \in DOMAIN @ |-> ShiftedSymbol(@[i], gp, delta)]]
            ELSE p : p \in @}]

-----------------------------------------------------------------------------
(* Blobs of __LINKEDIT that may outgrow their place.                       *)

\* strip_trailing_code_signature: the blob goes only if it ends the file.
strip_trailing_code_signature(f) ==
  IF ~Has(f, "sig") THEN f
  ELSE LET r   == f.lcs["sig"]
           cut == r.off + r.size = f.len
       IN  [f EXCEPT !.lcs = [lc \in DOMAIN @ \ {"sig"} |-> @[lc]],
                     !.len = IF cut THEN r.off ELSE @,
                     !.content = IF cut THEN Truncate(@, r.off) ELSE @]

extend_linkedit_segment(f, end) ==
  [f EXCEPT !.segs = [i \in DOMAIN @ |->
     IF @[i].name # "__LINKEDIT" THEN @[i]
     ELSE [@[i] EXCEPT !.filesize = end - f.segs[i].off, !.vmsize = align_up(end - f.segs[i].off, PAGE)]]]

Relocate(f, lc, blob) ==
  LET at == align_up(f.len, 8)
      g  == [f EXCEPT !.content = Put(@, at, blob.len, blob.data), !.len = at + blob.len,
                      !.lcs[lc] = [off |-> at, size |-> blob.len]]
  IN  extend_linkedit_segment(g, at + blob.len)

\* Mutant: the blob is written over whatever follows its place.
place_linkedit_blob(f, lc, orig, delta, blob) ==
  [f EXCEPT !.content = Put(@, orig.off + delta, blob.len, blob.data),
            !.lcs[lc].size = blob.len]

\* In place if it fits, and the rest of the place is zeroed.
place_or_relocate_linkedit_blob(f, lc, orig, delta, blob) ==
  IF blob.len <= orig.size
    THEN [f EXCEPT !.content = Put(@, orig.off + delta, orig.size, blob.data)]
    ELSE Relocate(strip_trailing_code_signature(f), lc, blob)

uleb128_size(v) == IF v < 128 THEN 1 ELSE 2

\* macho_export_trie::build: a node per name, of three bytes and the offset.
TrieLen(rows) == 3 + FoldLeft(LAMBDA n, r : n + 3 + uleb128_size(r.off), 0, rows)

build_trie(rows) == [len |-> TrieLen(rows), data |-> [k |-> "trie", rows |-> rows]]

\* Every export that is no reexport moves.
ShiftedExport(r, delta) == IF r.kind = "reexport" THEN r ELSE [r EXCEPT !.off = @ + delta]

ShiftExports(f, layout, delta) ==
  IF ~Has(layout, "trie") THEN f
  ELSE LET rows == Blob(layout, "trie").rows
       IN  place_or_relocate_linkedit_blob(f, "trie", layout.lcs["trie"], delta,
             build_trie([i \in DOMAIN rows |-> ShiftedExport(rows[i], delta)]))

\* canonicalize_linkedit leaves classic and signed images alone and lays the
\* others out in this order.
CanonicalOrder == << "cf", "trie", "fs", "sym", "ind", "str" >>

Canonicalizes(f) == Has(f, "cf") /\ Has(f, "sym") /\ ~Has(f, "reb") /\ ~Has(f, "sig")

\* Where each blob goes, and the end.
CanonicalPlan(f) ==
  LET kept == SelectSeq(CanonicalOrder, LAMBDA lc : Has(f, lc))
  IN  FoldLeft(LAMBDA plan, lc :
                 [at  |-> plan.at @@ (lc :> align_up(plan.end, 8)),
                  end |-> align_up(plan.end, 8) + f.lcs[lc].size],
               [at |-> << >>, end |-> Linkedit(f).off], kept)

canonicalize_linkedit(f) ==
  IF ~Canonicalizes(f) THEN f
  ELSE LET plan == CanonicalPlan(f)
           end  == align_up(plan.end, 8)
           g    == [f EXCEPT !.content = Truncate(@, Linkedit(f).off) \cup
                                {Piece(plan.at[lc], f.lcs[lc].size, Blob(f, lc)) : lc \in DOMAIN plan.at},
                             !.lcs = [lc \in DOMAIN @ |->
                                IF lc \in DOMAIN plan.at THEN [@[lc] EXCEPT !.off = plan.at[lc]] ELSE @[lc]],
                             !.len = end]
       IN  extend_linkedit_segment(g, end)

-----------------------------------------------------------------------------
\* The whole grow.  `slots` are the re-encoded fixups; `cfblob` is their blob
\* or an error value when there is none.
write_with_text_growth_opts(f, gp, delta, payload, slots, cfblob) ==
  IF payload > delta \/ \E loc \in Range(rebase_locations(f)) : OutsideFile(f, loc) THEN Failed("grow")
  ELSE LET opened  == [f EXCEPT !.content = IF payload = 0 THEN Spread(@, gp, delta)
                                            ELSE Put(Spread(@, gp, delta), gp, payload, [k |-> "payload"]),
                                !.len = @ + delta]
           growing == apply_growth_to_load_commands(opened, gp, delta)
           patched == write_with_options(growing, slots)
       IN  IF IsErr(patched) THEN patched
           ELSE LET inits    == ShiftOffsets(patched, f, "init", gp, delta)
                    pointers == shift_rebased_pointers(inits, f, gp, delta)
                    unwind   == ShiftOffsets(pointers, f, "unwind", gp, delta)
                    exports  == ShiftExports(unwind, f, delta)
                    symbols  == ShiftSymbols(exports, f, gp, delta)
                    fixups   == IF IsErr(cfblob) THEN symbols
                                ELSE place_or_relocate_linkedit_blob(symbols, "cf", f.lcs["cf"], delta, cfblob)
                IN  canonicalize_linkedit(fixups)

=============================================================================
