----------------------------- MODULE ElfCommit ------------------------------
(***************************************************************************)
(* Editing sessions on an ELF shared object and what they write            *)
(* (rewrite/editor.rs, the ELF side of BinaryState and BinaryEditor).      *)
(* Calls queue functions, exports, initialisers, library dependencies and  *)
(* text edits; the commit rebuilds the dynamic tables inside the appended  *)
(* segment one after another, each from the sizes and the staged .dynamic  *)
(* the one before it left, and hands the result to ElfWriter.  The output  *)
(* may be opened again.                                                    *)
(*                                                                         *)
(* Where the queued items go is Session's subject and is kept here only as *)
(* far as the tables depend on it.  A call that fails changes nothing and  *)
(* is a stuttering step.  Writable data is queued before anything is       *)
(* appended, as add_writable_data asks; Session shows what the other order *)
(* does.                                                                   *)
(***************************************************************************)
EXTENDS ElfWriter

CONSTANTS
  Inputs,       \* the files a first session may open
  Libraries,    \* libraries a caller may add or remove
  ExportNames,  \* names a caller may export a new function under
  BodyLens,     \* lengths of a new function
  TextEdits,    \* edits of the lifted .text: [fn, grow]
  WrapperLen,   \* words of an initialiser's wrapper
  HEADROOM,     \* HEADROOM_NULL_SLOTS
  MaxCalls,     \* bound on the calls of all sessions together
  MaxSessions   \* bound on the sessions

\* Sections with bytes lie behind the file header and apart from one another.
SectionsApart(sections) ==
  \A i \in DOMAIN sections :
    sections[i].size > 0 =>
      /\ sections[i].off >= HeaderLen
      /\ \A j \in DOMAIN sections \ {i} :
           \/ sections[j].size = 0
           \/ sections[i].off + sections[i].size <= sections[j].off
           \/ sections[j].off + sections[j].size <= sections[i].off

ASSUME CommitAssumption ==
  /\ \A f \in Inputs :
       /\ f.sections \in Seq([name : STRING, addr : Nat, off : Nat, size : Nat])
       /\ SectionsApart(f.sections)
  /\ Libraries \cup ExportNames \subseteq Names
  /\ BodyLens \subseteq Nat \ {0}
  /\ {WrapperLen, HEADROOM, MaxCalls, MaxSessions} \subseteq Nat

VARIABLES
  file,      \* the file on disk
  seen,      \* what a process that loads it sees
  s,         \* the editing session
  open,      \* whether it is still open
  outcome,   \* how the last commit ended: "ok", "error" or "panic"
  promised,  \* what it has promised of the next file
  calls,     \* calls made
  sessions   \* sessions opened

vars == <<file, seen, s, open, outcome, promised, calls, sessions>>

\* The functions the calls bring in.
Ids == {"body", "edited"} \X (1 .. MaxCalls)

LV == INSTANCE LoaderView WITH view <- seen, plan <- promised,
                               ok <- outcome = "ok"

NewSession(c) ==
  [c |-> c, appended |-> FALSE, vaddr |-> 0, bytes |-> NoBytes, exports |-> <<>>,
   writable |-> <<>>, overrides |-> <<>>, slots |-> <<>>, deps |-> <<>>, text |-> NoBytes]

Init ==
  /\ file \in Inputs
  /\ seen = View(file)
  /\ s = NewSession(read(file))
  /\ open = TRUE
  /\ outcome = "ok"
  /\ promised = LV!Promise(seen)
  /\ calls = 0
  /\ sessions = 1

-----------------------------------------------------------------------------
(* Queueing.                                                               *)

\* Page-aligned above every segment and above what is placed already.
pick_vaddr(t) ==
  MaxOf({PAGE,
         align_up(MaxOf({pick_append_vaddr(t.c.phdrs)}
                        \cup {t.writable[k].vaddr + t.writable[k].bytes.len :
                                k \in DOMAIN t.writable}), PAGE)})

WithSegment(t) ==
  IF t.appended THEN t ELSE [t EXCEPT !.appended = TRUE, !.vaddr = pick_vaddr(t)]

NextAddress(t) == WithSegment(t).vaddr + t.bytes.len

\* callees: the addresses the function calls, resolved where it is placed.
add_function(t, len, id, callees) ==
  LET here == NextAddress(t)
      code == Code(t.bytes.len, len, id, [k \in DOMAIN callees |-> callees[k] - here])
  IN [WithSegment(t) EXCEPT
        !.bytes = [len |-> @.len + len, pieces |-> Append(@.pieces, code)],
        !.c.symbols = Append(@, here)]

add_function_exported(t, name, len, id) ==
  [add_function(t, len, id, <<>>) EXCEPT
     !.exports = Append(@, [name |-> name, vaddr |-> NextAddress(t)])]

\* Staged bytes of a section, the latest first.
effective_section_bytes(t, i) ==
  LET staged == {k \in DOMAIN t.overrides : t.overrides[k].index = i}
  IN IF staged = {} THEN t.c.sections[i].bytes
     ELSE t.overrides[MaxOf(staged)].bytes

InitArray(t) == SectionIndex(t.c.sections, ".init_array")
RelaDyn(t)   == SectionIndex(t.c.sections, ".rela.dyn")

SlotCount(t) ==
  IF HasSection(t.c.sections, ".init_array")
  THEN t.c.sections[InitArray(t)].bytes.len \div SlotLen ELSE 0

SlotIndex(t, position) == IF position = "First" THEN 0 ELSE SlotCount(t) - 1

SlotVaddr(t, position) ==
  t.c.sections[InitArray(t)].addr + SlotIndex(t, position) * SlotLen

SlotRows(t) == Rows(effective_section_bytes(t, RelaDyn(t)))

\* The RELATIVE entries of the hijacked slot.
SlotEntries(t, position) ==
  IF SlotCount(t) = 0 \/ ~HasSection(t.c.sections, ".rela.dyn") THEN {}
  ELSE {k \in DOMAIN SlotRows(t) :
          /\ SlotRows(t)[k].at = SlotVaddr(t, position)
          /\ SlotRows(t)[k].type = "RELATIVE"}

\* The body, then a wrapper that calls the body and what the slot held; the
\* slot's relocation is staged to point at the wrapper.
Hijack(t, k, len, id) ==
  LET body    == add_function(t, len, id, <<>>)
      wrapped == add_function(body, WrapperLen, << "wrapper", 0 >>,
                              << NextAddress(t), SlotRows(t)[k].addend >>)
  IN [wrapped EXCEPT !.overrides = Append(@,
        [index |-> RelaDyn(t),
         bytes |-> WithRows(effective_section_bytes(t, RelaDyn(t)),
                     [SlotRows(t) EXCEPT ![k].addend = NextAddress(body)])])]

AppendInitialiser(t, len, id) ==
  [add_function(t, len, id, <<>>) EXCEPT !.slots = Append(@, NextAddress(t))]

WithDynamic(c, rows) ==
  LET i == SectionIndex(c.sections, ".dynamic")
  IN [c EXCEPT !.dynamic = rows, !.sections[i].bytes = WithRows(c.sections[i].bytes, rows)]

\* DT_NEEDED entries of the section that name the library.
remove_library_dependency_elf(t, name) ==
  LET strings == raw_section_bytes(t.c.sections, ".dynstr")
      rows    == remove_dynamic_entries(t.c.dynamic, "NEEDED",
                   {v \in {e.value : e \in Range(t.c.dynamic)} : name_at_offset(strings, v) = name})
  IN [t EXCEPT !.c = WithDynamic(t.c, rows)]

NeededNames(t) ==
  {name_at_offset(raw_section_bytes(t.c.sections, ".dynstr"), e.value) :
     e \in {e \in Range(t.c.dynamic) : e.tag = "NEEDED"}}

\* The lifted .text: the section's bytes until an edit gives others.
LiftText(t) ==
  IF t.text # NoBytes THEN t.text ELSE t.c.sections[SectionIndex(t.c.sections, ".text")].bytes

FunctionAt(text, fn) == text.pieces[fn].rows[1]

\* Function fn gets another body, grow words longer; the rest moves up.
EditFunction(text, edit, id) ==
  [len |-> text.len + edit.grow,
   pieces |-> [k \in DOMAIN text.pieces |->
     IF k = edit.fn
     THEN Code(text.pieces[k].at, text.pieces[k].len + edit.grow, id, FunctionAt(text, k).calls)
     ELSE [text.pieces[k] EXCEPT !.at = IF k > edit.fn THEN @ + edit.grow ELSE @]]]

-----------------------------------------------------------------------------
(* Commit.  w is the work in progress: the segment being filled, where the *)
(* tables packed into it went, the staged overrides and program headers.   *)

Work(t, bytes) ==
  [vaddr |-> t.vaddr, bytes |-> bytes, at |-> [x \in {} |-> 0], phdrs |-> t.c.phdrs,
   code |-> bytes.len,
   over |-> [i \in {t.overrides[k].index : k \in DOMAIN t.overrides} |->
               effective_section_bytes(t, i)]]

\* Code and tables must not share a page.
NeedsSplit(t) ==
  t.bytes.len > 0 /\ (t.exports # <<>> \/ t.deps # <<>> \/ t.slots # <<>>)

\* Mutant: the tables start right behind the code.
PaddedCode_none(t) == Work(t, t.bytes)

PaddedCode(t) ==
  Work(t, IF NeedsSplit(t) THEN [t.bytes EXCEPT !.len = align_up(@, PAGE)] ELSE t.bytes)

DynamicIndex(t) == SectionIndex(t.c.sections, ".dynamic")

Stage(w, i, bytes) == [w EXCEPT !.over = [j \in DOMAIN @ \cup {i} |-> IF j = i THEN bytes ELSE @[j]]]
Unstage(w, i) == [w EXCEPT !.over = [j \in DOMAIN @ \ {i} |-> @[j]]]

Strings(t) ==
  FoldLeft(append_dynstr, raw_section_bytes(t.c.sections, ".dynstr"),
           [k \in DOMAIN t.exports |-> t.exports[k].name] \o t.deps)

ExtendedSymbols(t) ==
  LET old == raw_section_bytes(t.c.sections, ".dynsym")
      first == Len(raw_section_bytes(t.c.sections, ".dynstr"))
  IN old \o [k \in DOMAIN t.exports |->
               [name |-> first + k - 1, value |-> t.exports[k].vaddr]]

SymbolBase(t) == raw_section_bytes(t.c.sections, ".gnu.hash")[1].base

HashableNames(t, symbols, strings) ==
  [k \in 1 .. Len(symbols) - SymbolBase(t) |->
     name_at_offset(strings, symbols[SymbolBase(t) + k].name)]

Versions(t) ==
  raw_section_bytes(t.c.sections, ".gnu.version") \o [k \in DOMAIN t.exports |-> 1]

PackHash(w, hash) == Pack(w, "GNU_HASH", Blob(HashLen(hash), "hash", hash), SlotLen)

\* .dynsym, .dynstr, .gnu.version and .gnu.hash, or .dynstr alone.
PackTables(t, w, symbols, strings) ==
  IF t.exports = <<>> THEN Pack(w, "STRTAB", Blob(Len(strings), "dynstr", strings), 1)
  ELSE PackHash(
         Pack(Pack(Pack(w, "SYMTAB", Blob(SymLen * Len(symbols), "dynsym", symbols), SlotLen),
                   "STRTAB", Blob(Len(strings), "dynstr", strings), 1),
              "VERSYM", Blob(Len(Versions(t)), "versym", Versions(t)), 1),
         build_gnu_hash(HashableNames(t, symbols, strings), SymbolBase(t)))

\* One DT_NEEDED for each new library, by its offset in the new .dynstr.
NeededTags(t) ==
  [k \in DOMAIN t.deps |->
     Tag("NEEDED", Len(raw_section_bytes(t.c.sections, ".dynstr")) + Len(t.exports) + k - 1)]

\* The tags move to the new tables; only new libraries lengthen the list.
RetagTables(t, w, n) ==
  LET updated == update_dynamic_tags(t.c.dynamic,
                   [x \in DOMAIN w.at \cup {"STRSZ"} |-> IF x = "STRSZ" THEN n ELSE w.at[x]])
  IN Stage(w, DynamicIndex(t),
           DynamicBytes(IF t.deps = <<>> THEN updated
                        ELSE insert_dynamic_tags_growing(updated, NeededTags(t))))

extend_segment_for_exports(t, w) ==
  IF t.exports = <<>> /\ t.deps = <<>> THEN w
  ELSE RetagTables(t, PackTables(t, w, ExtendedSymbols(t), Strings(t)), Len(Strings(t)))

OldSlots(t) == IF SlotCount(t) = 0 THEN <<>> ELSE Rows(t.c.sections[InitArray(t)].bytes)

\* An entry for a slot of the old .init_array follows it to the new one.
MovedEntry(t, row, new_vaddr) ==
  IF /\ SlotCount(t) > 0
     /\ row.at >= t.c.sections[InitArray(t)].addr
     /\ row.at < t.c.sections[InitArray(t)].addr + SlotCount(t) * SlotLen
  THEN [row EXCEPT !.at = new_vaddr + (@ - t.c.sections[InitArray(t)].addr)] ELSE row

HasTag(rows, name) == \E k \in DOMAIN rows : rows[k].tag = name

\* Mutant: the new entries go to the end.
RelativePrefix_all(t, rows) == Len(rows)

\* Entries before which the new ones go: all of them if there is no count.
RelativePrefix(t, rows) ==
  IF HasTag(t.c.dynamic, "RELACOUNT")
  THEN MaxOf({n \in 0 .. Len(rows) : n <= ValueOf(t.c.dynamic, "RELACOUNT")}) ELSE Len(rows)

CombinedRela(t, rows, new_vaddr) ==
  LET moved == [k \in DOMAIN rows |-> MovedEntry(t, rows[k], new_vaddr)]
      n     == RelativePrefix(t, rows)
      added == [k \in DOMAIN t.slots |->
                  [at |-> new_vaddr + (SlotCount(t) + k - 1) * SlotLen, type |-> "RELATIVE",
                   sym |-> 0, addend |-> t.slots[k]]]
  IN SubSeq(moved, 1, n) \o added \o SubSeq(moved, n + 1, Len(moved))

\* The staged .dynamic if there is one, so that its new libraries stay.
StartingDynamic(t, w) ==
  IF DynamicIndex(t) \in DOMAIN w.over THEN Rows(w.over[DynamicIndex(t)]) ELSE t.c.dynamic

SlotTags(t, w, size) ==
  [RELA |-> w.at["RELA"], RELASZ |-> size,
   RELACOUNT |-> IF HasTag(t.c.dynamic, "RELACOUNT")
                 THEN ValueOf(t.c.dynamic, "RELACOUNT") + Len(t.slots) ELSE Len(t.slots),
   INIT_ARRAY |-> w.at["INIT_ARRAY"],
   INIT_ARRAYSZ |-> (SlotCount(t) + Len(t.slots)) * SlotLen]

RetagSlots(t, w, start, tags) ==
  LET updated == update_dynamic_tags(start, tags)
  IN Stage(w, DynamicIndex(t),
           DynamicBytes(IF HasTag(start, "INIT_ARRAY") THEN updated
                        ELSE insert_dynamic_tags_growing(updated,
                               << Tag("INIT_ARRAY", tags.INIT_ARRAY),
                                  Tag("INIT_ARRAYSZ", tags.INIT_ARRAYSZ) >>)))

PackRela(t, w, rela) ==
  LET packed == Pack(w, "RELA", RelaBytes(rela), SlotLen)
  IN Unstage(RetagSlots(t, packed, StartingDynamic(t, w), SlotTags(t, packed, RelaLen * Len(rela))),
             RelaDyn(t))

PackSlots(t, w) ==
  Pack(w, "INIT_ARRAY", Blob((SlotCount(t) + Len(t.slots)) * SlotLen, "slots",
                             OldSlots(t) \o [k \in DOMAIN t.slots |-> 0]), SlotLen)

SlotsPacked(t, w, rows) == PackRela(t, w, CombinedRela(t, rows, w.at["INIT_ARRAY"]))

\* A new .init_array and a .rela.dyn that relocates it, in the segment.
extend_segment_for_appended_init_slots(t, w) ==
  IF t.slots = <<>> THEN w
  ELSE SlotsPacked(t, PackSlots(t, w), Rows(Effective(t.c, w.over, RelaDyn(t))))

\* PT_DYNAMIC goes where the tags went; the writer finds its offset.
MovePhdr(w, len) ==
  [w EXCEPT !.phdrs = [k \in DOMAIN @ |->
     IF @[k].type # "DYNAMIC" THEN @[k]
     ELSE [@[k] EXCEPT !.vaddr = w.at["DYNAMIC"], !.off = 0, !.filesz = len, !.memsz = len]]]

RelocateDynamic(t, w, rows) ==
  LET grown == DynamicBytes(TakeTags(rows) \o Nulls(HEADROOM + 1))
  IN Unstage(MovePhdr(Pack(w, "DYNAMIC", grown, SlotLen), grown.len), DynamicIndex(t))

FilledUp(rows, n) == [k \in 1 .. n |-> IF k \in DOMAIN rows THEN rows[k] ELSE Null]

\* In place, filled up with terminators, when the list still fits; otherwise
\* it moves into the segment.
finalize_dynamic_size_or_relocate(t, w) ==
  IF ~HasSection(t.c.sections, ".dynamic") \/ DynamicIndex(t) \notin DOMAIN w.over THEN w
  ELSE LET rows == Rows(w.over[DynamicIndex(t)])
           room == t.c.sections[DynamicIndex(t)].bytes.len \div DynLen
       IN IF Len(rows) > room THEN RelocateDynamic(t, w, rows)
          ELSE Stage(w, DynamicIndex(t),
                     WithRows(t.c.sections[DynamicIndex(t)].bytes, FilledUp(rows, room)))

\* Rights of the appended segment: data alone, code alone, or a split.
SegmentOf(t, w) ==
  LET data  == t.exports = <<>> /\ t.bytes.len = 0 /\ t.slots = <<>>
      mixed == w.code > 0 /\ w.code < w.bytes.len
  IN [vaddr |-> t.vaddr, bytes |-> w.bytes, code_len |-> IF ~data /\ mixed THEN w.code ELSE 0,
      w |-> data \/ mixed, x |-> ~data]

WriteAppended(t, w) ==
  write_with_appended_segment_inner(t.c, w.phdrs, SegmentOf(t, w), w.over, t.writable)

CommitAppended(t) ==
  WriteAppended(t,
    finalize_dynamic_size_or_relocate(t,
      extend_segment_for_appended_init_slots(t,
        extend_segment_for_exports(t, PaddedCode(t)))))

\* The lifted text replaces its section; in the appended path as an override,
\* ahead of the ones that were queued.
WithText(t) ==
  IF t.text = NoBytes THEN t
  ELSE LET i == SectionIndex(t.c.sections, ".text")
       IN [t EXCEPT !.c.sections[i].bytes = t.text,
                    !.overrides = << [index |-> i, bytes |-> t.text] >> \o @]

\* A library or writable data without code still needs the segment.
Lazily(t) == IF t.deps # <<>> \/ t.writable # <<>> THEN WithSegment(t) ELSE t

commit_to_bytes(t) == IF t.appended THEN CommitAppended(t) ELSE write(t.c)

Committed(t) == commit_to_bytes(WithText(Lazily(t)))

\* AppendMissingElfImage: a table to extend is not there.
Needed(t) ==
  (IF t.exports # <<>> \/ t.deps # <<>>
   THEN {".dynsym", ".dynstr", ".gnu.version", ".dynamic"} ELSE {})
  \cup (IF t.exports # <<>> THEN {".gnu.hash"} ELSE {})
  \cup (IF t.slots # <<>> THEN {".dynamic"} ELSE {})

MissingTable(t) == \E name \in Needed(t) : ~HasSection(t.c.sections, name)

-----------------------------------------------------------------------------
(* Actions.                                                                *)

Queued(t) ==
  /\ open /\ calls < MaxCalls
  /\ s' = t
  /\ calls' = calls + 1
  /\ UNCHANGED <<file, seen, open, outcome, sessions>>

Body == << "body", calls + 1 >>

AddFunction(len) == Queued(add_function(s, len, Body, <<>>)) /\ UNCHANGED promised

AddExport(name, len) ==
  /\ LV!Export(name, Body)
  /\ Queued(add_function_exported(s, name, len, Body))

AddInitialiser(position, len) ==
  \/ /\ position = "Append"
     /\ HasSection(s.c.sections, ".rela.dyn")
     /\ LV!AppendSlot(Body)
     /\ Queued(AppendInitialiser(s, len, Body))
  \/ /\ position # "Append"
     /\ \E k \in SlotEntries(s, position) :
          /\ \A j \in SlotEntries(s, position) : k <= j
          /\ SlotRows(s)[k].addend \in Range(s.c.symbols)
          /\ LV!Chain(SlotIndex(s, position) + 1, Body)
          /\ Queued(Hijack(s, k, len, Body))

AddLibrary(name) ==
  /\ LV!AddLibrary(name)
  /\ Queued([s EXCEPT !.deps = Append(@, name)])

RemoveLibrary(name) ==
  /\ name \in NeededNames(s)
  /\ LV!RemoveLibrary(name)
  /\ Queued(remove_library_dependency_elf(s, name))

AddWritable(len) ==
  /\ ~s.appended
  /\ s.writable = <<>>
  /\ Queued([s EXCEPT !.writable =
               << [vaddr |-> pick_vaddr(s), bytes |-> Blob(len, "data", <<>>)] >>])
  /\ UNCHANGED promised

\* One function of the lifted .text gets a new body.
EditText(edit) ==
  /\ HasSection(s.c.sections, ".text")
  /\ \E name \in DOMAIN promised.exports :
       /\ promised.exports[name] = << FunctionAt(LiftText(s), edit.fn).id >>
       /\ LV!Replace(name, << "edited", calls + 1 >>)
       /\ Queued([s EXCEPT !.text = EditFunction(LiftText(s), edit, << "edited", calls + 1 >>)])

\* The session ends with a file, an error or a panic.
Commit ==
  /\ open
  /\ IF MissingTable(s) THEN outcome' = "error" /\ UNCHANGED file
     ELSE \E r \in {Committed(s)} :
            /\ outcome' = IF r.panic THEN "panic" ELSE "ok"
            /\ file' = IF r.panic THEN file ELSE r.file
  /\ open' = FALSE
  /\ seen' = View(file')
  /\ promised' = LV!Promise(seen')
  /\ UNCHANGED <<s, calls, sessions>>

\* Every table the tags name is still the section of that name.
TagSections ==
  [SYMTAB |-> ".dynsym", STRTAB |-> ".dynstr", GNU_HASH |-> ".gnu.hash",
   VERSYM |-> ".gnu.version", RELA |-> ".rela.dyn", INIT_ARRAY |-> ".init_array"]

SectionsInUse ==
  /\ \E p \in Range(file.phdrs), i \in DOMAIN file.sections :
       /\ p.type = "DYNAMIC" /\ file.sections[i].name = ".dynamic"
       /\ p.vaddr = file.sections[i].addr
  /\ \A e \in Range(Dynamic(file)), i \in DOMAIN file.sections :
       e.tag \in DOMAIN TagSections /\ file.sections[i].name = TagSections[e.tag] =>
         e.value = file.sections[i].addr

\* A later session opens the output.  Only outputs whose dynamic tables are
\* the sections the reader looks at are opened.
Reopen ==
  /\ ~open /\ sessions < MaxSessions
  /\ SectionsInUse
  /\ s' = NewSession(read(file))
  /\ open' = TRUE
  /\ sessions' = sessions + 1
  /\ UNCHANGED <<file, seen, outcome, promised, calls>>

Next ==
  \/ \E len \in BodyLens : AddFunction(len)
  \/ \E name \in ExportNames, len \in BodyLens : AddExport(name, len)
  \/ \E position \in {"First", "Last", "Append"}, len \in BodyLens : AddInitialiser(position, len)
  \/ \E name \in Libraries : AddLibrary(name) \/ RemoveLibrary(name)
  \/ \E len \in BodyLens : AddWritable(len)
  \/ \E edit \in TextEdits : EditText(edit)
  \/ Commit
  \/ Reopen

Spec == Init /\ [][Next]_vars

-----------------------------------------------------------------------------
(* Properties.                                                             *)

\* Every commit that comes to a file delivers what the calls promised: the
\* process that loads it finds, through the rebuilt .dynamic, .dynstr, .dynsym,
\* .gnu.hash, .gnu.version, .init_array and .rela.dyn, the libraries, exports,
\* initialiser chains and relocations of the plan and no others
\* (commit_to_bytes and the three extend and finalize steps it calls).
LoaderSeesThePlan == LV!Spec

Overlap(a, n, b, m) == a < b + m /\ b < a + n

PagesOf(p) == (p.vaddr \div PAGE) .. ((p.vaddr + p.memsz - 1) \div PAGE)

Loads == {k \in DOMAIN file.phdrs : file.phdrs[k].type = "LOAD"}

MapsHeader(load, p) ==
  /\ load.vaddr <= p.vaddr /\ p.vaddr + p.filesz <= load.vaddr + load.filesz
  /\ p.off - load.off = p.vaddr - load.vaddr

\* What a strict loader insists on in every file written: offset and address
\* of a segment agree modulo the page, segments share no page, none is both
\* writable and executable, PT_DYNAMIC and PT_PHDR lie where a segment maps
\* them, and PT_PHDR is the program header table itself
\* (write_with_appended_segment_inner).
SegmentsLoadable ==
  /\ \A k \in Loads :
       /\ file.phdrs[k].vaddr % PAGE = file.phdrs[k].off % PAGE
       /\ ~(file.phdrs[k].w /\ file.phdrs[k].x)
       /\ \A j \in Loads \ {k} : PagesOf(file.phdrs[k]) \cap PagesOf(file.phdrs[j]) = {}
  /\ \A k \in DOMAIN file.phdrs \ Loads :
       \E j \in Loads : MapsHeader(file.phdrs[j], file.phdrs[k])
  /\ \A k \in DOMAIN file.phdrs :
       file.phdrs[k].type = "PHDR" =>
         /\ file.phdrs[k].off = file.phoff
         /\ file.phdrs[k].filesz = PhdrLen * Len(file.phdrs)

\* Nothing written to the file lies over anything else: sections, the tables
\* in the appended segment and the program headers (reserve_until, pad_until).
FileRegionsDisjoint ==
  \A k \in DOMAIN file.chunks :
    /\ \A j \in 1 .. k - 1 :
         ~Overlap(file.chunks[k].at, file.chunks[k].len, file.chunks[j].at, file.chunks[j].len)
    /\ ~Overlap(file.chunks[k].at, file.chunks[k].len, file.phoff, PhdrLen * Len(file.phdrs))

\* A commit that appends a segment never trips the writer's assertions, however
\* the section table is ordered and whichever tables are extended (an edit of
\* .text keeps its length here): only the in-place writer does (placement order
\* and finalize_dynamic_size_or_relocate).
AppendedCommitNeverPanics ==
  ~open /\ outcome = "panic" => ~s.appended /\ s.deps = <<>> /\ s.writable = <<>>

\* The trampolines of a section that grew: the entry of every function of the
\* input still leads to a function ("a trampoline forwards execution to the
\* relocated function body", elf_writer.rs).
EntriesForwarded ==
  \A n \in DOMAIN seen.exports : Fault \notin Range(seen.exports[n])

=============================================================================
