---------------------------- MODULE MachoCommit -----------------------------
(***************************************************************************)
(* Editing sessions on a Mach-O image that change its fixups or grow its   *)
(* __TEXT (rewrite/editor.rs): the caller reads the chained fixups, edits  *)
(* the list and stages it, or reserves a grow and appends code, commits,   *)
(* and opens what was written as the input of the next session.            *)
(*                                                                         *)
(* `want` is what the caller's edits mean by the documentation of the      *)
(* editable view, kept apart from the data the code computes with; `Seen`  *)
(* is what dyld makes of a file.                                           *)
(***************************************************************************)
EXTENDS MachoWriter

CONSTANTS
  Images,     \* the input images
  Targets,    \* addresses that rebases are pointed at
  Slots,      \* addresses of slots that fixups are added at
  NewImports, \* imports that are added
  Addends,    \* addends of added binds
  Needs,      \* sizes of reservations and of appended code
  MaxCalls,   \* bound on the calls of all sessions
  MaxCommits  \* bound on the sessions

VARIABLES
  file,     \* the image of the open session, or the one a commit wrote
  before,   \* the image the last commit started from
  cf,       \* the caller's ChainedFixups, or NoFixups
  want,     \* [fix, imports]: what the edits ask for
  staged,   \* macho_raw_byte_overrides
  promised, \* the fixups of the last staging, as dyld should see them
  clean,    \* everything staged could be expressed (see Expressible)
  grow,     \* pending_text_grow [gp, delta], or NoGrow
  payload,  \* the length of what was appended
  phase,    \* "open", "inplace", "grown" or "failed"
  moved,    \* the delta of the last grown commit
  calls, commits

vars == << file, before, cf, want, staged, promised, clean, grow, payload, phase, moved, calls, commits >>

session == << cf, want, staged, promised, clean, grow, payload >>

NoFixups == [segments |-> <<>>, imports |-> <<>>]
NoWant   == [fix |-> {}, imports |-> <<>>]
NoGrow   == [gp |-> 0, delta |-> -1]

-----------------------------------------------------------------------------
(* dyld.                                                                   *)

Address(a) == [k |-> "address", a |-> a]
Symbol(imp, addend) == [k |-> "symbol", lib |-> imp.lib, name |-> imp.name, weak |-> imp.weak, plus |-> imp.addend + addend]

\* The formats whose targets count from the load address.
LoadRelative == {"ptr64_offset", "userland"}

Resolved(f, b, format, word) ==
  CASE word.k = "rebase" -> Address(IF format \in LoadRelative THEN Base(f) + word.target ELSE word.target)
    [] word.k = "bind" /\ word.ord < b.count -> Symbol(decode_import(b, word.ord), word.addend)
    [] OTHER -> Torn

\* dyld finds a segment's chains at the offset its starts give.
ChainsSeen(f, b, i) ==
  LET start == b.starts[i]
      seg   == [f.segs[i] EXCEPT !.off = start.segment_offset, !.vm = Base(f) + start.segment_offset]
      words == Walk(f, seg, start)
  IN  [k \in DOMAIN words |-> [at |-> words[k].at, is |-> Resolved(f, b, start.format, words[k].word)]]

PointersSeen(f) ==
  LET locs == rebase_locations(f)
      Word(loc) == Get(f.content, f.segs[loc.seg].off + loc.off, 8)
  IN  [k \in DOMAIN locs |->
         [at |-> f.segs[locs[k].seg].vm + locs[k].off,
          is |-> IF Word(locs[k]).k = "pointer" THEN Address(Word(locs[k]).target) ELSE Torn]]

\* The fixups that dyld applies, in its order.
Seen(f) ==
  IF ~Has(f, "cf") THEN PointersSeen(f)
  ELSE LET b == Blob(f, "cf")
       IN  IF b.k = "torn" THEN <<>>
           ELSE LET index == SetToSortSeq(DOMAIN b.starts, <)
                IN  FlattenSeq([k \in DOMAIN index |-> ChainsSeen(f, b, index[k])])

OffsetsIn(f, kind) ==
  UNION {Range(Get(f.content, c.off, c.size).offs) : c \in {d \in Range(f.sects) : d.kind = kind}}

-----------------------------------------------------------------------------
(* A session.                                                              *)

Init ==
  /\ file \in Images
  /\ before = file
  /\ cf = NoFixups /\ want = NoWant
  /\ staged = <<>> /\ promised = {} /\ clean = TRUE
  /\ grow = NoGrow /\ payload = 0
  /\ phase = "open" /\ moved = 0 /\ calls = 0 /\ commits = 0

Call ==
  /\ phase = "open" /\ calls < MaxCalls
  /\ calls' = calls + 1
  /\ UNCHANGED << file, before, phase, moved, commits >>

\* What the caller of read should find: absolute addresses, and binds.
FixupsIn(f) ==
  {[at |-> x.at, is |-> IF x.t.k = "bind" THEN x.t ELSE (CHOOSE y \in Range(Seen(f)) : y.at = x.at).is] :
     x \in UNION {Range(sf.fixups) : sf \in Range(read(f).segments)}}

ReadFixups ==
  /\ Call
  /\ cf = NoFixups
  /\ ~IsErr(read(file))
  /\ cf' = read(file)
  /\ want' = [fix |-> FixupsIn(file), imports |-> read(file).imports]
  /\ UNCHANGED << staged, promised, clean, grow, payload >>

Editing == Call /\ cf # NoFixups /\ UNCHANGED << staged, promised, clean, grow, payload >>

Repoint(old, new) ==
  /\ Editing
  /\ old # new
  /\ cf' = repoint_fixup(cf, old, new)
  /\ want' = [want EXCEPT !.fix = {IF x.is = Address(old) THEN [x EXCEPT !.is = Address(new)] ELSE x : x \in @}]

\* The caller pushes a fixup onto the list of a segment, or takes those of a slot out.
AddFixup(k, at, t) ==
  /\ Editing
  /\ LET seg == file.segs[cf.segments[k].index] IN seg.vm <= at /\ at < seg.vm + seg.vmsize
  /\ cf' = [cf EXCEPT !.segments[k].fixups = Append(@, Fixup(at, t))]
  /\ want' = [want EXCEPT !.fix = {x \in @ : x.at # at} \cup
                {[at |-> at, is |-> IF t.k = "bind" THEN t ELSE Address(t.target)]}]

RemoveFixup(k, at) ==
  /\ Editing
  /\ cf' = [cf EXCEPT !.segments[k].fixups = SelectSeq(@, LAMBDA x : x.at # at)]
  /\ want' = [want EXCEPT !.fix = {x \in @ : x.at # at}]

AddImport(imp) ==
  /\ Editing
  /\ cf' = [cf EXCEPT !.imports = Append(@, imp)]
  /\ want' = [want EXCEPT !.imports = Append(@, imp)]

\* The way to rename a bind is to change its import.
RenameImport(i, name) ==
  /\ Editing
  /\ cf' = [cf EXCEPT !.imports[i].name = name]
  /\ want' = [want EXCEPT !.imports[i].name = name]

EnsureAddend64 ==
  /\ Editing
  /\ cf' = ensure_addend64(cf)
  /\ UNCHANGED want

\* The conditions under which the fixups of a list can reach dyld: what the
\* code loses beyond them is listed in the README.
Expressible ==
  LET all == FlattenSeq([k \in DOMAIN cf.segments |-> cf.segments[k].fixups])
      SegAt(a) == CHOOSE g \in Range(file.segs) : g.vm <= a /\ a < g.vm + g.vmsize
  IN  /\ \A i, j \in DOMAIN all : i # j => all[i].at # all[j].at
      /\ \A x \in Range(all) : x.at + 8 <= SegAt(x.at).vm + SegAt(x.at).filesize
      /\ \A x \in Range(all) : x.t.k = "bind" /\ stride(cf.format) = 4 => x.t.addend < 256
      /\ cf.imports # cf.original_imports \/ cf.ondisk = read(file).ondisk
      /\ \/ cf.format \notin LoadRelative
         \/ cf.format \notin SegmentRelative /\ Base(file) = 0
         \/ cf.segments = read(file).segments /\ want.fix = FixupsIn(file)

\* commit_chained_fixups_full: nothing is staged if a slot cannot be encoded,
\* the list is refused or the blob does not fit its place.
StageFixups ==
  /\ Call
  /\ cf # NoFixups
  /\ LET slots == slot_bytes(cf, file.segs)
         blob  == serialize(cf, file.segs)
         place == file.lcs["cf"]
     IN  IF \/ \E w \in Range(slots) : IsErr(w.data)
            \/ IsErr(blob)
            \/ ~IsErr(blob) /\ blob.len > place.size
           THEN UNCHANGED session
           ELSE /\ staged' = staged \o << Piece(place.off, place.size, blob.data) >> \o slots
                /\ promised' = {[x EXCEPT !.is = IF @.k = "bind" THEN Symbol(want.imports[@.import + 1], @.addend) ELSE @] :
                                  x \in want.fix}
                /\ clean' = (clean /\ Expressible)
                /\ UNCHANGED << cf, want, grow, payload >>

\* reserve_text_grow (delta 0: sized at the commit) and
\* setup_grow_reservation (pages for `needed` bytes, one at least).
ReserveTextGrow(needed) ==
  /\ Call
  /\ grow = NoGrow
  /\ grow' = [gp |-> growth_point(file),
              delta |-> IF needed = 0 THEN 0 ELSE align_up(needed, PAGE)]
  /\ UNCHANGED << cf, want, staged, promised, clean, payload >>

\* Code appended to the gap; a sized gap refuses what does not fit.
AppendCode(len) ==
  /\ Call
  /\ grow # NoGrow
  /\ grow.delta > 0 => payload + len <= grow.delta
  /\ payload' = payload + len
  /\ UNCHANGED << cf, want, staged, promised, clean, grow >>

\* The segments that build_grown_macho encodes the fixups against, told
\* apart by their file offsets.
ShiftedSegment(g, gp, delta) ==
  IF g.off >= gp THEN [g EXCEPT !.vm = @ + delta, !.off = @ + delta]
  ELSE IF g.off + g.filesize > gp THEN [g EXCEPT !.vmsize = @ + delta, !.filesize = @ + delta]
  ELSE g

build_grown_macho(f, gp, delta, len) ==
  LET shifted == [i \in DOMAIN f.segs |-> ShiftedSegment(f.segs[i], gp, delta)]
      r       == read(f)
  IN  IF Has(f, "cf") /\ IsErr(r) /\ r.err # "truncated" THEN r
      ELSE IF IsErr(r) \/ (~IsErr(r) /\ \A sf \in Range(r.segments) : sf.fixups = <<>>)
        THEN write_with_text_growth_opts(f, gp, delta, len, <<>>, Failed("none"))
      ELSE LET up    == shift_by(r, delta)
               slots == slot_bytes(up, shifted)
               blob  == serialize(up, shifted)
           IN  IF IsErr(blob) \/ \E w \in Range(slots) : IsErr(w.data) THEN Failed("encode")
               ELSE write_with_text_growth_opts(f, gp, delta, len, slots, blob)

\* commit_to_bytes: a deferred grow is as large as what was appended, and
\* none at all if nothing was.  The grown writer takes no staged bytes.
Commit ==
  LET delta == IF grow.delta = 0 THEN align_up(payload, PAGE) ELSE grow.delta
      grows == grow # NoGrow /\ delta > 0
  IN  /\ phase = "open" /\ commits < MaxCommits
      /\ \E r \in {IF grows THEN build_grown_macho(file, grow.gp, delta, payload)
                   ELSE write_with_options(file, staged)} :
           /\ file' = IF IsErr(r) THEN file ELSE r
           /\ phase' = CASE IsErr(r) -> "failed" [] grows -> "grown" [] OTHER -> "inplace"
      /\ before' = file
      /\ moved' = IF grows THEN delta ELSE 0
      /\ commits' = commits + 1
      /\ UNCHANGED << cf, want, staged, promised, clean, grow, payload, calls >>

\* The next session opens what was written.
Reopen ==
  /\ phase \in {"inplace", "grown"} /\ clean /\ commits < MaxCommits
  /\ phase' = "open"
  /\ cf' = NoFixups /\ want' = NoWant /\ staged' = <<>> /\ promised' = {}
  /\ grow' = NoGrow /\ payload' = 0
  /\ UNCHANGED << file, before, clean, moved, calls, commits >>

Next ==
  \/ ReadFixups
  \/ \E old, new \in Targets : Repoint(old, new)
  \/ \E k \in DOMAIN cf.segments, at \in Slots, new \in Targets : AddFixup(k, at, Rebase(new))
  \/ \E k \in DOMAIN cf.segments, at \in Slots, i \in DOMAIN cf.imports, a \in Addends : AddFixup(k, at, Bind(i - 1, a))
  \/ \E k \in DOMAIN cf.segments : \E x \in Range(cf.segments[k].fixups) : RemoveFixup(k, x.at)
  \/ \E imp \in NewImports : AddImport(imp)
  \/ \E i \in DOMAIN cf.imports, imp \in NewImports : RenameImport(i, imp.name)
  \/ EnsureAddend64
  \/ StageFixups
  \/ \E n \in Needs \cup {0} : ReserveTextGrow(n)
  \/ \E n \in Needs : AppendCode(n)
  \/ Commit
  \/ Reopen

Spec == Init /\ [][Next]_vars

-----------------------------------------------------------------------------
(* Properties.                                                             *)

\* A committed list of fixups is what dyld applies: each slot once, with the
\* address or the symbol the edits asked for, and nothing else (chains and
\* starts agree, the imports table is read back as it was meant).  Stated for
\* what the format can express (commit_chained_fixups_full, serialize,
\* slot_bytes).
FixupsDelivered ==
  phase = "inplace" /\ staged # <<>> /\ clean =>
    /\ Range(Seen(file)) = promised
    /\ Len(Seen(file)) = Cardinality(promised)

\* Where a grow puts what was at address a, and at image offset o.
To(a) == IF a >= insert_vaddr(before) THEN a + moved ELSE a
OffsetTo(o) == To(Base(before) + o) - Base(before)

\* A rebase of a moved address follows it; one into the header, and one that
\* the library takes for an offset into the slot's segment, does not.
Follows(x, y) ==
  /\ y.at = To(x.at)
  /\ IF /\ x.is.k = "address" /\ x.is.a >= insert_vaddr(before)
        /\ Has(before, "cf") => \A s \in Range(Blob(before, "cf").starts) : s.format \notin SegmentRelative
       THEN y.is = Address(To(x.is.a))
       ELSE x.is.k = "symbol" => y.is = x.is

FixupsFollow ==
  /\ Len(Seen(file)) = Len(Seen(before))
  /\ \A x \in Range(Seen(before)) : \E y \in Range(Seen(file)) : Follows(x, y)

\* Sections keep their bytes and lie where their segment maps them.
SectionsFollow ==
  \A i \in DOMAIN before.sects :
    LET c == before.sects[i]
        d == file.sects[i]
        g == SegNamed(file, d.seg)
    IN  /\ d.vm = To(c.vm)
        /\ g.vm <= d.vm /\ d.vm + d.size <= g.vm + g.vmsize
        /\ d.off > 0 => d.vm - g.vm = d.off - g.off
        /\ c.kind = "code" => Get(file.content, d.off, d.size) = Get(before.content, c.off, c.size)

ExportsFollow ==
  Has(before, "trie") =>
    LET old == Blob(before, "trie").rows
        new == Blob(file, "trie").rows
    IN  /\ {r.name : r \in Range(new)} = {r.name : r \in Range(old)}
        /\ \A r \in Range(old) : r.kind = "regular" /\ r.off >= growth_point(before) =>
             [r EXCEPT !.off = OffsetTo(@)] \in Range(new)

\* The symbol of the mach header moves when the load address is not zero.
SymbolsFollow ==
  \A i \in DOMAIN Blob(before, "sym").rows :
    LET r == Blob(before, "sym").rows[i]
    IN  ~(r.kind = "sect" /\ r.value < insert_vaddr(before) /\ Base(before) > 0) =>
          Blob(file, "sym").rows[i] = [r EXCEPT !.value = IF r.kind = "sect" THEN To(@) ELSE @]

\* After a grow everything that named an address past the insert names the
\* place where its bytes went, and nothing else changed: fixups, sections,
\* exports, symbols, initialisers, unwind entries, the entry point and the
\* appended code (build_grown_macho, write_with_text_growth_opts).
AddressesFollow ==
  phase = "grown" =>
    /\ FixupsFollow
    /\ SectionsFollow
    /\ ExportsFollow
    /\ SymbolsFollow
    /\ \A kind \in {"init", "unwind"} : OffsetsIn(file, kind) = {OffsetTo(o) : o \in OffsetsIn(before, kind)}
    /\ file.entry = IF before.entry = NoStart THEN NoStart ELSE OffsetTo(before.entry)
    /\ payload > 0 => Get(file.content, grow.gp, payload) = [k |-> "payload"]

\* What a commit writes is a well-formed image: each load command names its
\* own blob, whole, inside __LINKEDIT and apart from the others, and no two
\* segments share an address or a byte of the file
\* (place_or_relocate_linkedit_blob, canonicalize_linkedit).
LinkeditIntact ==
  phase \in {"inplace", "grown"} /\ clean =>
    /\ \A lc \in DOMAIN file.lcs :
         LET r == file.lcs[lc]
         IN  /\ Blob(file, lc).k = lc
             /\ Linkedit(file).off <= r.off
             /\ r.off + r.size <= Linkedit(file).off + Linkedit(file).filesize
             /\ \A other \in DOMAIN file.lcs \ {lc} :
                  ~Overlap(r.off, r.size, file.lcs[other].off, file.lcs[other].size)
    /\ Linkedit(file).off + Linkedit(file).filesize = file.len
    /\ \A i, j \in DOMAIN file.segs : i < j =>
         LET g == file.segs[i]
             h == file.segs[j]
         IN  /\ ~Overlap(g.vm, g.vmsize, h.vm, h.vmsize)
             /\ ~Overlap(g.off, g.filesize, h.off, h.filesize)

=============================================================================
